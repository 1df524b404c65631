------------------------------ MODULE Adapter ------------------------------
(***************************************************************************)
(* The MCP adapter: tool calls, handled concurrently, over one runtime     *)
(* slot and one Claude channel, and the shutdown that follows the protocol *)
(* session.  The slot's lock covers single looks and swaps; the channel's  *)
(* mutex is held across awaits.  Sessions appear by what the adapter can   *)
(* tell of them (module Session has their inside, module Binding the       *)
(* files); a session has the profile lock while anything refers to it,     *)
(* unless it was shut down.                                                *)
(***************************************************************************)
EXTENDS Naturals, FiniteSets

CONSTANTS Call,         \* tool calls handled at a time
          Tools,        \* the kinds of call in use
          Runtime,      \* the sessions that can be started
          None          \* no session; no holder of the mutex

ToolsAssumption == Tools \subseteq {"join", "leave", "use", "status", "free"}
NoneAssumption == None \notin Runtime \cup Call

Server == "server"

VARIABLES
  slot,      \* RuntimeSlot: a runtime, or the name of a state without one
  session,   \* what became of each runtime
  bound,     \* the profile's metadata is on disk
  channel,   \* the runtime the channel observes, or None
  mutex,     \* who has the channel's mutex
  pc, tool, failed,
  mine,      \* the runtime a call or the server works on
  answer     \* the last code a call was answered with

vars == <<slot, session, bound, channel, mutex, pc, tool, failed, mine, answer>>

\* from_environment: a profile that is bound is dormant until it is used.
Init ==
  /\ bound \in BOOLEAN
  /\ slot = IF bound THEN "Dormant" ELSE "Unbound"
  /\ session = [r \in Runtime |-> "none"]
  /\ channel = None /\ mutex = None
  /\ pc = [c \in Call \cup {Server} |-> "Idle"]
  /\ tool = [c \in Call |-> "free"] /\ failed = [c \in Call |-> FALSE]
  /\ mine = [c \in Call \cup {Server} |-> None]
  /\ answer = [c \in Call |-> "ok"]

Goto(c, s) == pc' = [pc EXCEPT ![c] = s]
Fresh(r) == session[r] = "none"

\* The profile lock is taken by a session that something refers to.
Locked == \E r \in Runtime :
  /\ session[r] \notin {"none", "Stopped"}
  /\ slot = r \/ channel = r \/ \E c \in Call \cup {Server} : mine[c] = r

\* The call is answered with a code; what the server does next comes after it.
Answer(c, code) ==
  /\ Goto(c, "After")
  /\ failed' = [failed EXCEPT ![c] = code # "ok"]
  /\ answer' = [answer EXCEPT ![c] = code]
  /\ mine' = [mine EXCEPT ![c] = None]

-----------------------------------------------------------------------------
(* call_tool *)

Begin(c, t) ==
  /\ pc[c] = "Idle" /\ pc[Server] = "Idle"
  /\ Goto(c, IF t = "leave" THEN "StopChannel" ELSE "Dispatch")
  /\ tool' = [tool EXCEPT ![c] = t]
  /\ answer' = [answer EXCEPT ![c] = "ok"]
  /\ UNCHANGED <<slot, session, bound, channel, mutex, failed, mine>>

\* stop_channel(), of a leave and of the shutdown: the mutex is kept until the
\* controller is down.
StopChannel(c) ==
  /\ pc[c] = "StopChannel" /\ mutex = None
  /\ Goto(c, IF channel = None THEN "Dispatch" ELSE "Stopping")
  /\ mutex' = IF channel = None THEN None ELSE c
  /\ channel' = None
  /\ UNCHANGED <<slot, session, bound, tool, failed, mine, answer>>

ChannelStopped(c) ==
  /\ pc[c] = "Stopping"
  /\ mutex' = None
  /\ Goto(c, "Dispatch")
  /\ UNCHANGED <<slot, session, bound, channel, tool, failed, mine, answer>>

\* A tool that needs no session.
Free(c) ==
  /\ pc[c] = "Dispatch" /\ tool[c] = "free"
  /\ \E code \in {"ok", "refused"} : Answer(c, code)
  /\ UNCHANGED <<slot, session, bound, channel, mutex, tool>>

-----------------------------------------------------------------------------
(* join *)

Join(c) ==
  /\ pc[c] = "Dispatch" /\ tool[c] = "join"
  /\ \/ /\ slot = "Unbound"
        /\ slot' = "Transition"
        /\ Goto(c, "Joining")
        /\ UNCHANGED <<failed, answer, mine>>
     \/ /\ slot \in Runtime \cup {"Dormant"}
        /\ Answer(c, "AlreadyBound") /\ UNCHANGED slot
     \/ slot = "Transition" /\ Answer(c, "Locked") /\ UNCHANGED slot
  /\ UNCHANGED <<session, bound, channel, mutex, tool>>

\* join_owned: joined and published; or refused, before or after the profile
\* was stored.
Joined(c) ==
  /\ pc[c] = "Joining"
  /\ \/ \E r \in Runtime :
          /\ ~bound /\ ~Locked /\ Fresh(r)
          /\ session' = [session EXCEPT ![r] = "Ready"]
          /\ bound' = TRUE
          /\ slot' = r
          /\ Answer(c, "ok")
     \/ /\ bound' = (bound \/ ~Locked) \/ bound' = bound
        /\ slot' = "Unbound"
        /\ Answer(c, "refused")
        /\ UNCHANGED session
  /\ UNCHANGED <<channel, mutex, tool>>

-----------------------------------------------------------------------------
(* active(): next is where a call goes with the runtime it gets. *)

Active(c, next, unbound) ==
  \/ /\ slot \in Runtime
     /\ mine' = [mine EXCEPT ![c] = slot]
     /\ Goto(c, next)
     /\ UNCHANGED <<slot, failed, answer, mutex>>
  \/ /\ slot = "Dormant"
     /\ slot' = "Transition"
     /\ Goto(c, IF next = "Attach" THEN "AttachStart" ELSE "Starting")
     /\ UNCHANGED <<failed, answer, mine, mutex>>
  \/ slot = "Unbound" /\ unbound /\ UNCHANGED slot
  \/ slot = "Transition" /\ UNCHANGED slot
     /\ IF next = "Attach"
        THEN Goto(c, "Idle") /\ mutex' = None /\ UNCHANGED <<failed, answer, mine>>
        ELSE Answer(c, "Locked") /\ UNCHANGED mutex

Use(c) ==
  /\ pc[c] = "Dispatch" /\ tool[c] \in {"use", "leave", "status"}
  /\ Active(c, IF tool[c] = "leave" THEN "Swap" ELSE "Using",
            Answer(c, IF tool[c] = "status" THEN "ok" ELSE "Unbound") /\ UNCHANGED mutex)
  /\ UNCHANGED <<session, bound, channel, tool>>

\* SessionRuntime::start succeeds, or fails; failing, it may have completed an
\* earlier leave, which unbinds the profile.
Started(c) ==
  /\ pc[c] \in {"Starting", "AttachStart"}
  /\ \/ \E r \in Runtime :
          /\ bound /\ ~Locked /\ Fresh(r)
          /\ session' = [session EXCEPT ![r] = "Ready"]
          /\ slot' = r
          /\ mine' = [mine EXCEPT ![c] = r]
          /\ Goto(c, IF pc[c] = "AttachStart" THEN "Attach"
                     ELSE IF tool[c] = "leave" THEN "Swap" ELSE "Using")
          /\ UNCHANGED <<bound, failed, answer, mutex>>
     \/ /\ bound' = bound \/ bound' = (bound /\ Locked)
        /\ slot' = "Dormant"
        /\ IF pc[c] = "AttachStart"
           THEN Goto(c, "Idle") /\ mutex' = None /\ UNCHANGED <<failed, answer, mine>>
           ELSE Answer(c, "refused") /\ UNCHANGED mutex
        /\ UNCHANGED session
  /\ UNCHANGED <<channel, tool>>

\* The session does its part (module Session), well or not.
Used(c) ==
  /\ pc[c] = "Using"
  /\ \E code \in {"ok", "refused"} :
       /\ code = "ok" => session[mine[c]] = "Ready" \/ tool[c] = "status"
       /\ Answer(c, code)
  /\ UNCHANGED <<slot, session, bound, channel, mutex, tool>>

-----------------------------------------------------------------------------
(* leave *)

Swap(c) ==
  /\ pc[c] = "Swap"
  /\ \/ /\ slot \in Runtime
        /\ mine' = [mine EXCEPT ![c] = slot]
        /\ slot' = "Transition"
        /\ Goto(c, "Leaving")
        /\ UNCHANGED <<failed, answer>>
     \/ slot \in {"Dormant", "Transition"} /\ Answer(c, "Locked") /\ UNCHANGED slot
     \/ slot = "Unbound" /\ Answer(c, "Unbound") /\ UNCHANGED slot
  /\ UNCHANGED <<session, bound, channel, mutex, tool>>

\* leave_owned: a runtime whose leave fails goes back into the slot.  What the
\* failure was: refused, nothing changed; the relay had ended the membership,
\* and the profile is cleared; ambiguous; or a session that is not ready.
Left(c) ==
  LET r == mine[c]
      Fails(s, b) == /\ session' = [session EXCEPT ![r] = s]
                     /\ bound' = b
                     /\ slot' = r
                     /\ Answer(c, "refused") IN
  /\ pc[c] = "Leaving"
  /\ IF session[r] = "Ready"
     THEN \/ /\ session' = [session EXCEPT ![r] = "Left"]
             /\ bound' = FALSE
             /\ slot' = "Unbound"
             /\ Answer(c, "ok")
          \/ Fails("Ready", bound) \/ Fails("Left", FALSE) \/ Fails("Ambiguous", bound)
     ELSE Fails(session[r], bound)
  /\ UNCHANGED <<channel, mutex, tool>>

\* A session fences itself (a resume without an outcome, a failed rotation).
Fences(r) ==
  /\ session[r] = "Ready"
  /\ \A c \in Call : ~(pc[c] = "Leaving" /\ mine[c] = r)
  /\ session' = [session EXCEPT ![r] = "Unknown"]
  /\ UNCHANGED <<slot, bound, channel, mutex, pc, tool, failed, mine, answer>>

-----------------------------------------------------------------------------
(* After the answer: ensure_channel_started(), of every call that succeeds   *)
(* and of a leave that fails.                                                *)

After(c) ==
  /\ pc[c] = "After"
  /\ Goto(c, IF failed[c] <=> tool[c] = "leave" THEN "Ensure" ELSE "Idle")
  /\ UNCHANGED <<slot, session, bound, channel, mutex, tool, failed, mine, answer>>

Ensure(c) ==
  /\ pc[c] = "Ensure" /\ mutex = None
  /\ IF channel # None THEN Goto(c, "Idle") /\ UNCHANGED mutex
     ELSE Goto(c, "Observe") /\ mutex' = c
  /\ UNCHANGED <<slot, session, bound, channel, tool, failed, mine, answer>>

Observe(c) ==
  /\ pc[c] = "Observe"
  /\ Active(c, "Attach", Goto(c, "Idle") /\ mutex' = None /\ UNCHANGED <<failed, answer, mine>>)
  /\ UNCHANGED <<session, bound, channel, tool>>

\* activation_runtime(): the session's authority, then the profile's squad.
Attach(c) ==
  /\ pc[c] = "Attach"
  /\ IF session[mine[c]] = "Ready" /\ bound
     THEN Goto(c, "Controller") /\ UNCHANGED <<mutex, mine>>
     ELSE Goto(c, "Idle") /\ mutex' = None /\ mine' = [mine EXCEPT ![c] = None]
  /\ UNCHANGED <<slot, session, bound, channel, tool, failed, answer>>

\* The controller starts, or its status file cannot be written.
Controller(c) ==
  /\ pc[c] = "Controller"
  /\ channel' \in {mine[c], None}
  /\ mutex' = None
  /\ mine' = [mine EXCEPT ![c] = None]
  /\ Goto(c, "Idle")
  /\ UNCHANGED <<slot, session, bound, tool, failed, answer>>

-----------------------------------------------------------------------------
(* The protocol session ends; calls under way go on. *)

Shutdown ==
  /\ pc[Server] = "Idle"
  /\ Goto(Server, "StopChannel")
  /\ UNCHANGED <<slot, session, bound, channel, mutex, tool, failed, mine, answer>>

\* Faulty: a slot in transition is taken for an empty one.
TakeAtOnce ==
  /\ pc[Server] = "Dispatch"
  /\ slot' = "Transition"
  /\ mine' = [mine EXCEPT ![Server] = IF slot \in Runtime THEN slot ELSE None]
  /\ Goto(Server, "Taken")
  /\ UNCHANGED <<session, bound, channel, mutex, tool, failed, answer>>

\* Faulty: a slot without a session is looked at again, without a bound.
TakeSession ==
  /\ pc[Server] = "Dispatch"
  /\ IF slot \in Runtime
     THEN /\ slot' = "Transition"
          /\ mine' = [mine EXCEPT ![Server] = slot]
          /\ Goto(Server, "Taken")
     ELSE UNCHANGED <<slot, mine, pc>>
  /\ UNCHANGED <<session, bound, channel, mutex, tool, failed, answer>>

\* The slot is taken once it is settled; a transition that lasts is given up.
Take ==
  /\ pc[Server] = "Dispatch"
  /\ IF slot = "Transition"
     THEN Goto(Server, "GaveUp") /\ UNCHANGED <<slot, mine>>
     ELSE /\ slot' = "Transition"
          /\ mine' = [mine EXCEPT ![Server] = IF slot \in Runtime THEN slot ELSE None]
          /\ Goto(Server, "Taken")
  /\ UNCHANGED <<session, bound, channel, mutex, tool, failed, answer>>

\* The runtime is shut down; if that times out, it is dropped.
Taken ==
  /\ pc[Server] = "Taken"
  /\ session' = [r \in Runtime |-> IF r = mine[Server] THEN "Stopped" ELSE session[r]]
  /\ slot' = "Unbound"
  /\ mine' = [mine EXCEPT ![Server] = None]
  /\ Goto(Server, "Done")
  /\ UNCHANGED <<bound, channel, mutex, tool, failed, answer>>

Over == pc[Server] \in {"Done", "GaveUp"} /\ (\A c \in Call : pc[c] = "Idle") /\ UNCHANGED vars

-----------------------------------------------------------------------------
Handling(c) ==
  \/ StopChannel(c) \/ ChannelStopped(c) \/ Free(c) \/ Join(c) \/ Joined(c)
  \/ Use(c) \/ Started(c) \/ Used(c) \/ Swap(c) \/ Left(c)
  \/ After(c) \/ Ensure(c) \/ Observe(c) \/ Attach(c) \/ Controller(c)

Stopping == StopChannel(Server) \/ ChannelStopped(Server) \/ Take \/ Taken

Next ==
  \/ \E c \in Call : Handling(c) \/ \E t \in Tools : Begin(c, t)
  \/ \E r \in Runtime : Fences(r)
  \/ Shutdown \/ Stopping \/ Over

Spec == Init /\ [][Next]_vars

\* Handlers are polled and their waits bounded; the channel's mutex, which the shutdown waits
\* for, is fair to it.
Fairness == (\A c \in Call : WF_vars(Handling(c))) /\ SF_vars(Stopping)

FairSpec == Spec /\ Fairness

-----------------------------------------------------------------------------
Owners == {c \in Call : pc[c] \in {"Joining", "Starting", "AttachStart", "Leaving"}}
          \cup {c \in {Server} : pc[c] = "Taken"}

\* A slot in transition is somebody's, and of one only: a join, a start, a
\* leave and the shutdown never publish over each other's result.
TransitionHasOneOwner ==
  /\ slot = "Transition" <=> Owners # {}
  /\ Cardinality(Owners) <= 1

\* No running session is lost: the slot or the owner of its transition has it,
\* so that the shutdown finds it.
NoSessionIsLost ==
  \A r \in Runtime : session[r] = "Ready" =>
    slot = r \/ \E c \in Owners : mine[c] = r

\* A transition of the runtime slot ends, whoever began it.
TransitionEnds == slot = "Transition" ~> slot # "Transition"

\* The adapter's shutdown ends: it waits for transitions and calls under a bound.
ShutdownEnds == pc[Server] = "StopChannel" ~> pc[Server] \in {"Done", "GaveUp"}

\* "Stop inbox observation before the terminal profile mutation": a session
\* that is being left is not observed.
LeavingIsUnobserved == \A c \in Call : pc[c] = "Leaving" => channel = None

\* Between calls the channel observes the session in the slot.
ChannelServesSlot ==
  channel # None /\ (\A c \in Call \cup {Server} : pc[c] = "Idle") => slot = channel

\* "an ambiguous leave must stay fenced", and so must one that the relay had
\* already ended: the channel is not restarted on the session of either.
AmbiguousStaysFenced == channel # None => session[channel] \notin {"Ambiguous", "Left"}

\* "The selected profile is already bound."
AlreadyBoundIsTrue == \A c \in Call : pc[c] = "After" /\ answer[c] = "AlreadyBound" => bound

\* "The selected profile is not bound."
UnboundIsTrue == \A c \in Call : pc[c] = "After" /\ answer[c] = "Unbound" => ~bound

\* What holds of the slot and the channel at every moment, and what holds as
\* long as one call is handled at a time.
AdapterInvariant == TransitionHasOneOwner /\ NoSessionIsLost
SerialInvariant == LeavingIsUnobserved /\ ChannelServesSlot /\ AmbiguousStaysFenced
=============================================================================
