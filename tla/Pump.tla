-------------------------------- MODULE Pump --------------------------------
(***************************************************************************)
(* The stdio boundary of psst-mcp (psst-mcp/lib.rs): two framing pumps     *)
(* around the MCP SDK, and serve_protocol, which waits for whichever of    *)
(* the three tasks ends first and takes the others down in bounded time.   *)
(*                                                                         *)
(* A stream is a sequence of bytes, each an ordinary one or a newline; a   *)
(* frame is its length.  The SDK and its service are external: it answers  *)
(* frames as it likes, ends at end of input, may hang and may fail.        *)
(***************************************************************************)
EXTENDS Integers, Sequences, FiniteSets, FiniteSetsExt, SequencesExt

CONSTANTS
    MaxLine,      \* MAX_INBOUND_LINE_BYTES and MAX_OUTBOUND_LINE_BYTES
    Inputs,       \* what the host may write before it closes stdin
    PipeFrames,   \* frames the duplex towards the SDK holds
    PipeBytes,    \* bytes the duplex from the SDK holds
    MaxReplies    \* bound of the model on the frames the SDK writes

VARIABLES
    input,    \* all the host writes, fixed at the start
    stdin,    \* what of it is still unread
    closed,   \* the host closed its end
    inbound,  \* the input pump: bytes of the frame it holds, state
    toSdk,    \* frames between the input pump and the SDK
    seen,     \* frames the SDK read
    service,  \* state of the service task
    fromSdk,  \* bytes between the SDK and the output pump
    sent,     \* number of frames the SDK wrote
    outbound, \* the output pump: bytes of the frame it holds, state
    stdout,   \* frames on stdout, and whether all of each is there
    main,     \* where serve_bounded_with is
    result    \* what it returns

pumpVars == <<input, stdin, closed, inbound, toSdk, seen, service, fromSdk,
              sent, outbound, stdout, main, result>>

Running == {"run", "write"}
Byte == {"b", "n"}
Line(n) == [k \in 1 .. n |-> IF k = n THEN "n" ELSE "b"]

PumpInit == /\ input \in Inputs
            /\ stdin = input
            /\ closed = FALSE
            /\ inbound = [got |-> 0, state |-> "run"]
            /\ toSdk = << >>
            /\ seen = << >>
            /\ service = "run"
            /\ fromSdk = << >>
            /\ sent = 0
            /\ outbound = [got |-> 0, state |-> "run"]
            /\ stdout = << >>
            /\ main = "serve"
            /\ result = "Ok"

----------------------------------------------------------------------------
(* pump_lines, for both directions.                                        *)

\* The frame is full and another byte arrives.
AtLimit(p) == p.got = MaxLine

Take(p) == [p EXCEPT !.got = @ + 1]

\* End of input: a frame without its newline is an error and is not forwarded.
EndOfInput(p) == [p EXCEPT !.state = IF p.got = 0 THEN "Ok" ELSE "Err"]

SdkReads == service = "run"

\* One byte from the host; a newline forwards the frame to the SDK.
PumpIn ==
    /\ inbound.state = "run"
    /\ stdin # << >>
    /\ stdin' = Tail(stdin)
    /\ \/ /\ AtLimit(inbound)
          /\ inbound' = [inbound EXCEPT !.state = "Err"]
          /\ UNCHANGED toSdk
       \/ /\ ~AtLimit(inbound) /\ Head(stdin) = "b"
          /\ inbound' = Take(inbound)
          /\ UNCHANGED toSdk
       \/ /\ ~AtLimit(inbound) /\ Head(stdin) = "n" /\ SdkReads
          /\ Len(toSdk) < PipeFrames
          /\ toSdk' = Append(toSdk, inbound.got + 1)
          /\ inbound' = [inbound EXCEPT !.got = 0]
       \/ /\ ~AtLimit(inbound) /\ Head(stdin) = "n" /\ ~SdkReads
          /\ inbound' = [inbound EXCEPT !.state = "Broken"]
          /\ UNCHANGED toSdk
    /\ UNCHANGED <<input, closed, seen, service, fromSdk, sent, outbound, stdout,
                   main, result>>

PumpInEnds ==
    /\ inbound.state = "run"
    /\ stdin = << >> /\ closed
    /\ inbound' = EndOfInput(inbound)
    /\ UNCHANGED <<input, stdin, closed, toSdk, seen, service, fromSdk, sent,
                   outbound, stdout, main, result>>

\* One byte from the SDK; a newline starts writing the frame to stdout.
PumpOut ==
    /\ outbound.state = "run"
    /\ fromSdk # << >>
    /\ fromSdk' = Tail(fromSdk)
    /\ \/ /\ AtLimit(outbound)
          /\ outbound' = [outbound EXCEPT !.state = "Err"]
          /\ UNCHANGED stdout
       \/ /\ ~AtLimit(outbound) /\ Head(fromSdk) = "b"
          /\ outbound' = Take(outbound)
          /\ UNCHANGED stdout
       \/ /\ ~AtLimit(outbound) /\ Head(fromSdk) = "n"
          /\ outbound' = [got |-> 0, state |-> "write"]
          /\ stdout' = Append(stdout, [len |-> outbound.got + 1, whole |-> FALSE])
    /\ UNCHANGED <<input, stdin, closed, inbound, toSdk, seen, service, sent,
                   main, result>>

\* write_all and flush complete when the host has read.
PumpOutWrote ==
    /\ outbound.state = "write"
    /\ outbound' = [outbound EXCEPT !.state = "run"]
    /\ stdout' = [stdout EXCEPT ![Len(stdout)].whole = TRUE]
    /\ UNCHANGED <<input, stdin, closed, inbound, toSdk, seen, service, fromSdk,
                   sent, main, result>>

PumpOutEnds ==
    /\ outbound.state = "run"
    /\ fromSdk = << >> /\ service # "run"
    /\ outbound' = EndOfInput(outbound)
    /\ UNCHANGED <<input, stdin, closed, inbound, toSdk, seen, service, fromSdk,
                   sent, stdout, main, result>>

----------------------------------------------------------------------------
(* The host and the SDK.                                                   *)

HostCloses ==
    /\ ~closed
    /\ closed' = TRUE
    /\ UNCHANGED <<input, stdin, inbound, toSdk, seen, service, fromSdk, sent,
                   outbound, stdout, main, result>>

\* The SDK reads a frame and answers it, if at all, with a frame of any length;
\* it reads on only while it has room to answer.
SdkHandles ==
    /\ service = "run"
    /\ toSdk # << >>
    /\ outbound.state \in Running => Len(fromSdk) + MaxLine + 1 <= PipeBytes
    /\ toSdk' = Tail(toSdk)
    /\ seen' = Append(seen, Head(toSdk))
    /\ \/ UNCHANGED <<fromSdk, sent>>
       \/ \E n \in 1 .. MaxLine + 1 :
             /\ outbound.state \in Running
             /\ sent < MaxReplies
             /\ fromSdk' = fromSdk \o Line(n)
             /\ sent' = sent + 1
    /\ UNCHANGED <<input, stdin, closed, inbound, service, outbound, stdout,
                   main, result>>

\* The service ends at end of input, or by failing.
SdkEnds ==
    /\ service = "run"
    /\ main # "serve"
    /\ \/ inbound.state \notin Running /\ toSdk = << >> /\ service' = "Ok"
       \/ service' = "Err"
    /\ UNCHANGED <<input, stdin, closed, inbound, toSdk, seen, fromSdk, sent,
                   outbound, stdout, main, result>>

----------------------------------------------------------------------------
(* serve_protocol and serve_bounded_with.                                  *)

Cancelled(p) == IF p.state \in Running THEN [p EXCEPT !.state = "gone"] ELSE p
CancelledService == IF service = "run" THEN "gone" ELSE service

Still == UNCHANGED <<input, stdin, closed, toSdk, seen, fromSdk, sent, stdout>>

Goto(step, value) == main' = step /\ result' = value

\* The handshake: the SDK read the first frame.
ServeStarts ==
    /\ main = "serve" /\ seen # << >>
    /\ Goto("select", "Ok")
    /\ UNCHANGED <<inbound, service, outbound>> /\ Still

\* It read none, or not the one it wants.
ServeFails ==
    /\ main = "serve"
    /\ seen # << >> \/ (inbound.state \notin Running /\ toSdk = << >>)
    /\ inbound' = Cancelled(inbound)
    /\ outbound' = Cancelled(outbound)
    /\ service' = "Err"
    /\ Goto("shutdown", "Err")
    /\ Still

SelectInput ==
    /\ main = "select"
    /\ \/ /\ inbound.state = "Ok"
          /\ Goto("service", "Ok")
          /\ UNCHANGED <<service, outbound>>
       \/ /\ inbound.state \in {"Err", "Broken"}
          /\ service' = CancelledService
          /\ outbound' = Cancelled(outbound)
          /\ Goto("shutdown", "Err")
    /\ UNCHANGED inbound /\ Still

SelectOutput ==
    /\ main = "select"
    /\ outbound.state \in {"Ok", "Err"}
    /\ inbound' = Cancelled(inbound)
    /\ service' = CancelledService
    /\ Goto("shutdown", outbound.state)
    /\ UNCHANGED outbound /\ Still

SelectService ==
    /\ main = "select"
    /\ service \in {"Ok", "Err"}
    /\ inbound' = Cancelled(inbound)
    /\ Goto("output", service)
    /\ UNCHANGED <<service, outbound>> /\ Still

\* await_bounded on the service, after a clean end of input.
AwaitService ==
    /\ main = "service"
    /\ service \in {"Ok", "Err"}
    /\ IF service = "Ok" THEN Goto("output", "Ok") /\ UNCHANGED outbound
                         ELSE Goto("shutdown", "Err") /\ outbound' = Cancelled(outbound)
    /\ UNCHANGED <<inbound, service>> /\ Still

ServiceTimeout ==
    /\ main = "service"
    /\ service = "run"
    /\ service' = "gone"
    /\ outbound' = Cancelled(outbound)
    /\ Goto("shutdown", "Err")
    /\ UNCHANGED inbound /\ Still

AwaitOutput ==
    /\ main = "output"
    /\ outbound.state \in {"Ok", "Err"}
    /\ Goto("shutdown", IF outbound.state = "Err" THEN "Err" ELSE result)
    /\ UNCHANGED <<inbound, service, outbound>> /\ Still

OutputTimeout ==
    /\ main = "output"
    /\ outbound.state \in Running
    /\ outbound' = Cancelled(outbound)
    /\ Goto("shutdown", "Err")
    /\ UNCHANGED <<inbound, service>> /\ Still

\* The session is shut down on every path; its failure hides no earlier one.
Shutdown ==
    /\ main = "shutdown"
    /\ \E failed \in BOOLEAN : Goto("done", IF failed THEN "Err" ELSE result)
    /\ UNCHANGED <<inbound, service, outbound>> /\ Still

----------------------------------------------------------------------------
Pumps == PumpIn \/ PumpInEnds \/ PumpOut \/ PumpOutEnds
Serve == \/ ServeStarts \/ ServeFails \/ SelectInput \/ SelectOutput
         \/ SelectService \/ AwaitService \/ ServiceTimeout
         \/ AwaitOutput \/ OutputTimeout \/ Shutdown

PumpNext == Pumps \/ PumpOutWrote \/ HostCloses \/ SdkHandles \/ SdkEnds \/ Serve

PumpSpec == PumpInit /\ [][PumpNext]_pumpVars

\* The runtime polls every task that can go on, the SDK keeps reading and the
\* host reads stdout.  The service may hang once its input has ended.
PumpFairness == /\ WF_pumpVars(PumpIn \/ PumpInEnds)
                /\ WF_pumpVars(PumpOut \/ PumpOutEnds \/ PumpOutWrote)
                /\ WF_pumpVars(SdkHandles)

FairPumpSpec == PumpSpec /\ PumpFairness /\ WF_pumpVars(Serve)

----------------------------------------------------------------------------
(* What the boundary promises.                                             *)

\* Pumps, service and main are at one of their steps, and no line in the making
\* is longer than the limit.
PumpTypeOK ==
    /\ input \in Inputs /\ stdin \in Seq(Byte) /\ fromSdk \in Seq(Byte)
    /\ \A p \in {inbound, outbound} :
          p.got \in 0 .. MaxLine /\ p.state \in Running \cup {"Ok", "Err", "Broken", "gone"}
    /\ service \in {"run", "Ok", "Err", "gone"}
    /\ main \in {"serve", "select", "service", "output", "shutdown", "done"}
    /\ result \in {"Ok", "Err"}

\* The frames the SDK gets are exactly the host's lines, in order: each ends at
\* the next newline of the input, none is longer than the limit, no byte is
\* lost between them, and an unterminated or oversized line contributes none.
FramingIsExact ==
    LET frames == seen \o toSdk
        End(k) == MapThenSumSet(LAMBDA j : frames[j], 1 .. k)
    IN  /\ \A k \in DOMAIN frames :
              /\ frames[k] <= MaxLine
              /\ input[End(k)] = "n"
              /\ \A b \in End(k - 1) + 1 .. End(k) - 1 : input[b] = "b"
        /\ inbound.state = "Ok" => End(Len(frames)) = Len(input)

\* When serve_bounded_with returns Ok, everything the SDK wrote is on stdout,
\* whole: serve_protocol awaits the output pump after the service.
OkMeansDelivered ==
    main = "done" /\ result = "Ok" =>
        Len(stdout) = sent /\ \A k \in DOMAIN stdout : stdout[k].whole

\* Before the session is shut down no task of the transport is left running,
\* whichever of the three ended first.
NothingLeftRunning ==
    main \in {"shutdown", "done"} =>
        inbound.state \notin Running /\ outbound.state \notin Running /\ service # "run"

\* When a host that reads stdout closes stdin, the process comes to its end: the
\* pumps and the duplexes between them drain without waiting on each other in a
\* circle, and a service that hangs is given up.
EndsAfterEof == closed ~> main = "done"

\* An oversized or unterminated frame from the host makes serve_bounded_with
\* return an error.
FramingErrorIsReported ==
    main = "done" /\ inbound.state = "Err" => result = "Err"

\* Stdout holds frames only: each frame that was started is complete when the
\* process ends.
StdoutIsWholeFrames ==
    main = "done" => \A k \in DOMAIN stdout : stdout[k].whole

\* What holds of the stdio boundary at every moment.
PumpInvariant == PumpTypeOK /\ FramingIsExact /\ OkMeansDelivered /\ NothingLeftRunning
=============================================================================
