------------------------------- MODULE Codex --------------------------------
(***************************************************************************)
(* The Codex harness (psst-codex): CyclingSessionSource, which holds the   *)
(* profile while it watches the inbox, and CodexAppServerHost, which       *)
(* launches one app-server process per turn, driven by the loop of         *)
(* run_activation (Activation).                                            *)
(*                                                                         *)
(* External: the app-server, whose n-th process answers, calls tools,      *)
(* completes its turn and exits as it likes; the psst-mcp process it       *)
(* starts, which takes the profile to serve the turn; and other local      *)
(* processes that use the same profile.                                    *)
(***************************************************************************)
EXTENDS Integers, Sequences, FiniteSets

CONSTANTS Message,          \* mail that may arrive
          MaximumAttempts,  \* ActivationPolicy.maximum_attempts
          MaxLaunch,        \* bound: app-server processes
          MaxQueue,         \* bound: unread messages of the app-server
          Lacking           \* what an installation may lack, one at a time

CodexAssumption ==
    /\ MaximumAttempts \in Nat \ {0}
    /\ MaxLaunch \in Nat \ {0}
    /\ MaxQueue \in Nat \ {0}

VARIABLES
    mail,       \* pending mail
    arrived,    \* mail that has ever arrived
    holder,     \* who has the profile lock: Nobody, Observer, Other, or n
    slot,       \* CyclingSessionSource.runtime
    pc,         \* the await the activation task is at
    failures,   \* observation_failures
    attempt,    \* ActivationMachine.retry_attempt
    config,     \* AppServerConfig: the thread policy, and what the installation lacks
    record,     \* the thread recorded on disk, or NoThread
    launched,   \* processes launched
    client,     \* HostState.client: the n of its process, or 0
    proc,       \* the app-server processes
    mcp,        \* their psst-mcp children
    turn,       \* the turns of the processes, as they know them
    wire,       \* what the app-server has written and the host not yet read
    backlog,    \* JsonLines.pending
    call,       \* the tool call being served
    retrieved,  \* retrieved_message_ids
    shown,      \* history: what the n-th turn has been shown
    issued      \* history: turns begun since mail was last observed

mailbox == <<mail, arrived>>
engine == <<pc, failures, attempt>>
host == <<config, record, launched, client>>
processes == <<proc, mcp, turn>>
protocol == <<wire, backlog, call, retrieved>>
vars == <<mailbox, holder, slot, engine, host, processes, protocol, shown, issued>>

Process == 1..MaxLaunch
Nobody == 0
Observer == -1
Other == -2
NoThread == -1
Configured == 0        \* PSST_CODEX_THREAD_ID; a created thread has its process's number

AppServerError == {"Configuration", "Schema", "Launch", "Protocol", "Rejected",
                   "Timeout", "Exited"}

\* What the adapter sends, on launching, for a turn and for a tool call, and what
\* it understands.
SentOnLaunch == {"initialize", "initialized", "thread/start", "thread/resume"}
SentForTurn == {"turn/start"}
SentForTool == {"mcpServer/tool/call"}
Sent == SentOnLaunch \cup SentForTurn \cup SentForTool
Understood == {"turn/completed", "item/tool/call"}

\* What validate_generated_schema looks for in the installed schema.
Required == {"initialize", "initialized", "thread/start", "thread/resume",
             "turn/start", "turn/completed", "item/tool/call",
             "mcpServer/tool/call", "DynamicToolSpec"}

\* The fields the adapter writes into its requests.
Written == {"initialize.clientInfo", "initialize.capabilities",
            "thread/start.cwd", "thread/start.approvalPolicy", "thread/start.sandbox",
            "thread/start.serviceName", "thread/start.dynamicTools",
            "thread/resume.threadId", "thread/resume.dynamicTools",
            "turn/start.threadId", "turn/start.input", "turn/start.cwd",
            "turn/start.approvalPolicy", "turn/start.sandboxPolicy",
            "mcpServer/tool/call.threadId", "mcpServer/tool/call.server",
            "mcpServer/tool/call.tool", "mcpServer/tool/call.arguments"}

\* The properties validate_schema_shapes looks for in the requests' schemas.
Checked == {"initialize.clientInfo", "initialize.capabilities",
            "thread/start.cwd", "thread/start.approvalPolicy", "thread/start.sandbox",
            "thread/start.serviceName", "thread/resume.threadId",
            "turn/start.threadId", "turn/start.input",
            "mcpServer/tool/call.threadId", "mcpServer/tool/call.server",
            "mcpServer/tool/call.tool", "mcpServer/tool/call.arguments"}

\* The tools a turn is given, and what a call of each may name.
dynamic_tools(kind, ids) ==
    \/ kind = "receive" /\ ids = {}
    \/ kind = "acknowledge" /\ ids # {}

\* What launch can fail with before there is a process: mcp_override, then the spawn.
LaunchError == {"Configuration", "Launch"}

\* from_environment: which thread policy the variables select, if any.
ThreadPolicy(id, create, target) ==
    CASE id # NoThread /\ ~create /\ target = "unset" -> [kind |-> "Resume", thread |-> id]
      [] id = NoThread /\ create /\ target = "free" -> [kind |-> "Create", thread |-> NoThread]
      [] OTHER -> [kind |-> "Configuration", thread |-> NoThread]

\* prepare accepts an installation whose schema lacks these.
Prepared(lacks) == (Required \cup Checked) \cap lacks = {}

Init ==
    /\ \E id \in {NoThread, Configured}, create \in BOOLEAN,
          target \in {"unset", "free", "taken"} :
            /\ ThreadPolicy(id, create, target).kind # "Configuration"
            /\ \E lacks \in {{}} \cup {{feature} : feature \in Lacking} :
                /\ Prepared(lacks)
                /\ config = [policy |-> ThreadPolicy(id, create, target), lacks |-> lacks]
    /\ mail = {} /\ arrived = {}
    /\ holder = Nobody /\ slot = "none"
    /\ pc = "observe" /\ failures = 0 /\ attempt = 0
    /\ record = NoThread /\ launched = 0 /\ client = 0
    /\ proc = [n \in Process |-> "none"]
    /\ mcp = [n \in Process |-> "none"]
    /\ turn = [n \in Process |-> [thread |-> NoThread, state |-> "none"]]
    /\ wire = << >> /\ backlog = << >> /\ retrieved = {}
    /\ call = [kind |-> "none", ids |-> {}]
    /\ shown = [n \in Process |-> {}]
    /\ issued = 0

-----------------------------------------------------------------------------
(***************************************************************************)
(* The surroundings.                                                       *)
(***************************************************************************)

Arrive(m) ==
    /\ m \notin arrived
    /\ arrived' = arrived \cup {m}
    /\ mail' = mail \cup {m}
    /\ UNCHANGED <<holder, slot, engine, host, processes, protocol, shown, issued>>

\* Another local command uses the profile.
OtherTakes ==
    /\ holder = Nobody
    /\ holder' = Other
    /\ UNCHANGED <<mailbox, slot, engine, host, processes, protocol, shown, issued>>

OtherReleases ==
    /\ holder = Other
    /\ holder' = Nobody
    /\ UNCHANGED <<mailbox, slot, engine, host, processes, protocol, shown, issued>>

\* psst-mcp takes the profile to serve its app-server.
ChildTakes(n) ==
    /\ mcp[n] = "up" /\ holder = Nobody
    /\ holder' = n
    /\ UNCHANGED <<mailbox, slot, engine, host, processes, protocol, shown, issued>>

\* It ends, some time, when its app-server has gone.
ChildExits(n) ==
    /\ mcp[n] = "up" /\ proc[n] = "gone"
    /\ mcp' = [mcp EXCEPT ![n] = "gone"]
    /\ holder' = IF holder = n THEN Nobody ELSE holder
    /\ UNCHANGED <<mailbox, slot, engine, host, proc, turn, protocol, shown, issued>>

\* The app-server ends by itself.
ServerExits(n) ==
    /\ proc[n] = "up"
    /\ proc' = [proc EXCEPT ![n] = "gone"]
    /\ UNCHANGED <<mailbox, holder, slot, engine, host, mcp, turn, protocol, shown,
                   issued>>

Room == Len(wire) + Len(backlog) < MaxQueue

\* The model calls a tool: it receives, or acknowledges whatever it likes.
ServerCalls(n, kind, ids) ==
    /\ proc[n] = "up" /\ turn[n].state = "running" /\ client = n
    /\ Room
    /\ dynamic_tools(kind, ids)
    /\ wire' = Append(wire, [kind |-> kind, ids |-> ids])
    /\ UNCHANGED <<mailbox, holder, slot, engine, host, processes, backlog, call,
                   retrieved, shown, issued>>

\* The turn ends, well or not.
ServerCompletes(n, status) ==
    /\ proc[n] = "up" /\ turn[n].state = "running" /\ client = n
    /\ turn' = [turn EXCEPT ![n].state = status]
    /\ wire' = Append(wire, [kind |-> status, ids |-> {}])
    /\ UNCHANGED <<mailbox, holder, slot, engine, host, proc, mcp, backlog, call,
                   retrieved, shown, issued>>

-----------------------------------------------------------------------------
(***************************************************************************)
(* CyclingSessionSource::observe.                                          *)
(***************************************************************************)

\* classify_session and run_activation's count: a retryable failure is tried
\* again until the attempts are used up.
ObservationFails(kind) ==
    /\ failures' = IF kind = "Retryable" THEN failures + 1 ELSE failures
    /\ pc' = IF kind = "Retryable" /\ failures' < MaximumAttempts
             THEN "pause" ELSE "blocked"
    /\ UNCHANGED attempt

\* ensure_runtime: the profile is taken by somebody else, or is ours.
EnsureRuntime ==
    /\ pc = "observe" /\ slot = "none"
    /\ \/ /\ holder # Nobody
          /\ ObservationFails("Retryable")
          /\ UNCHANGED <<holder, slot>>
       \/ /\ holder = Nobody
          /\ holder' = Observer /\ slot' = "open"
          /\ UNCHANGED engine
    /\ UNCHANGED <<mailbox, host, processes, protocol, shown, issued>>

\* The relay cannot be reached, refuses, or gives no answer.
ObserveFails(kind) ==
    /\ pc = "observe"
    /\ ObservationFails(kind)
    /\ UNCHANGED <<mailbox, holder, slot, host, processes, protocol, shown, issued>>

ObserveAgain ==
    /\ pc = "pause"
    /\ pc' = "observe"
    /\ UNCHANGED <<mailbox, holder, slot, failures, attempt, host, processes,
                   protocol, shown, issued>>

\* The poll returns with nothing: the session stays open for the next one.
InboxEmpty ==
    /\ pc = "observe" /\ slot = "open" /\ mail = {}
    /\ failures' = 0
    /\ UNCHANGED <<mailbox, holder, slot, pc, attempt, host, processes, protocol, shown,
                   issued>>

\* The poll returns with mail.
Inbox ==
    /\ pc = "observe" /\ slot = "open" /\ mail # {}
    /\ pc' = "release"
    /\ issued' = 0
    /\ UNCHANGED <<mailbox, holder, slot, failures, attempt, host, processes,
                   protocol, shown>>

\* runtime.shutdown before the wake is returned; if it fails the slot stays.
Release ==
    /\ pc = "release"
    /\ \/ /\ holder' = Nobody /\ slot' = "none"
          /\ pc' = "start" /\ failures' = 0
       \/ /\ pc' = "blocked"
          /\ UNCHANGED <<holder, slot, failures>>
    /\ UNCHANGED <<mailbox, attempt, host, processes, protocol, shown, issued>>

-----------------------------------------------------------------------------
(***************************************************************************)
(* CodexAppServerHost::start.                                              *)
(***************************************************************************)

classify_start(error) ==
    CASE error \in {"Launch", "Exited", "Rejected"} -> "RetryableBeforeStart"
      [] error \in {"Configuration", "Schema", "Protocol"} -> "Permanent"
      [] error = "Timeout" -> "OutcomeUnknown"

\* drive_wake's answer to a failed start.
StartFails(failure) ==
    /\ attempt' = IF failure = "RetryableBeforeStart" THEN attempt + 1 ELSE attempt
    /\ pc' = IF failure = "RetryableBeforeStart" /\ attempt' < MaximumAttempts
             THEN "backoff" ELSE "blocked"
    /\ UNCHANGED failures

RetryDue ==
    /\ pc = "backoff"
    /\ pc' = "start"
    /\ UNCHANGED <<mailbox, holder, slot, failures, attempt, host, processes,
                   protocol, shown, issued>>

\* start, up to the spawn of the process.
Launch ==
    /\ pc = "start"
    /\ \/ /\ \E error \in LaunchError :
                StartFails(IF client # 0 THEN "RetryableBeforeStart" ELSE classify_start(error))
          /\ UNCHANGED <<launched, proc>>
       \/ /\ client = 0 /\ launched < MaxLaunch
          /\ launched' = launched + 1
          /\ proc' = [proc EXCEPT ![launched + 1] = "up"]
          /\ pc' = "initialize"
          /\ UNCHANGED <<failures, attempt>>
    /\ UNCHANGED <<mailbox, holder, slot, config, record, client, mcp, turn, protocol,
                   shown, issued>>

\* launch fails after the spawn: the Child is dropped, which kills it.
LaunchFails(error) ==
    /\ StartFails(classify_start(error))
    /\ proc' = [proc EXCEPT ![launched] = "gone"]

\* The first request and the notification after it.
Initialize ==
    /\ pc = "initialize"
    /\ \/ /\ proc[launched] = "up"
          /\ pc' = "thread"
          /\ UNCHANGED <<failures, attempt, proc>>
       \/ \E error \in {"Exited", "Timeout", "Protocol"} : LaunchFails(error)
       \/ proc[launched] = "up" /\ LaunchFails("Rejected")
    /\ UNCHANGED <<mailbox, holder, slot, host, mcp, turn, protocol, shown, issued>>

\* The thread the app-server answers with is the one asked for.
Answered(t) ==
    \/ config.policy.kind = "Resume" /\ t = config.policy.thread
    \/ config.policy.kind = "Create"

\* persist_thread_id: the record must not exist yet.
PersistThreadId(t) ==
    /\ record = NoThread
    /\ record' = t

\* thread/start or thread/resume; a created thread is recorded before it is
\* used, and resumed from then on.
InitializeThread(t) ==
    /\ pc = "thread"
    /\ config.policy.kind = "Create" => t = launched
    /\ \/ /\ proc[launched] = "up"
          /\ mcp' = [mcp EXCEPT ![launched] = "up"]
          /\ \/ /\ Answered(t)
                /\ IF config.policy.kind = "Create" THEN PersistThreadId(t) ELSE UNCHANGED record
                /\ config' = [config EXCEPT !.policy = [kind |-> "Resume", thread |-> t]]
                /\ client' = launched
                /\ pc' = "turnStart"
                /\ wire' = << >> /\ backlog' = << >> /\ retrieved' = {}
                /\ call' = [kind |-> "none", ids |-> {}]
                /\ UNCHANGED <<failures, attempt, proc>>
             \/ /\ ~Answered(t)
                /\ LaunchFails("Protocol")
                /\ UNCHANGED <<record, config, client, protocol>>
             \/ /\ config.policy.kind = "Create"      \* persist_thread_id fails
                /\ LaunchFails("Configuration")
                /\ UNCHANGED <<record, config, client, protocol>>
       \/ \E error \in {"Exited", "Timeout", "Protocol", "Rejected"} :
            /\ LaunchFails(error)
            /\ UNCHANGED <<record, config, client, mcp, protocol>>
    /\ UNCHANGED <<mailbox, holder, slot, launched, turn, shown, issued>>

\* The app-server receives turn/start and begins the turn.
ServerBegins ==
    /\ pc = "turnStart" /\ proc[client] = "up" /\ turn[client].state = "none"
    /\ turn' = [turn EXCEPT ![client] = [thread |-> config.policy.thread, state |-> "running"]]
    /\ issued' = issued + 1
    /\ UNCHANGED <<mailbox, holder, slot, engine, host, proc, mcp, protocol, shown>>

\* JsonLines::request keeps what comes before its answer.
Retained == backlog \o wire

\* start_turn returns the turn's id.
StartTurn ==
    /\ pc = "turnStart" /\ turn[client].state # "none"
    /\ pc' = "turn"
    /\ backlog' = Retained /\ wire' = << >>
    /\ UNCHANGED <<mailbox, holder, slot, failures, attempt, host, processes, call, retrieved,
                   shown, issued>>

\* AppServerClient::shutdown: stdin is closed, and after five seconds the
\* process is killed; the client is dropped whatever comes of it.
Reap ==
    /\ proc' = [proc EXCEPT ![client] = "gone"]
    /\ client' = 0

\* start_turn fails: the process is shut down, then the error is classified.
StartTurnFails(error) ==
    /\ pc = "turnStart"
    /\ error = "Exited" => proc[client] = "gone"
    /\ error = "Rejected" => turn[client].state = "none"
    /\ StartFails(classify_start(error))
    /\ Reap
    /\ UNCHANGED <<mailbox, holder, slot, config, record, launched, mcp, turn,
                   protocol, shown, issued>>

-----------------------------------------------------------------------------
(***************************************************************************)
(* CodexTurn::completed: the loop of wait_completed, then the shutdown.    *)
(***************************************************************************)

\* The turn is over for the host.  Every error, also one of the shutdown, is
\* OutcomeUnknown, which blocks the engine.
TurnEnds(ok) ==
    /\ pc' = IF ok THEN "observe" ELSE "blocked"
    /\ attempt' = IF ok THEN 0 ELSE attempt
    /\ Reap
    /\ UNCHANGED <<failures, config, record, launched>>

Unread == backlog \o wire

\* The message is read from the backlog first.
Consume ==
    IF backlog # << >> THEN backlog' = Tail(backlog) /\ UNCHANGED wire
    ELSE wire' = Tail(wire) /\ UNCHANGED backlog

\* Faulty: any message may be acknowledged.
MayAcknowledgeAny(ids) == TRUE

\* parse_tool_call: only what this turn has retrieved.
MayAcknowledge(ids) == ids \subseteq retrieved

ReadToolCall ==
    /\ pc = "turn" /\ Unread # << >>
    /\ Head(Unread).kind \in {"receive", "acknowledge"}
    /\ Consume
    /\ \/ /\ MayAcknowledge(Head(Unread).ids)
          /\ call' = Head(Unread)
          /\ pc' = "tool"
          /\ UNCHANGED <<failures, attempt, host, proc>>
       \/ /\ ~MayAcknowledge(Head(Unread).ids)
          /\ TurnEnds(FALSE)
          /\ UNCHANGED call
    /\ UNCHANGED <<mailbox, holder, slot, mcp, turn, retrieved, shown, issued>>

\* The app-server's psst-mcp has served the proxied call.  What it was shown
\* or has acknowledged is noted, and the model is answered.
ToolCallServed ==
    /\ pc = "tool" /\ holder = client
    /\ mail' = mail \ call.ids
    /\ retrieved' = IF call.kind = "receive" THEN retrieved \cup mail
                    ELSE retrieved \ call.ids
    /\ shown' = IF call.kind = "receive"
                THEN [shown EXCEPT ![client] = @ \cup mail] ELSE shown
    /\ pc' = "turn"
    /\ backlog' = Retained /\ wire' = << >>
    /\ UNCHANGED <<arrived, holder, slot, failures, attempt, host, processes, call,
                   issued>>

\* The tool reports an error, which the model is told.
ToolCallRefused ==
    /\ pc = "tool"
    /\ pc' = "turn"
    /\ backlog' = Retained /\ wire' = << >>
    /\ UNCHANGED <<mailbox, holder, slot, failures, attempt, host, processes, call,
                   retrieved, shown, issued>>

\* The call has no usable answer; it may have been served.
ToolCallFails ==
    /\ pc = "tool"
    /\ mail' \in {mail, IF holder = client THEN mail \ call.ids ELSE mail}
    /\ TurnEnds(FALSE)
    /\ UNCHANGED <<arrived, holder, slot, mcp, turn, protocol, shown, issued>>

\* completion_result: turn/completed of this turn, with its status; and the
\* shutdown that follows may fail too.
ReadCompletion ==
    /\ pc = "turn" /\ Unread # << >>
    /\ Head(Unread).kind \in {"completed", "failed"}
    /\ Consume
    /\ \/ Head(Unread).kind = "completed" /\ TurnEnds(TRUE)
       \/ TurnEnds(FALSE)
    /\ UNCHANGED <<mailbox, holder, slot, mcp, turn, call, retrieved, shown, issued>>

\* The process has gone, the turn takes longer than TURN_TIMEOUT, or a frame
\* is malformed.
ReadFails ==
    /\ pc = "turn"
    /\ TurnEnds(FALSE)
    /\ UNCHANGED <<mailbox, holder, slot, mcp, turn, protocol, shown, issued>>

-----------------------------------------------------------------------------
(***************************************************************************)
(* CodexActivation::shutdown.                                              *)
(***************************************************************************)

\* The task's future is dropped at its await: a process that is being
\* launched is killed, one that has a client stays with it.
Cancel ==
    /\ pc \notin {"cancelled", "stopped"}
    /\ pc' = "cancelled"
    /\ proc' = IF pc \in {"initialize", "thread"}
               THEN [proc EXCEPT ![launched] = "gone"] ELSE proc
    /\ UNCHANGED <<mailbox, holder, slot, failures, attempt, host, mcp, turn, protocol,
                   shown, issued>>

\* The host's process is reaped, the observer's session closed.
Shutdown ==
    /\ pc = "cancelled"
    /\ pc' = "stopped"
    /\ IF client # 0 THEN Reap ELSE UNCHANGED <<proc, client>>
    /\ slot' = "none"
    /\ holder' = IF slot = "open" THEN Nobody ELSE holder
    /\ UNCHANGED <<mailbox, failures, attempt, config, record, launched, mcp, turn,
                   protocol, shown, issued>>

-----------------------------------------------------------------------------

Source ==
    \/ EnsureRuntime
    \/ \E kind \in {"Retryable", "Permanent"} : ObserveFails(kind)
    \/ ObserveAgain
    \/ InboxEmpty
    \/ Inbox
    \/ Release

Start ==
    \/ RetryDue
    \/ Launch
    \/ Initialize
    \/ \E t \in 0..MaxLaunch : InitializeThread(t)
    \/ StartTurn
    \/ \E error \in {"Rejected", "Exited", "Timeout", "Protocol"} : StartTurnFails(error)

Turn ==
    \/ ReadToolCall
    \/ ToolCallServed
    \/ ToolCallRefused
    \/ ToolCallFails
    \/ ReadCompletion
    \/ ReadFails

AppServer ==
    \/ ServerBegins
    \/ \E n \in Process :
        \/ ChildTakes(n)
        \/ ChildExits(n)
        \/ ServerExits(n)
        \/ \E kind \in {"receive", "acknowledge"}, ids \in SUBSET arrived :
            ServerCalls(n, kind, ids)
        \/ \E status \in {"completed", "failed"} : ServerCompletes(n, status)

Next ==
    \/ \E m \in Message : Arrive(m)
    \/ OtherTakes
    \/ OtherReleases
    \/ Source
    \/ Start
    \/ Turn
    \/ AppServer
    \/ Cancel
    \/ Shutdown

Spec == Init /\ [][Next]_vars

-----------------------------------------------------------------------------
(***************************************************************************)
(* Properties.                                                             *)
(***************************************************************************)

Running(n) == proc[n] = "up" /\ turn[n].state = "running"

\* No app-server is alive while the observer has the profile, so that the
\* turn's own psst-mcp can take it: observe gives its session up before it
\* returns a wake.
ObserverYields ==
    slot = "open" => \A n \in Process : proc[n] # "up"

\* A turn acknowledges only what it has itself been shown, whatever earlier
\* turns were shown; and mail that no turn was shown stays pending.
AcknowledgedWasShown ==
    /\ pc = "tool" => call.ids \subseteq shown[client]
    /\ arrived \ mail \subseteq UNION {shown[n] : n \in Process}

\* There is never more than one turn under way, and the host still owns its
\* process, whatever failed or was cancelled before.
TurnsAreOwned ==
    \A n \in Process : Running(n) => client = n

\* After a clean shutdown no turn runs and the observer has let go of the
\* profile.
ShutdownLeavesNothing ==
    pc = "stopped" =>
        /\ slot = "none" /\ holder # Observer
        /\ \A n \in Process : proc[n] # "up"

\* Every turn runs in one durable thread, the configured or the recorded one.
OneDurableThread ==
    \A n \in Process : turn[n].state # "none" =>
        IF record = NoThread THEN turn[n].thread = Configured
        ELSE turn[n].thread = record

\* A completion is not lost, also when it comes before the answer to
\* turn/start or to a proxied tool call: it stays to be read.
CompletionIsKept ==
    \A n \in Process :
        client = n /\ turn[n].state = "completed" /\ pc \in {"turnStart", "turn", "tool"} =>
            \E i \in DOMAIN Unread : Unread[i].kind = "completed"

\* The adapter launches no app-server that lacks a method it sends or waits
\* for: prepare looks for each of them.
AcceptedSchemaSuffices ==
    launched > 0 => config.lacks \cap (Sent \cup Understood) = {}

\* Nor one that lacks a field it writes.
WrittenFieldsAreChecked ==
    launched > 0 => config.lacks \cap Written = {}

\* Between two looks at the inbox at most one turn is begun: a start that is
\* tried again has not begun a turn before.
OneTurnPerWake == issued <= 1

\* The observer resumes only after the app-server and its psst-mcp are gone.
ObserverResumesAfterReap ==
    pc = "observe" => \A n \in Process : proc[n] # "up" /\ mcp[n] # "up"

\* What holds of the Codex harness at every moment.
CodexInvariant ==
    /\ ObserverYields /\ AcknowledgedWasShown /\ TurnsAreOwned /\ ShutdownLeavesNothing
    /\ OneDurableThread /\ CompletionIsKept /\ AcceptedSchemaSuffices
=============================================================================
