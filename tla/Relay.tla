------------------------------- MODULE Relay -------------------------------
(***************************************************************************)
(* The relay process of psst-relay: HTTP handlers (tokio tasks), the one   *)
(* SQLite worker thread behind a bounded channel, the registry that wakes  *)
(* long polls, and the shutdown sequence of serve().                       *)
(*                                                                         *)
(* A Request is one HTTP request.  What a command does to the database is  *)
(* the subject of module Store; here a committed send is the request that  *)
(* made it, and an acknowledgement stands for every other command that is  *)
(* answered without a notification (join, heartbeat, leave, ...).          *)
(***************************************************************************)
EXTENDS Integers, Sequences, FiniteSets

CONSTANTS Request,        \* HTTP requests
          Member,         \* memberships that own a mailbox
          QueueCapacity,  \* capacity of the worker's sync_channel
          MaxInFlight,    \* permits of the admission semaphore
          MaxWaiters,     \* MAX_INBOX_WAITERS
          NoRequest       \* the worker holds no command

ASSUME RequestAssumption == IsFiniteSet(Request) /\ NoRequest \notin Request
ASSUME LimitAssumption ==
  {QueueCapacity, MaxInFlight, MaxWaiters} \subseteq Nat \ {0}

VARIABLES
  kind,           \* which endpoint a request calls
  to,             \* the mailbox it sends to, reads or acknowledges in
  stage,          \* where its handler is
  answer,         \* what the client was told
  reply,          \* the oneshot channel of the handler's latest command
  seen,           \* the generation its watch receiver has seen
  subscriptions,  \* requests that hold a NotificationSubscription
  entries,        \* NotificationRegistry.entries
  queue,          \* commands in the channel, by the request that made them
  worker,         \* where the worker thread is
  current,        \* the command it holds
  result,         \* the outcome it is about to send
  committed,      \* sends whose transaction committed
  acknowledged,   \* those acknowledged since
  accepting, shutdown, sender,  \* the three fields begin_shutdown changes
  signal,         \* the process's shutdown watch channel
  serve           \* where serve() is

handlerVars == <<kind, to, stage, answer, reply, seen>>
registryVars == <<subscriptions, entries>>
workerVars == <<worker, current, result>>
storeVars == <<committed, acknowledged>>
serveVars == <<accepting, shutdown, sender, signal, serve>>
vars == <<handlerVars, registryVars, queue, workerVars, storeVars, serveVars>>

Kind == {"Send", "Acknowledge", "Inbox", "LongPoll"}
\* Load and TrySend are the two halves of StoreWorker::try_send: reading
\* `accepting`, and sending under the sender's mutex.
Stage == {"Idle", "Admission", "Load", "TrySend", "Await", "Subscribe",
          "Sleep", "Answered"}
Outcome == {"Done", "Mail", "NoMail", "Refused"}
Failure == {"RateLimited", "Unavailable", "Timeout", "Deadline", "ShuttingDown"}
WorkerStage == {"Recv", "Check", "Execute", "Notify", "Reply", "Drain",
                "Checkpoint", "Stopped", "Failed"}
ServeStage == {"Serving", "Flagging", "Taking", "Draining",
               "Joining", "Stopped", "Failed", "TimedOut"}

Commands == {queue[i] : i \in 1..Len(queue)}
Subscribers(m) == {r \in subscriptions : to[r] = m}
Pending(m) == {r \in committed \ acknowledged : to[r] = m}

InFlight(r) == stage[r] \notin {"Idle", "Admission", "Answered"}

\* A key that is not in the map: the first subscriber inserts this entry.
NoEntry == [generation |-> 0, registrations |-> 0]

Init ==
  /\ kind \in [Request -> Kind]
  /\ to \in [Request -> Member]
  /\ stage = [r \in Request |-> "Idle"]
  /\ answer = [r \in Request |-> "None"]
  /\ reply = [r \in Request |-> "Open"]
  /\ seen = [r \in Request |-> 0]
  /\ subscriptions = {}
  /\ entries = [m \in Member |-> NoEntry]
  /\ queue = <<>>
  /\ worker = "Recv"
  /\ current = NoRequest
  /\ result = "Done"
  /\ committed = {}
  /\ acknowledged = {}
  /\ accepting = TRUE
  /\ shutdown = FALSE
  /\ sender = TRUE
  /\ signal = FALSE
  /\ serve = "Serving"

-----------------------------------------------------------------------------
(* NotificationRegistry *)

Registered(m) ==
  [entries EXCEPT ![m] = [generation |-> @.generation,
                          registrations |-> @.registrations + 1]]

\* Dropping a subscription; the entry goes with its last registration.
Unregistered(m) ==
  [entries EXCEPT ![m] = IF @.registrations = 1 THEN NoEntry
                         ELSE [generation |-> @.generation,
                               registrations |-> @.registrations - 1]]

\* notify() finds no entry when nobody waits.
Notified(m) ==
  [entries EXCEPT ![m] = IF @.registrations = 0 THEN @
                         ELSE [generation |-> @.generation + 1,
                               registrations |-> @.registrations]]

-----------------------------------------------------------------------------
(* HTTP handlers *)

\* The handler returns (or its future is dropped): its locals go with it.
Finish(r, a) ==
  /\ stage' = [stage EXCEPT ![r] = "Answered"]
  /\ answer' = [answer EXCEPT ![r] = a]
  /\ subscriptions' = subscriptions \ {r}
  /\ entries' = IF r \in subscriptions THEN Unregistered(to[r]) ELSE entries

Proceed(r, s) ==
  /\ stage' = [stage EXCEPT ![r] = s]
  /\ UNCHANGED <<answer, registryVars>>

\* Requests can still arrive on open connections until HTTP has drained.
Arrive(r) ==
  /\ stage[r] = "Idle"
  /\ serve \notin {"Joining", "Stopped", "Failed", "TimedOut"}
  /\ Proceed(r, "Admission")
  /\ UNCHANGED <<kind, to, reply, seen, queue, workerVars, storeVars, serveVars>>

Admit(r) ==
  /\ stage[r] = "Admission"
  /\ Cardinality({q \in Request : InFlight(q)}) < MaxInFlight
  /\ Proceed(r, "Load")
  /\ UNCHANGED <<kind, to, reply, seen, queue, workerVars, storeVars, serveVars>>

\* try_send, first half.
LoadAccepting(r) ==
  /\ stage[r] = "Load"
  /\ IF accepting THEN Proceed(r, "TrySend") ELSE Finish(r, "Unavailable")
  /\ UNCHANGED <<kind, to, reply, seen, queue, workerVars, storeVars, serveVars>>

\* The receiver lives in the worker's closure until the thread ends.
Connected == sender /\ worker \notin {"Stopped", "Failed"}

\* try_send, second half, and the start of dispatch's wait for the reply.
TrySend(r) ==
  /\ stage[r] = "TrySend"
  /\ \/ /\ ~Connected
        /\ Finish(r, "Unavailable")
        /\ UNCHANGED <<queue, reply>>
     \/ /\ Connected
        /\ Len(queue) >= QueueCapacity
        /\ Finish(r, "RateLimited")
        /\ UNCHANGED <<queue, reply>>
     \/ /\ Connected
        /\ Len(queue) < QueueCapacity
        /\ Proceed(r, "Await")
        /\ queue' = Append(queue, r)
        /\ reply' = [reply EXCEPT ![r] = "Open"]
  /\ UNCHANGED <<kind, to, seen, workerVars, storeVars, serveVars>>

\* dispatch returns.  An empty page sends a long poll on: to subscribe after
\* the first query, to sleep after any later one.
ReceiveReply(r) ==
  /\ stage[r] = "Await"
  /\ reply[r] # "Open"
  /\ CASE reply[r] = "Dropped" -> Finish(r, "Unavailable")
       [] reply[r] = "NoMail" /\ kind[r] = "LongPoll" ->
            Proceed(r, IF r \in subscriptions THEN "Sleep" ELSE "Subscribe")
       [] OTHER -> Finish(r, reply[r])
  /\ UNCHANGED <<kind, to, reply, seen, queue, workerVars, storeVars, serveVars>>

\* Faulty: sleeps at once, trusting the query made before it registered.
SubscribeAndSleep(r) ==
  /\ stage[r] = "Subscribe"
  /\ stage' = [stage EXCEPT ![r] = "Sleep"]
  /\ subscriptions' = subscriptions \cup {r}
  /\ entries' = Registered(to[r])
  /\ seen' = [seen EXCEPT ![r] = entries[to[r]].generation]
  /\ UNCHANGED <<answer, kind, to, reply, queue, workerVars, storeVars, serveVars>>

\* A new watch receiver has seen the current generation.  The handler then
\* queries once more.
Subscribe(r) ==
  /\ stage[r] = "Subscribe"
  /\ \/ /\ Cardinality(subscriptions) >= MaxWaiters
        /\ Finish(r, "RateLimited")
        /\ UNCHANGED seen
     \/ /\ Cardinality(subscriptions) < MaxWaiters
        /\ stage' = [stage EXCEPT ![r] = "Load"]
        /\ subscriptions' = subscriptions \cup {r}
        /\ entries' = Registered(to[r])
        /\ seen' = [seen EXCEPT ![r] = entries[to[r]].generation]
        /\ UNCHANGED answer
  /\ UNCHANGED <<kind, to, reply, queue, workerVars, storeVars, serveVars>>

\* The biased select of inbox(): shutdown, then the deadline, then changed().
Changed(r) ==
  /\ stage[r] = "Sleep"
  /\ ~signal
  /\ seen[r] # entries[to[r]].generation
  /\ seen' = [seen EXCEPT ![r] = entries[to[r]].generation]
  /\ Proceed(r, "Load")
  /\ UNCHANGED <<kind, to, reply, queue, workerVars, storeVars, serveVars>>

WaitElapsed(r) ==
  /\ stage[r] = "Sleep"
  /\ ~signal
  /\ Finish(r, "NoMail")
  /\ UNCHANGED <<kind, to, reply, seen, queue, workerVars, storeVars, serveVars>>

\* Faulty: a sleeping long poll is left to its own deadline.
IgnoreShutdown(r) ==
  /\ stage[r] = "Sleep"
  /\ signal
  /\ FALSE
  /\ UNCHANGED vars

SawShutdown(r) ==
  /\ stage[r] = "Sleep"
  /\ signal
  /\ Finish(r, "ShuttingDown")
  /\ UNCHANGED <<kind, to, reply, seen, queue, workerVars, storeVars, serveVars>>

\* Faulty: a timeout is reported like a command that was never taken.
DispatchUnavailable(r) ==
  /\ stage[r] = "Await"
  /\ Finish(r, "Unavailable")
  /\ UNCHANGED <<kind, to, reply, seen, queue, workerVars, storeVars, serveVars>>

\* dispatch gives up; the command stays in the channel.
DispatchTimeout(r) ==
  /\ stage[r] = "Await"
  /\ Finish(r, "Timeout")
  /\ UNCHANGED <<kind, to, reply, seen, queue, workerVars, storeVars, serveVars>>

\* request_deadline, or a client that hangs up, drops the handler at an await.
RequestDeadline(r) ==
  /\ stage[r] \in {"Admission", "Await", "Sleep"}
  /\ Finish(r, "Deadline")
  /\ UNCHANGED <<kind, to, reply, seen, queue, workerVars, storeVars, serveVars>>

-----------------------------------------------------------------------------
(* The psst-sqlite thread *)

\* recv fails once the sender is gone and the channel is empty.
Recv ==
  /\ worker = "Recv"
  /\ \/ /\ queue # <<>>
        /\ current' = Head(queue)
        /\ queue' = Tail(queue)
        /\ worker' = "Check"
     \/ /\ queue = <<>>
        /\ ~sender
        /\ worker' = "Checkpoint"
        /\ UNCHANGED <<current, queue>>
  /\ UNCHANGED <<handlerVars, registryVars, result, storeVars, serveVars>>

\* cancel() drops the command and with it the sending half of its reply.
Cancelled(dropped) ==
  [r \in Request |-> IF r \in dropped THEN "Dropped" ELSE reply[r]]

CheckShutdown ==
  /\ worker = "Check"
  /\ \/ /\ shutdown
        /\ worker' = "Drain"
        /\ reply' = Cancelled({current})
        /\ current' = NoRequest
     \/ /\ ~shutdown
        /\ worker' = "Execute"
        /\ UNCHANGED <<current, reply>>
  /\ UNCHANGED <<kind, to, stage, answer, seen, registryVars, queue, result,
                 storeVars, serveVars>>

\* try_iter: cancels what the channel holds, then stops at an empty channel.
Drain ==
  /\ worker = "Drain"
  /\ \/ /\ queue # <<>>
        /\ reply' = Cancelled({Head(queue)})
        /\ queue' = Tail(queue)
        /\ UNCHANGED worker
     \/ /\ queue = <<>>
        /\ worker' = "Checkpoint"
        /\ UNCHANGED <<queue, reply>>
  /\ UNCHANGED <<kind, to, stage, answer, seen, registryVars, current, result,
                 storeVars, serveVars>>

\* The transaction commits.  A replayed send returns the stored message and
\* is notified again; a refusal leaves the store as it was.
ExecuteSend ==
  /\ worker = "Execute"
  /\ kind[current] = "Send"
  /\ \/ committed' = committed \cup {current}
     \/ /\ \E q \in committed : to[q] = to[current]
        /\ UNCHANGED committed
  /\ result' = "Done"
  /\ worker' = "Notify"
  /\ UNCHANGED <<handlerVars, registryVars, queue, current, acknowledged, serveVars>>

ExecuteAcknowledge ==
  /\ worker = "Execute"
  /\ kind[current] = "Acknowledge"
  /\ \E ids \in SUBSET Pending(to[current]) :
       acknowledged' = acknowledged \cup ids
  /\ result' = "Done"
  /\ worker' = "Reply"
  /\ UNCHANGED <<handlerVars, registryVars, queue, current, committed, serveVars>>

ExecutePending ==
  /\ worker = "Execute"
  /\ kind[current] \in {"Inbox", "LongPoll"}
  /\ result' = IF Pending(to[current]) = {} THEN "NoMail" ELSE "Mail"
  /\ worker' = "Reply"
  /\ UNCHANGED <<handlerVars, registryVars, queue, current, storeVars, serveVars>>

ExecuteRefused ==
  /\ worker = "Execute"
  /\ result' = "Refused"
  /\ worker' = "Reply"
  /\ UNCHANGED <<handlerVars, registryVars, queue, current, storeVars, serveVars>>

Notify ==
  /\ worker = "Notify"
  /\ entries' = Notified(to[current])
  /\ worker' = "Reply"
  /\ UNCHANGED <<handlerVars, subscriptions, queue, current, result,
                 storeVars, serveVars>>

\* The handler may be gone: its result is then dropped.
Reply ==
  /\ worker = "Reply"
  /\ reply' = [reply EXCEPT ![current] = result]
  /\ worker' = "Recv"
  /\ current' = NoRequest
  /\ UNCHANGED <<kind, to, stage, answer, seen, registryVars, queue, result,
                 storeVars, serveVars>>

\* The closure ends and the receiver is dropped, with every command that was
\* sent after the drain.
Checkpoint ==
  /\ worker = "Checkpoint"
  /\ worker' \in {"Stopped", "Failed"}
  /\ reply' = Cancelled(Commands)
  /\ queue' = <<>>
  /\ UNCHANGED <<kind, to, stage, answer, seen, registryVars, current, result,
                 storeVars, serveVars>>

-----------------------------------------------------------------------------
(* serve() *)

SignalShutdown ==
  /\ ~signal
  /\ signal' = TRUE
  /\ UNCHANGED <<handlerVars, registryVars, queue, workerVars, storeVars,
                 accepting, shutdown, sender, serve>>

ServeUnchanged ==
  UNCHANGED <<handlerVars, registryVars, queue, workerVars, storeVars, signal>>

\* begin_shutdown: two atomic stores, then the sender is taken under its mutex.
StopAccepting ==
  /\ serve = "Serving"
  /\ signal
  /\ accepting' = FALSE
  /\ serve' = "Flagging"
  /\ UNCHANGED <<shutdown, sender>>
  /\ ServeUnchanged

RaiseShutdown ==
  /\ serve = "Flagging"
  /\ shutdown' = TRUE
  /\ serve' = "Taking"
  /\ UNCHANGED <<accepting, sender>>
  /\ ServeUnchanged

TakeSender ==
  /\ serve = "Taking"
  /\ sender' = FALSE
  /\ serve' = "Draining"
  /\ UNCHANGED <<accepting, shutdown>>
  /\ ServeUnchanged

\* The server future resolves when no request is left.
HttpDrained ==
  /\ serve = "Draining"
  /\ \A r \in Request : stage[r] \in {"Idle", "Answered"}
  /\ serve' = "Joining"
  /\ UNCHANGED <<accepting, shutdown, sender>>
  /\ ServeUnchanged

JoinWorker ==
  /\ serve = "Joining"
  /\ worker \in {"Stopped", "Failed"}
  /\ serve' = worker
  /\ UNCHANGED <<accepting, shutdown, sender>>
  /\ ServeUnchanged

\* serve() returns ShutdownTimedOut; handlers and worker run on until the
\* process ends.
ShutdownTimedOut ==
  /\ serve \in {"Draining", "Joining"}
  /\ serve' = "TimedOut"
  /\ UNCHANGED <<accepting, shutdown, sender>>
  /\ ServeUnchanged

-----------------------------------------------------------------------------

HandlerStep(r) ==
  \/ Admit(r)
  \/ LoadAccepting(r)
  \/ TrySend(r)
  \/ ReceiveReply(r)
  \/ Subscribe(r)
  \/ Changed(r)
  \/ SawShutdown(r)

TimerStep(r) ==
  \/ WaitElapsed(r)
  \/ DispatchTimeout(r)
  \/ RequestDeadline(r)

WorkerStep ==
  \/ Recv
  \/ CheckShutdown
  \/ Drain
  \/ ExecuteSend
  \/ ExecuteAcknowledge
  \/ ExecutePending
  \/ ExecuteRefused
  \/ Notify
  \/ Reply
  \/ Checkpoint

ServeStep ==
  \/ StopAccepting
  \/ RaiseShutdown
  \/ TakeSender
  \/ HttpDrained
  \/ JoinWorker

Next ==
  \/ \E r \in Request : Arrive(r) \/ HandlerStep(r) \/ TimerStep(r)
  \/ WorkerStep
  \/ SignalShutdown
  \/ ServeStep
  \/ ShutdownTimedOut

Spec == Init /\ [][Next]_vars

\* Tasks that can run are run, the worker thread is scheduled and SQLite's
\* busy timeout bounds every operation.  Nothing is assumed of clients, of
\* the operator's signal or of any timer.
Fairness ==
  /\ \A r \in Request : WF_vars(HandlerStep(r))
  /\ WF_vars(WorkerStep)
  /\ WF_vars(ServeStep)

FairSpec == Spec /\ Fairness

-----------------------------------------------------------------------------
(* Properties *)

\* Types of the variables.
TypeOK ==
  /\ kind \in [Request -> Kind]
  /\ to \in [Request -> Member]
  /\ stage \in [Request -> Stage]
  /\ answer \in [Request -> {"None"} \cup Outcome \cup Failure]
  /\ reply \in [Request -> {"Open", "Dropped"} \cup Outcome]
  /\ seen \in [Request -> Nat]
  /\ subscriptions \in SUBSET Request
  /\ entries \in [Member -> [generation : Nat, registrations : Nat]]
  /\ queue \in Seq(Request)
  /\ worker \in WorkerStage
  /\ current \in Request \cup {NoRequest}
  /\ result \in Outcome
  /\ committed \in SUBSET Request
  /\ acknowledged \in SUBSET Request
  /\ {accepting, shutdown, sender, signal} \subseteq BOOLEAN
  /\ serve \in ServeStage

\* "Subsequent sends advance the watch generation, which cannot be lost": a
\* long poll asleep on a mailbox that holds mail has a change to see, or the
\* worker is between that mail's commit and its notification.
NoLostWakeup ==
  \A r \in Request :
    stage[r] = "Sleep" /\ Pending(to[r]) # {} =>
      \/ seen[r] # entries[to[r]].generation
      \/ worker = "Notify" /\ to[current] = to[r]

\* The registry counts exactly the subscriptions that are alive, whichever way
\* their handlers ended, so an entry is there while anyone waits on it (the
\* changed() error of inbox() cannot happen) and none is left behind.  Only a
\* handler still at work holds one.
RegistryMatchesWaiters ==
  /\ \A m \in Member :
       entries[m].registrations = Cardinality(Subscribers(m))
  /\ \A r \in subscriptions : InFlight(r) /\ kind[r] = "LongPoll"

\* A client told RateLimited, or told Unavailable because its command was
\* rejected or cancelled, sent nothing: the command neither ran nor will run,
\* even when it entered the channel while the relay was shutting down.
RefusalIsDefinite ==
  \A r \in Request :
    answer[r] \in {"RateLimited", "Unavailable", "Refused"} =>
      /\ r \notin committed
      /\ r \notin Commands
      /\ current # r

\* The channel never outgrows its capacity, and a request never has two
\* commands on their way: a long poll asks again only after the worker let go
\* of its previous query, so no reply can be taken for a later one's.
OneCommandPerRequest ==
  /\ Len(queue) <= QueueCapacity
  /\ \A i, j \in 1..Len(queue) : queue[i] = queue[j] => i = j
  /\ current \notin Commands

\* The worker holds a command exactly between taking it and answering it.
Busy == worker \in {"Check", "Execute", "Notify", "Reply"}
Held == IF Busy THEN {current} ELSE {}

\* Where a command on its way can be: its handler waits for it or has given up,
\* and nothing was put in its reply channel yet.
CommandPlacement ==
  /\ \A i, j \in 1..Len(queue) : queue[i] = queue[j] => i = j
  /\ current \in IF Busy THEN Request \ Commands ELSE {NoRequest}
  /\ \A r \in Commands \cup Held :
       stage[r] \in {"Await", "Answered"} /\ reply[r] = "Open"

\* Where a subscription can be, and that its receiver is never ahead.
SubscriptionPlacement ==
  /\ \A r \in subscriptions :
       /\ stage[r] \in {"Load", "TrySend", "Await", "Sleep"}
       /\ seen[r] <= entries[to[r]].generation
  /\ \A r \in Request :
       /\ stage[r] = "Sleep" => r \in subscriptions
       /\ stage[r] \in {"Subscribe", "Sleep"} \/ r \in subscriptions =>
            kind[r] = "LongPoll"

\* A subscribed long poll that has been, or is being, told of an empty inbox.
ToldEmpty(r) ==
  \/ stage[r] = "Sleep"
  \/ stage[r] = "Await" /\ reply[r] = "NoMail"
  \/ worker = "Reply" /\ current = r /\ result = "NoMail"

WakeupOnItsWay ==
  \A r \in subscriptions :
    ToldEmpty(r) /\ Pending(to[r]) # {} =>
      \/ seen[r] # entries[to[r]].generation
      \/ worker = "Notify" /\ to[current] = to[r]

\* A committed send is being answered, or was answered with its result.
CommitPlacement ==
  \A r \in committed :
    /\ kind[r] = "Send"
    /\ stage[r] \in {"Await", "Answered"}
    /\ reply[r] \in {"Open", "Done"}
    /\ r \notin Commands
    /\ current = r => worker \in {"Notify", "Reply"} /\ result = "Done"

\* How handlers, channel, worker and registry fit together at every moment:
\* what the wake-up and refusal guarantees rest on.  Each long-poll query,
\* reply and notification keeps it.
Protocol ==
  /\ CommandPlacement
  /\ SubscriptionPlacement
  /\ RegistryMatchesWaiters
  /\ WakeupOnItsWay
  /\ CommitPlacement
  /\ RefusalIsDefinite
  /\ \A r \in Request : answer[r] # "None" <=> stage[r] = "Answered"

\* A clean exit of serve() means that the worker checkpointed, nothing is left
\* in the channel and no handler is waiting for an answer.
CleanExit ==
  serve = "Stopped" =>
    /\ worker = "Stopped"
    /\ queue = <<>>
    /\ \A r \in Request : stage[r] \in {"Idle", "Answered"}

\* A long poll is woken by the mail it waits for, and the registry knows exactly
\* the polls that wait (notify_recipient, subscribe, WaiterGuard).
WaitersAreServed == NoLostWakeup /\ RegistryMatchesWaiters

\* "The worker completes at most its current operation, rejects queued work":
\* with the flag up and no operation under way, nothing commits any more.
NothingStartsAfterShutdown ==
  [][shutdown /\ worker # "Execute" =>
       worker' # "Execute" /\ UNCHANGED storeVars]_vars

\* Every command that enters the channel is answered, by its result or by the
\* loss of its reply channel, without help from a timer: also one sent between
\* the worker's drain and the taking of the sender.
EveryCommandAnswered ==
  \A r \in Request : stage[r] = "Await" ~> stage[r] # "Await"

\* Once signalled, serve() returns.  No timer is needed for it: sleeping long
\* polls may have 30 s to go where the shutdown has 10.
ShutdownCompletes ==
  signal ~> serve \in {"Stopped", "Failed", "TimedOut"}

\* Every command is answered and every shutdown ends (dispatch, serve).
RelaySettles == EveryCommandAnswered /\ ShutdownCompletes
=============================================================================
