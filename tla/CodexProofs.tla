---------------------------- MODULE CodexProofs ----------------------------
(***************************************************************************)
(* The Codex harness, for any mail, any number of app-server processes and *)
(* any number of attempts: turns and the observer never run beside each    *)
(* other, a turn acknowledges only what it was shown, all turns are in one *)
(* thread, and no completion is lost.                                      *)
(*                                                                         *)
(* The argument rests on who can own a live app-server: it is always the   *)
(* one that was launched last, and either the start that launched it is    *)
(* still under way or the host has it as its client.  The observer has     *)
(* given the profile up before that, and takes it again after the client   *)
(* was reaped.                                                             *)
(***************************************************************************)
EXTENDS Codex, SequenceTheorems, TLAPS

-----------------------------------------------------------------------------
(* The inductive invariant. *)

\* Where the engine waits for a launch, and where for a turn.
Launching == {"initialize", "thread"}
Busy == {"turnStart", "turn", "tool"}

\* Where the observer has given the profile up.
Yielded == {"start", "backoff"} \cup Launching \cup Busy

Item == [kind : {"receive", "acknowledge", "completed", "failed"}, ids : SUBSET Message]
TurnRecord == [thread : Int, state : {"none", "running", "completed", "failed"}]
Policy == [kind : {"Resume", "Create"}, thread : Int]

\* Variables are well formed, as far as the other conjuncts need it.
Fits ==
    /\ launched \in 0..MaxLaunch /\ client \in 0..MaxLaunch
    /\ proc \in [Process -> {"none", "up", "gone"}]
    /\ turn \in [Process -> TurnRecord]
    /\ shown \in [Process -> SUBSET Message]
    /\ config \in [policy : Policy, lacks : SUBSET Lacking] /\ record \in Int
    /\ mail \subseteq Message /\ arrived \subseteq Message
    /\ wire \in Seq(Item) /\ backlog \in Seq(Item)

\* A live app-server is the last one launched, and somebody answers for it.
Owned ==
    /\ client # 0 => client = launched /\ pc \in Busy \cup {"cancelled"}
    /\ pc \in Busy => client # 0
    /\ pc \in Launching => launched # 0 /\ client = 0
    /\ \A n \in Process : proc[n] = "up" => n = launched /\ (pc \in Launching \/ client = n)
    /\ \A n \in Process : proc[n] = "up" /\ turn[n].state # "none" => client = n
    /\ \A n \in Process : n > launched => turn[n].state = "none"

\* The observer's session.
Yields ==
    /\ slot \in {"none", "open"}
    /\ pc \in Yielded => slot = "none"
    /\ slot = "open" => client = 0
    /\ slot = "none" => holder # Observer
    /\ pc = "stopped" => slot = "none" /\ client = 0

\* Whatever thread has been used is the one that is configured or recorded.
Threads ==
    /\ config.policy.kind = "Create" =>
         record = NoThread /\ client = 0 /\ \A n \in Process : turn[n].state = "none"
    /\ config.policy.kind = "Resume" =>
         config.policy.thread = IF record = NoThread THEN Configured ELSE record
    /\ OneDurableThread

AllShown == UNION {shown[n] : n \in Process}

\* What may be acknowledged has been shown to the turn that does.
Retrievals ==
    /\ arrived \ mail \subseteq AllShown
    /\ client # 0 => retrieved \subseteq shown[client]
    /\ pc = "tool" => client # 0 /\ call.ids \subseteq retrieved

\* One of the two queues has a completion.
HasCompletion(queue) == \E i \in 1..Len(queue) : queue[i].kind = "completed"
Kept ==
    client # 0 /\ pc \in Busy /\ turn[client].state = "completed" =>
        HasCompletion(backlog) \/ HasCompletion(wire)

Accepts == Prepared(config.lacks)

Sound == Fits /\ Owned /\ Yields /\ Threads /\ Retrievals /\ Kept /\ Accepts

-----------------------------------------------------------------------------
(* Queues. *)

\* Appending keeps a completion, and a completion appended is there.
LEMMA Appended ==
    ASSUME NEW q \in Seq(Item), NEW item \in Item
    PROVE  /\ Append(q, item) \in Seq(Item)
           /\ HasCompletion(q) => HasCompletion(Append(q, item))
           /\ item.kind = "completed" => HasCompletion(Append(q, item))
<1>1. /\ Append(q, item) \in Seq(Item) /\ Len(Append(q, item)) = Len(q) + 1 /\ Len(q) \in Nat
      /\ \A i \in 1..Len(q) : Append(q, item)[i] = q[i]
      /\ Append(q, item)[Len(q) + 1] = item
  OBVIOUS
<1> QED BY <1>1 DEF HasCompletion

\* Joining two queues loses nothing.
LEMMA Joined ==
    ASSUME NEW q \in Seq(Item), NEW r \in Seq(Item)
    PROVE  /\ q \o r \in Seq(Item)
           /\ HasCompletion(q \o r) <=> HasCompletion(q) \/ HasCompletion(r)
<1>1. /\ q \o r \in Seq(Item) /\ Len(q \o r) = Len(q) + Len(r) /\ Len(q) \in Nat /\ Len(r) \in Nat
      /\ \A i \in 1..Len(q) + Len(r) : (q \o r)[i] = IF i <= Len(q) THEN q[i] ELSE r[i - Len(q)]
  OBVIOUS
<1>2. HasCompletion(q) => HasCompletion(q \o r)
  BY <1>1 DEF HasCompletion
<1>3. HasCompletion(r) => HasCompletion(q \o r)
  <2> SUFFICES ASSUME NEW i \in 1..Len(r), r[i].kind = "completed" PROVE HasCompletion(q \o r)
    BY DEF HasCompletion
  <2>1. Len(q) + i \in 1..Len(q) + Len(r) /\ (q \o r)[Len(q) + i] = r[i]
    BY <1>1
  <2> QED BY <1>1, <2>1 DEF HasCompletion
<1>4. HasCompletion(q \o r) => HasCompletion(q) \/ HasCompletion(r)
  <2> SUFFICES ASSUME NEW i \in 1..Len(q) + Len(r), (q \o r)[i].kind = "completed"
               PROVE  HasCompletion(q) \/ HasCompletion(r)
    BY <1>1 DEF HasCompletion
  <2>1. CASE i <= Len(q)
    BY <1>1, <2>1 DEF HasCompletion
  <2>2. CASE ~(i <= Len(q))
    <3>1. i - Len(q) \in 1..Len(r) /\ r[i - Len(q)].kind = "completed"
      BY <1>1, <2>2
    <3> QED BY <3>1 DEF HasCompletion
  <2> QED BY <2>1, <2>2
<1> QED BY <1>1, <1>2, <1>3, <1>4

\* Taking something else from the front loses none either.
LEMMA TakenFromFront ==
    ASSUME NEW q \in Seq(Item), q # << >>
    PROVE  /\ Tail(q) \in Seq(Item)
           /\ HasCompletion(q) /\ Head(q).kind # "completed" => HasCompletion(Tail(q))
<1>1. /\ Tail(q) \in Seq(Item) /\ Len(Tail(q)) = Len(q) - 1 /\ Len(q) \in Nat \ {0}
      /\ \A i \in 1..Len(q) - 1 : Tail(q)[i] = q[i + 1]
      /\ Head(q) = q[1]
  OBVIOUS
<1>2. ASSUME NEW i \in 1..Len(q), q[i].kind = "completed", Head(q).kind # "completed"
      PROVE  HasCompletion(Tail(q))
  <2>1. i # 1
    BY <1>1, <1>2
  <2>2. i - 1 \in 1..Len(Tail(q)) /\ Tail(q)[i - 1] = q[i]
    BY <1>1, <2>1
  <2> QED BY <1>2, <2>2 DEF HasCompletion
<1> QED BY <1>1, <1>2 DEF HasCompletion

\* The host reads the backlog first, then the wire.
LEMMA Consumed ==
    ASSUME Fits, Consume, Unread # << >>
    PROVE  /\ wire' \in Seq(Item) /\ backlog' \in Seq(Item)
           /\ Head(Unread) \in Item
           /\ Head(Unread).kind # "completed" /\ (HasCompletion(backlog) \/ HasCompletion(wire))
                => HasCompletion(backlog') \/ HasCompletion(wire')
<1>1. wire \in Seq(Item) /\ backlog \in Seq(Item)
  BY DEF Fits
<1>2. CASE backlog # << >>
  <2>1. Head(Unread) = Head(backlog) /\ Head(backlog) \in Item
    BY <1>1, <1>2 DEF Unread
  <2>2. backlog' = Tail(backlog) /\ wire' = wire
    BY <1>2 DEF Consume
  <2> QED BY <1>1, <1>2, <2>1, <2>2, TakenFromFront
<1>3. CASE backlog = << >>
  <2>1. Unread = wire /\ wire # << >>
    BY <1>1, <1>3 DEF Unread
  <2>2. wire' = Tail(wire) /\ backlog' = backlog
    BY <1>3 DEF Consume
  <2>3. ~HasCompletion(backlog) /\ Head(wire) \in Item
    BY <1>1, <1>3, <2>1 DEF HasCompletion
  <2> QED BY <1>1, <2>1, <2>2, <2>3, TakenFromFront
<1> QED BY <1>2, <1>3

-----------------------------------------------------------------------------
(* Kinds of steps. *)

\* While the host has no client and launches none, no app-server is alive.
LEMMA NoneAlive ==
    ASSUME Owned, Fits, client = 0, pc \notin Launching
    PROVE  \A n \in Process : proc[n] # "up"
BY DEF Owned, Fits, Process

\* What the turn under way has retrieved is among what was shown.
LEMMA TurnWasShown ==
    ASSUME Retrievals, Fits, client # 0
    PROVE  client \in Process /\ retrieved \subseteq AllShown
BY DEF Retrievals, Fits, AllShown, Process

\* The surroundings take and release the profile.
LEMMA OthersMove ==
    ASSUME Sound, UNCHANGED <<mailbox, slot, pc, host, proc, turn, protocol, shown>>,
           holder' = holder \/ holder' # Observer
    PROVE  Sound'
<1>1. Fits' /\ Accepts'
  BY DEF Sound, Fits, Accepts, mailbox, host, protocol
<1>2. Owned'
  BY DEF Sound, Owned, host
<1>3. Yields'
  BY DEF Sound, Yields, host
<1>4. Threads'
  BY DEF Sound, Threads, OneDurableThread, host
<1>5. Retrievals'
  BY DEF Sound, Retrievals, AllShown, mailbox, host, protocol
<1>6. Kept'
  BY DEF Sound, Kept, HasCompletion, host, protocol
<1> QED BY <1>1, <1>2, <1>3, <1>4, <1>5, <1>6 DEF Sound

\* The observer and the engine move while no app-server is alive.
LEMMA ObserverMoves ==
    ASSUME Sound, UNCHANGED <<mailbox, host, processes, protocol, shown>>,
           pc \notin Busy \cup Launching \cup {"cancelled"},
           pc' \notin Busy \cup Launching \cup {"stopped"},
           Yields'
    PROVE  Sound'
<1>1. Fits' /\ Accepts'
  BY DEF Sound, Fits, Accepts, mailbox, host, processes, protocol
<1>2. client = 0
  BY DEF Sound, Owned
<1>3. Owned'
  <2>1. \A n \in Process : proc[n] # "up"
    BY <1>2, NoneAlive DEF Sound
  <2> QED BY <1>2, <2>1 DEF Sound, Owned, host, processes
<1>4. Threads'
  BY DEF Sound, Threads, OneDurableThread, host, processes
<1>5. Retrievals'
  BY <1>2 DEF Sound, Retrievals, AllShown, mailbox, host, protocol, Busy
<1>6. Kept'
  BY <1>2 DEF Kept, host
<1> QED BY <1>1, <1>3, <1>4, <1>5, <1>6 DEF Sound

\* A launch fails: its process is killed.
LEMMA LaunchIsOver ==
    ASSUME Sound, UNCHANGED <<mailbox, holder, slot, host, turn, protocol, shown>>,
           pc \in Launching, pc' \in {"backoff", "blocked", "cancelled"},
           proc' = [proc EXCEPT ![launched] = "gone"]
    PROVE  Sound'
<1>1. Fits' /\ Accepts'
  BY DEF Sound, Fits, Accepts, mailbox, host, protocol
<1>2. client = 0 /\ client' = 0 /\ launched \in Process
  BY DEF Sound, Owned, Fits, Process, host
<1>3. \A n \in Process : proc'[n] # "up"
  BY <1>2 DEF Sound, Fits, Owned
<1>4. Owned'
  BY <1>2, <1>3 DEF Sound, Owned, host, Busy, Launching
<1>5. Yields'
  BY <1>2 DEF Sound, Yields, Yielded, Launching, Busy
<1>6. Threads'
  BY DEF Sound, Threads, OneDurableThread, host
<1>7. Retrievals'
  BY <1>2 DEF Sound, Retrievals, AllShown, mailbox, protocol
<1>8. Kept'
  BY <1>2 DEF Kept
<1> QED BY <1>1, <1>4, <1>5, <1>6, <1>7, <1>8 DEF Sound

\* A turn is over for the host: its process is reaped.
LEMMA TurnIsOver ==
    ASSUME CodexAssumption, Sound, Reap, pc \in Busy \cup {"cancelled"}, client # 0,
           pc' \in {"observe", "blocked", "backoff", "stopped"},
           UNCHANGED <<config, record, launched, arrived, holder, slot, turn, retrieved, shown>>,
           mail' \subseteq mail, mail \subseteq mail' \cup AllShown,
           wire' \in Seq(Item), backlog' \in Seq(Item)
    PROVE  Sound'
<1>1. Fits' /\ Accepts'
  <2>1. proc' \in [Process -> {"none", "up", "gone"}]
    BY DEF Sound, Fits, Reap
  <2>2. client' \in 0..MaxLaunch
    BY DEF CodexAssumption, Reap
  <2>3. mail' \subseteq Message
    BY DEF Sound, Fits
  <2> QED BY <2>1, <2>2, <2>3, Zenon DEF Sound, Fits, Accepts
<1>2. client = launched /\ client' = 0 /\ launched \in Process
  BY DEF Sound, Owned, Fits, Process, Reap
<1>3. \A n \in Process : proc'[n] # "up"
  BY <1>2 DEF Sound, Fits, Owned, Reap
<1>4. Owned'
  BY <1>2, <1>3 DEF Sound, Owned, Busy, Launching
<1>5. Yields'
  BY <1>2 DEF Sound, Yields
<1>6. Threads'
  BY <1>2 DEF Sound, Threads, OneDurableThread
<1>7. Retrievals'
  BY <1>2 DEF Sound, Retrievals, AllShown
<1>8. Kept'
  BY <1>2 DEF Kept
<1> QED BY <1>1, <1>4, <1>5, <1>6, <1>7, <1>8 DEF Sound

\* A turn goes on.
LEMMA TurnGoesOn ==
    ASSUME Sound, pc \in Busy, pc' \in Busy,
           UNCHANGED <<host, proc, turn, holder, slot>>,
           Fits', Retrievals',
           HasCompletion(backlog) \/ HasCompletion(wire)
               => HasCompletion(backlog') \/ HasCompletion(wire')
    PROVE  Sound'
<1>1. Accepts'
  BY DEF Sound, Accepts, host
<1>2. Owned'
  BY DEF Sound, Owned, host, Busy, Launching
<1>3. Yields'
  BY DEF Sound, Yields, Yielded, Busy, host
<1>4. Threads'
  BY DEF Sound, Threads, OneDurableThread, host
<1>5. Kept'
  BY DEF Sound, Kept, HasCompletion, host
<1> QED BY <1>1, <1>2, <1>3, <1>4, <1>5 DEF Sound

-----------------------------------------------------------------------------
(* The steps. *)

\* Mail arrives.
LEMMA ArriveKeeps ==
    ASSUME Sound, NEW m \in Message, Arrive(m)
    PROVE  Sound'
<1>1. Fits' /\ Accepts'
  BY DEF Sound, Fits, Accepts, Arrive, host, processes, protocol
<1>2. Owned'
  BY DEF Sound, Owned, Arrive, host, processes, engine
<1>3. Yields'
  BY DEF Sound, Yields, Arrive, host, engine
<1>4. Threads'
  BY DEF Sound, Threads, OneDurableThread, Arrive, host, processes
<1>5. Retrievals'
  BY DEF Sound, Retrievals, AllShown, Arrive, host, protocol, engine
<1>6. Kept'
  BY DEF Sound, Kept, HasCompletion, Arrive, host, processes, protocol, engine
<1> QED BY <1>1, <1>2, <1>3, <1>4, <1>5, <1>6 DEF Sound

\* Others use the profile.
LEMMA OthersKeep ==
    ASSUME Sound,
           OtherTakes \/ OtherReleases \/ \E n \in Process : ChildTakes(n) \/ ChildExits(n)
    PROVE  Sound'
<1>1. UNCHANGED <<mailbox, slot, pc, host, proc, turn, protocol, shown>>
  BY DEF OtherTakes, OtherReleases, ChildTakes, ChildExits, engine, processes
<1>2. holder' = holder \/ holder' # Observer
  BY DEF OtherTakes, OtherReleases, ChildTakes, ChildExits, Process, Nobody, Other, Observer
<1> QED BY <1>1, <1>2, OthersMove

\* The app-server ends by itself.
LEMMA ServerExitsKeeps ==
    ASSUME Sound, NEW n \in Process, ServerExits(n)
    PROVE  Sound'
<1>1. Fits' /\ Accepts'
  BY DEF Sound, Fits, Accepts, ServerExits, mailbox, host, protocol
<1>2. Owned'
  <2>1. \A k \in Process : proc'[k] = "up" => proc[k] = "up"
    BY DEF Sound, Fits, ServerExits
  <2> QED BY <2>1 DEF Sound, Owned, ServerExits, host, engine
<1>3. Yields'
  BY DEF Sound, Yields, ServerExits, host, engine
<1>4. Threads'
  BY DEF Sound, Threads, OneDurableThread, ServerExits, host
<1>5. Retrievals'
  BY DEF Sound, Retrievals, AllShown, ServerExits, host, mailbox, protocol, engine
<1>6. Kept'
  BY DEF Sound, Kept, HasCompletion, ServerExits, host, protocol, engine
<1> QED BY <1>1, <1>2, <1>3, <1>4, <1>5, <1>6 DEF Sound

\* The app-server calls a tool.
LEMMA ServerCallsKeeps ==
    ASSUME Sound, NEW n \in Process, NEW kind \in {"receive", "acknowledge"},
           NEW ids \in SUBSET arrived, ServerCalls(n, kind, ids)
    PROVE  Sound'
<1>1. [kind |-> kind, ids |-> ids] \in Item /\ wire \in Seq(Item)
  <2>1. ids \in SUBSET Message /\ wire \in Seq(Item)
    BY DEF Sound, Fits
  <2> QED BY <2>1 DEF Item
<1>2. wire' \in Seq(Item) /\ (HasCompletion(wire) => HasCompletion(wire'))
  BY <1>1, Appended DEF ServerCalls
<1>3. Fits' /\ Accepts'
  BY <1>2 DEF Sound, Fits, Accepts, ServerCalls, mailbox, host, processes
<1>4. Owned'
  BY DEF Sound, Owned, ServerCalls, host, processes, engine
<1>5. Yields'
  BY DEF Sound, Yields, ServerCalls, host, engine
<1>6. Threads'
  BY DEF Sound, Threads, OneDurableThread, ServerCalls, host, processes
<1>7. Retrievals'
  BY DEF Sound, Retrievals, AllShown, ServerCalls, host, mailbox, engine
<1>8. Kept'
  <2>1. UNCHANGED <<client, pc, turn, backlog>>
    BY DEF ServerCalls, host, engine, processes
  <2>2. HasCompletion(backlog) => HasCompletion(backlog')
    BY <2>1
  <2> QED BY <1>2, <2>1, <2>2 DEF Sound, Kept
<1> QED BY <1>3, <1>4, <1>5, <1>6, <1>7, <1>8 DEF Sound

\* The app-server ends the turn and says so.
LEMMA ServerCompletesKeeps ==
    ASSUME Sound, NEW n \in Process, NEW status \in {"completed", "failed"},
           ServerCompletes(n, status)
    PROVE  Sound'
<1>1. [kind |-> status, ids |-> {}] \in Item /\ wire \in Seq(Item)
  <2>1. wire \in Seq(Item)
    BY DEF Sound, Fits
  <2> QED BY <2>1 DEF Item
<1>2. /\ wire' \in Seq(Item)
      /\ status = "completed" => HasCompletion(wire')
  BY <1>1, Appended DEF ServerCompletes
<1>3. /\ turn' \in [Process -> TurnRecord]
      /\ \A k \in Process \ {n} : turn'[k] = turn[k]
      /\ turn'[n].thread = turn[n].thread /\ turn'[n].state = status
  <2>1. turn \in [Process -> TurnRecord]
    BY DEF Sound, Fits
  <2>2. turn' = [turn EXCEPT ![n].state = status]
    BY DEF ServerCompletes
  <2> QED BY <2>1, <2>2 DEF TurnRecord
<1>4. client = n /\ turn[n].state = "running" /\ UNCHANGED <<client, launched, config, record, pc, proc>>
  BY DEF ServerCompletes, host, engine
<1>5. Fits' /\ Accepts'
  BY <1>2, <1>3 DEF Sound, Fits, Accepts, ServerCompletes, mailbox, host
<1>6. Owned'
  BY <1>3, <1>4 DEF Sound, Owned, Fits, Process
<1>7. Yields'
  BY DEF Sound, Yields, ServerCompletes, host, engine
<1>8. Threads'
  BY <1>3, <1>4 DEF Sound, Threads, OneDurableThread
<1>9. Retrievals'
  BY DEF Sound, Retrievals, AllShown, ServerCompletes, host, mailbox, engine
<1>10. Kept'
  BY <1>2, <1>3, <1>4 DEF Kept
<1> QED BY <1>5, <1>6, <1>7, <1>8, <1>9, <1>10 DEF Sound

\* The app-server begins the turn.
LEMMA ServerBeginsKeeps ==
    ASSUME Sound, ServerBegins
    PROVE  Sound'
<1>1. client # 0 /\ client = launched /\ client \in Process
  BY DEF Sound, Owned, Fits, Process, ServerBegins, Busy
<1>2. /\ turn' \in [Process -> TurnRecord]
      /\ \A k \in Process \ {client} : turn'[k] = turn[k]
      /\ turn'[client].thread = config.policy.thread /\ turn'[client].state = "running"
  <2>1. turn \in [Process -> TurnRecord] /\ config.policy.thread \in Int
    BY DEF Sound, Fits, Policy
  <2>2. turn' = [turn EXCEPT ![client] = [thread |-> config.policy.thread, state |-> "running"]]
    BY DEF ServerBegins
  <2> QED BY <1>1, <2>1, <2>2 DEF TurnRecord
<1>3. UNCHANGED <<client, launched, config, record, pc, proc, wire, backlog>>
  BY DEF ServerBegins, host, engine, protocol
<1>4. Fits' /\ Accepts'
  BY <1>2 DEF Sound, Fits, Accepts, ServerBegins, mailbox, host, protocol
<1>5. Owned'
  <2>1. \A n \in Process : n > launched => n # client /\ turn[n].state = "none"
    BY <1>1 DEF Sound, Owned, Fits, Process
  <2>2. \A n \in Process : n > launched' => turn'[n].state = "none"
    BY <1>2, <1>3, <2>1
  <2>3. \A n \in Process : proc'[n] = "up" /\ turn'[n].state # "none" => client' = n
    BY <1>2, <1>3 DEF Sound, Owned
  <2> QED BY <1>3, <2>2, <2>3 DEF Sound, Owned
<1>6. Yields'
  BY DEF Sound, Yields, ServerBegins, host, engine
<1>7. Threads'
  <2>1. config.policy.kind = "Resume"
    BY <1>1 DEF Sound, Threads, Fits, Policy
  <2> QED BY <1>1, <1>2, <1>3, <2>1 DEF Sound, Threads, OneDurableThread
<1>8. Retrievals'
  BY DEF Sound, Retrievals, AllShown, ServerBegins, host, mailbox, protocol, engine
<1>9. Kept'
  BY <1>2, <1>3 DEF Kept
<1> QED BY <1>4, <1>5, <1>6, <1>7, <1>8, <1>9 DEF Sound

\* The observer opens its session, polls, pauses and gives the session up.
LEMMA SourceKeeps ==
    ASSUME Sound, Source \/ RetryDue
    PROVE  Sound'
<1>1. UNCHANGED <<mailbox, host, processes, protocol, shown>>
  BY DEF Source, EnsureRuntime, ObserveFails, ObserveAgain, InboxEmpty, Inbox, Release, RetryDue
<1>2. /\ pc \in {"observe", "pause", "release", "backoff"}
      /\ pc' \in {"observe", "pause", "release", "blocked", "start"}
  BY DEF Source, EnsureRuntime, ObserveFails, ObserveAgain, InboxEmpty, Inbox, Release, RetryDue,
         ObservationFails, engine
<1>3. Yields'
  <2>1. client = 0 /\ client' = 0
    BY <1>1, <1>2 DEF Sound, Owned, Busy, host
  <2>2. CASE EnsureRuntime
    BY <2>1, <2>2 DEF Sound, Yields, Yielded, Busy, Launching, EnsureRuntime, ObservationFails, engine
  <2>3. CASE \E kind \in {"Retryable", "Permanent"} : ObserveFails(kind)
    BY <2>1, <2>3 DEF Sound, Yields, Yielded, Busy, Launching, ObserveFails, ObservationFails
  <2>4. CASE ObserveAgain \/ InboxEmpty \/ Inbox
    BY <2>1, <2>4 DEF Sound, Yields, Yielded, Busy, Launching, ObserveAgain, InboxEmpty, Inbox
  <2>5. CASE Release
    BY <2>1, <2>5 DEF Sound, Yields, Yielded, Busy, Launching, Release, Nobody, Observer
  <2>6. CASE RetryDue
    BY <2>1, <2>6 DEF Sound, Yields, Yielded, RetryDue
  <2> QED BY <2>2, <2>3, <2>4, <2>5, <2>6 DEF Source
<1> QED BY <1>1, <1>2, <1>3, ObserverMoves DEF Busy, Launching

\* A process is spawned, or the spawn fails.
LEMMA LaunchKeeps ==
    ASSUME CodexAssumption, Sound, Launch
    PROVE  Sound'
<1>1. client = 0 /\ client' = 0 /\ slot = "none"
  BY DEF Sound, Owned, Yields, Yielded, Launch, Busy
<1>2. \A n \in Process : proc[n] # "up"
  BY <1>1, NoneAlive DEF Sound, Launch, Launching
<1>3. CASE UNCHANGED <<launched, proc>> /\ pc' \in {"backoff", "blocked"}
  <2>1. UNCHANGED <<mailbox, host, processes, protocol, shown>>
    BY <1>3 DEF Launch, host, processes
  <2>2. Yields'
    BY <1>1, <1>3 DEF Sound, Yields, Launch
  <2> QED BY <1>3, <2>1, <2>2, ObserverMoves DEF Launch, Busy, Launching
<1>4. CASE /\ launched < MaxLaunch /\ launched' = launched + 1
           /\ proc' = [proc EXCEPT ![launched + 1] = "up"] /\ pc' = "initialize"
  <2>1. launched \in 0..MaxLaunch /\ launched + 1 \in Process /\ launched' \in 0..MaxLaunch
    BY <1>4 DEF CodexAssumption, Sound, Fits, Process
  <2>2. /\ proc' \in [Process -> {"none", "up", "gone"}]
        /\ \A n \in Process : proc'[n] = "up" => n = launched'
    BY <1>2, <1>4, <2>1 DEF Sound, Fits
  <2>3. Fits' /\ Accepts'
    BY <2>1, <2>2 DEF Sound, Fits, Accepts, Launch, mailbox, protocol
  <2>4. Owned'
    <3>1. turn' = turn /\ \A n \in Process : n > launched' \/ n = launched' => turn[n].state = "none"
      BY <1>4, <2>1 DEF Sound, Owned, Launch, Process
    <3>2. launched' # 0
      BY <1>4, <2>1
    <3>3. \A n \in Process : proc'[n] = "up" => turn'[n].state = "none"
      BY <2>2, <3>1
    <3> QED BY <1>1, <1>4, <2>2, <3>1, <3>2, <3>3 DEF Owned, Launching, Busy
  <2>5. Yields'
    BY <1>1, <1>4 DEF Sound, Yields, Launch
  <2>6. Threads'
    BY <1>1 DEF Sound, Threads, OneDurableThread, Launch
  <2>7. Retrievals'
    BY <1>4 DEF Sound, Retrievals, AllShown, Launch, mailbox, protocol
  <2>8. Kept'
    BY <1>1 DEF Kept
  <2> QED BY <2>3, <2>4, <2>5, <2>6, <2>7, <2>8 DEF Sound
<1> QED BY <1>3, <1>4 DEF Launch, StartFails

\* The first request is answered, or the launch fails.
LEMMA InitializeKeeps ==
    ASSUME Sound, Initialize
    PROVE  Sound'
<1>1. CASE pc' = "thread" /\ UNCHANGED proc
  <2>1. Fits' /\ Accepts'
    BY <1>1 DEF Sound, Fits, Accepts, Initialize, mailbox, host, protocol
  <2>2. Owned'
    BY <1>1 DEF Sound, Owned, Initialize, host, Launching, Busy
  <2>3. Yields'
    BY <1>1 DEF Sound, Yields, Yielded, Launching, Initialize, host
  <2>4. Threads'
    BY DEF Sound, Threads, OneDurableThread, Initialize, host
  <2>5. Retrievals'
    BY <1>1 DEF Sound, Retrievals, AllShown, Initialize, host, mailbox, protocol
  <2>6. Kept'
    BY <1>1 DEF Kept, Busy
  <2> QED BY <2>1, <2>2, <2>3, <2>4, <2>5, <2>6 DEF Sound
<1>2. CASE \E error \in AppServerError : LaunchFails(error)
  BY <1>2, LaunchIsOver DEF Initialize, LaunchFails, StartFails, Launching
<1> QED BY <1>1, <1>2 DEF Initialize, AppServerError

\* The thread is started or resumed, and the host has a client; or not.
LEMMA InitializeThreadKeeps ==
    ASSUME CodexAssumption, Sound, NEW t \in 0..MaxLaunch, InitializeThread(t)
    PROVE  Sound'
<1>1. CASE /\ proc[launched] = "up" /\ Answered(t)
           /\ IF config.policy.kind = "Create" THEN PersistThreadId(t) ELSE UNCHANGED record
           /\ config' = [config EXCEPT !.policy = [kind |-> "Resume", thread |-> t]]
           /\ client' = launched /\ pc' = "turnStart"
           /\ wire' = << >> /\ backlog' = << >> /\ retrieved' = {}
           /\ UNCHANGED proc
  <2>1. t \in Int /\ t # NoThread
    BY DEF CodexAssumption, NoThread
  <2>2. launched # 0 /\ launched \in Process /\ client = 0 /\ turn[launched].state = "none"
    BY <1>1 DEF Sound, Owned, Fits, Process, InitializeThread, Launching
  <2>3. config' \in [policy : Policy, lacks : SUBSET Lacking] /\ config'.lacks = config.lacks
        /\ config'.policy.kind = "Resume" /\ config'.policy.thread = t
    <3>1. config \in [policy : Policy, lacks : SUBSET Lacking]
      BY DEF Sound, Fits
    <3>2. [kind |-> "Resume", thread |-> t] \in Policy
      BY <2>1 DEF Policy
    <3> QED BY <1>1, <3>1, <3>2
  <2>4. record' \in Int
    BY <1>1, <2>1 DEF Sound, Fits, PersistThreadId
  <2>5. Fits' /\ Accepts'
    <3>1. launched' \in 0..MaxLaunch /\ client' \in 0..MaxLaunch
      BY <1>1 DEF Sound, Fits, InitializeThread
    <3>2. wire' \in Seq(Item) /\ backlog' \in Seq(Item)
      BY <1>1
    <3> QED BY <1>1, <2>3, <2>4, <3>1, <3>2, Zenon DEF Sound, Fits, Accepts, InitializeThread, mailbox
  <2>6. Owned'
    BY <1>1, <2>2 DEF Sound, Owned, InitializeThread, Busy, Launching
  <2>7. Yields'
    BY <1>1 DEF Sound, Yields, Yielded, Launching, InitializeThread
  <2>8. Threads'
    <3>1. turn' = turn
      BY DEF InitializeThread
    <3>2. CASE config.policy.kind = "Create"
      BY <1>1, <2>1, <2>3, <3>1, <3>2 DEF Sound, Threads, OneDurableThread, PersistThreadId
    <3>3. CASE config.policy.kind # "Create"
      <4>1. config.policy.kind = "Resume" /\ t = config.policy.thread /\ record' = record
        BY <1>1, <3>3 DEF Sound, Fits, Policy, Answered
      <4> QED BY <2>3, <3>1, <4>1 DEF Sound, Threads, OneDurableThread
    <3> QED BY <3>2, <3>3
  <2>9. Retrievals'
    BY <1>1 DEF Sound, Retrievals, AllShown, InitializeThread, mailbox
  <2>10. Kept'
    BY <1>1, <2>2 DEF Kept, InitializeThread
  <2> QED BY <2>5, <2>6, <2>7, <2>8, <2>9, <2>10 DEF Sound
<1>2. CASE \E error \in AppServerError :
             LaunchFails(error) /\ UNCHANGED <<record, config, client, protocol>>
  BY <1>2, LaunchIsOver DEF InitializeThread, LaunchFails, StartFails, Launching, host
<1> QED BY <1>1, <1>2 DEF InitializeThread, AppServerError

\* A request is answered: whatever came before its answer is kept.
LEMMA Answering ==
    ASSUME Fits, backlog' = Retained, wire' = << >>
    PROVE  /\ wire' \in Seq(Item) /\ backlog' \in Seq(Item)
           /\ HasCompletion(backlog) \/ HasCompletion(wire) => HasCompletion(backlog')
BY Joined DEF Fits, Retained

\* The app-server answers turn/start.
LEMMA StartTurnKeeps ==
    ASSUME Sound, StartTurn
    PROVE  Sound'
<1>1. /\ wire' \in Seq(Item) /\ backlog' \in Seq(Item)
      /\ HasCompletion(backlog) \/ HasCompletion(wire) => HasCompletion(backlog')
  BY Answering DEF Sound, StartTurn
<1>2. Fits'
  BY <1>1 DEF Sound, Fits, StartTurn, mailbox, host, processes
<1>3. Retrievals'
  BY DEF Sound, Retrievals, AllShown, StartTurn, host, mailbox
<1> QED BY <1>1, <1>2, <1>3, TurnGoesOn DEF StartTurn, Busy, processes

\* turn/start fails.
LEMMA StartTurnFailsKeeps ==
    ASSUME CodexAssumption, Sound, NEW error, StartTurnFails(error)
    PROVE  Sound'
<1>1. client # 0 /\ pc \in Busy
  BY DEF Sound, Owned, StartTurnFails, Busy
<1>2. wire' \in Seq(Item) /\ backlog' \in Seq(Item)
  BY DEF Sound, Fits, StartTurnFails, protocol
<1> QED BY <1>1, <1>2, TurnIsOver DEF StartTurnFails, StartFails, mailbox, protocol

\* A tool call is read, and served or refused as an error of the turn.
LEMMA ReadToolCallKeeps ==
    ASSUME CodexAssumption, Sound, ReadToolCall
    PROVE  Sound'
<1>1. client # 0 /\ pc \in Busy
  BY DEF Sound, Owned, ReadToolCall, Busy
<1>2. /\ wire' \in Seq(Item) /\ backlog' \in Seq(Item)
      /\ HasCompletion(backlog) \/ HasCompletion(wire)
           => HasCompletion(backlog') \/ HasCompletion(wire')
  BY Consumed DEF Sound, ReadToolCall
<1>3. CASE MayAcknowledge(Head(Unread).ids) /\ call' = Head(Unread) /\ pc' = "tool"
           /\ UNCHANGED <<failures, attempt, host, proc>>
  <2>1. Fits'
    BY <1>2, <1>3 DEF Sound, Fits, ReadToolCall, mailbox, host
  <2>2. Retrievals'
    BY <1>1, <1>3 DEF Sound, Retrievals, AllShown, ReadToolCall, MayAcknowledge, host, mailbox
  <2> QED BY <1>1, <1>2, <1>3, <2>1, <2>2, TurnGoesOn DEF ReadToolCall, Busy
<1>4. CASE TurnEnds(FALSE)
  BY <1>1, <1>2, <1>4, TurnIsOver DEF ReadToolCall, TurnEnds, mailbox
<1> QED BY <1>3, <1>4 DEF ReadToolCall

\* The call was served.
LEMMA ToolCallServedKeeps ==
    ASSUME CodexAssumption, Sound, ToolCallServed
    PROVE  Sound'
<1>1. client # 0 /\ pc \in Busy /\ client \in Process
  BY DEF Sound, Owned, Fits, Process, ToolCallServed, Busy
<1>2. /\ wire' \in Seq(Item) /\ backlog' \in Seq(Item)
      /\ HasCompletion(backlog) \/ HasCompletion(wire) => HasCompletion(backlog')
  BY Answering DEF Sound, ToolCallServed
<1>3. /\ shown' \in [Process -> SUBSET Message]
      /\ \A n \in Process : shown[n] \subseteq shown'[n]
      /\ call.kind = "receive" => mail \subseteq shown'[client]
  BY <1>1 DEF Sound, Fits, ToolCallServed
<1>4. Fits'
  <2>1. mail' \subseteq Message
    BY DEF Sound, Fits, ToolCallServed
  <2> QED BY <1>2, <1>3, <2>1 DEF Sound, Fits, ToolCallServed, host, processes
<1>5. Retrievals'
  <2>1. AllShown \subseteq AllShown'
    BY <1>3 DEF AllShown
  <2>2. call.kind = "receive" => mail \subseteq AllShown'
    BY <1>1, <1>3 DEF AllShown
  <2>3. client' = client /\ retrieved' \subseteq shown'[client]
    BY <1>1, <1>3 DEF Sound, Retrievals, ToolCallServed, host
  <2>4. arrived' \ mail' \subseteq AllShown'
    BY <1>1, <2>1, TurnWasShown DEF Sound, Retrievals, ToolCallServed
  <2> QED BY <2>3, <2>4 DEF Retrievals, ToolCallServed
<1> QED BY <1>1, <1>2, <1>4, <1>5, TurnGoesOn DEF ToolCallServed, Busy, processes

\* The tool reported an error.
LEMMA ToolCallRefusedKeeps ==
    ASSUME Sound, ToolCallRefused
    PROVE  Sound'
<1>1. /\ wire' \in Seq(Item) /\ backlog' \in Seq(Item)
      /\ HasCompletion(backlog) \/ HasCompletion(wire) => HasCompletion(backlog')
  BY Answering DEF Sound, ToolCallRefused
<1>2. Fits'
  BY <1>1 DEF Sound, Fits, ToolCallRefused, mailbox, host, processes
<1>3. Retrievals'
  BY DEF Sound, Retrievals, AllShown, ToolCallRefused, host, mailbox
<1> QED BY <1>1, <1>2, <1>3, TurnGoesOn DEF ToolCallRefused, Busy, processes

\* The turn ends: the call had no answer, the completion was read, or the
\* process is gone.
LEMMA EndingsKeep ==
    ASSUME CodexAssumption, Sound, ToolCallFails \/ ReadCompletion \/ ReadFails
    PROVE  Sound'
<1>1. client # 0 /\ pc \in Busy
  BY DEF Sound, Owned, ToolCallFails, ReadCompletion, ReadFails, Busy
<1>2. Reap /\ pc' \in {"observe", "blocked"} /\ UNCHANGED <<config, record, launched>>
  BY DEF ToolCallFails, ReadCompletion, ReadFails, TurnEnds
<1>3. CASE ToolCallFails
  <2>1. mail' \subseteq mail /\ mail \subseteq mail' \cup AllShown
    BY <1>1, <1>3, TurnWasShown DEF Sound, Retrievals, ToolCallFails
  <2>2. wire' \in Seq(Item) /\ backlog' \in Seq(Item)
    BY <1>3 DEF Sound, Fits, ToolCallFails, protocol
  <2> QED BY <1>1, <1>2, <1>3, <2>1, <2>2, TurnIsOver DEF ToolCallFails, protocol
<1>4. CASE ReadCompletion
  <2>1. wire' \in Seq(Item) /\ backlog' \in Seq(Item)
    BY <1>4, Consumed DEF Sound, ReadCompletion
  <2> QED BY <1>1, <1>2, <1>4, <2>1, TurnIsOver DEF ReadCompletion, mailbox
<1>5. CASE ReadFails
  <2>1. wire' \in Seq(Item) /\ backlog' \in Seq(Item)
    BY <1>5 DEF Sound, Fits, ReadFails, protocol
  <2> QED BY <1>1, <1>2, <1>5, <2>1, TurnIsOver DEF ReadFails, mailbox, protocol
<1> QED BY <1>3, <1>4, <1>5

\* The engine is cancelled at its await.
LEMMA CancelKeeps ==
    ASSUME Sound, Cancel
    PROVE  Sound'
<1>1. CASE pc \in Launching
  BY <1>1, LaunchIsOver DEF Cancel, Launching
<1>2. CASE pc \notin Launching
  <2>1. proc' = proc /\ pc' = "cancelled" /\ UNCHANGED <<client, launched, config, record>>
    BY <1>2 DEF Cancel, Launching, host
  <2>2. Fits' /\ Accepts'
    BY <2>1 DEF Sound, Fits, Accepts, Cancel, mailbox, protocol
  <2>3. Owned'
    BY <1>2, <2>1 DEF Sound, Owned, Cancel, Busy, Launching
  <2>4. Yields'
    BY <2>1 DEF Sound, Yields, Yielded, Busy, Launching, Cancel
  <2>5. Threads'
    BY <2>1 DEF Sound, Threads, OneDurableThread, Cancel
  <2>6. Retrievals'
    BY <2>1 DEF Sound, Retrievals, AllShown, Cancel, mailbox, protocol
  <2>7. Kept'
    BY <2>1 DEF Kept, Busy
  <2> QED BY <2>2, <2>3, <2>4, <2>5, <2>6, <2>7 DEF Sound
<1> QED BY <1>1, <1>2

\* The host's process is reaped and the observer's session closed.
LEMMA ShutdownKeeps ==
    ASSUME CodexAssumption, Sound, Shutdown
    PROVE  Sound'
<1>1. CASE client # 0
  <2>1. Reap /\ slot = "none" /\ slot' = slot /\ holder' = holder
    BY <1>1 DEF Sound, Yields, Shutdown
  <2>2. wire' \in Seq(Item) /\ backlog' \in Seq(Item)
    BY DEF Sound, Fits, Shutdown, protocol
  <2> QED BY <1>1, <2>1, <2>2, TurnIsOver DEF Shutdown, mailbox, protocol
<1>2. CASE client = 0
  <2>1. \A n \in Process : proc[n] # "up"
    BY <1>2, NoneAlive DEF Sound, Shutdown, Launching
  <2>2. UNCHANGED <<proc, client, launched, config, record, turn>> /\ pc' = "stopped" /\ slot' = "none"
    BY <1>2 DEF Shutdown
  <2>3. Fits' /\ Accepts'
    BY <2>2 DEF Sound, Fits, Accepts, Shutdown, mailbox, protocol
  <2>4. Owned'
    BY <1>2, <2>1, <2>2 DEF Sound, Owned, Busy, Launching
  <2>5. Yields'
    BY <1>2, <2>2 DEF Sound, Yields, Shutdown, Nobody, Observer
  <2>6. Threads'
    BY <2>2 DEF Sound, Threads, OneDurableThread
  <2>7. Retrievals'
    BY <2>2 DEF Sound, Retrievals, AllShown, Shutdown, mailbox, protocol
  <2>8. Kept'
    BY <1>2, <2>2 DEF Kept
  <2> QED BY <2>3, <2>4, <2>5, <2>6, <2>7, <2>8 DEF Sound
<1> QED BY <1>1, <1>2

-----------------------------------------------------------------------------
(* The theorem. *)

\* Before the first poll nothing has been launched, and the policy is what
\* the variables select.
LEMMA InitSound ==
    ASSUME CodexAssumption, Init
    PROVE  Sound
<1>1. PICK id \in {NoThread, Configured}, create \in BOOLEAN,
           target \in {"unset", "free", "taken"},
           lacks \in {{}} \cup {{feature} : feature \in Lacking} :
             /\ ThreadPolicy(id, create, target).kind # "Configuration"
             /\ Prepared(lacks)
             /\ config = [policy |-> ThreadPolicy(id, create, target), lacks |-> lacks]
  BY Zenon DEF Init
<1>2. \/ config.policy = [kind |-> "Resume", thread |-> Configured]
      \/ config.policy = [kind |-> "Create", thread |-> NoThread]
  BY <1>1 DEF ThreadPolicy
<1>3. config \in [policy : Policy, lacks : SUBSET Lacking]
  <2>1. config.policy \in Policy
    BY <1>2 DEF Policy, Configured, NoThread
  <2> QED BY <1>1, <2>1
<1>4. /\ mail = {} /\ arrived = {} /\ holder = Nobody /\ slot = "none" /\ pc = "observe"
      /\ record = NoThread /\ launched = 0 /\ client = 0 /\ retrieved = {}
      /\ proc = [n \in Process |-> "none"]
      /\ turn = [n \in Process |-> [thread |-> NoThread, state |-> "none"]]
      /\ wire = << >> /\ backlog = << >> /\ shown = [n \in Process |-> {}]
  BY Zenon DEF Init
<1>5. Fits /\ Accepts
  BY <1>1, <1>3, <1>4 DEF Fits, Accepts, TurnRecord, NoThread, CodexAssumption
<1>6. Owned
  BY <1>4 DEF Owned, Busy, Launching
<1>7. Yields
  BY <1>4 DEF Yields, Yielded, Busy, Launching, Nobody, Observer
<1>8. Threads
  BY <1>2, <1>4 DEF Threads, OneDurableThread
<1>9. Retrievals
  BY <1>4 DEF Retrievals
<1>10. Kept
  BY <1>4 DEF Kept
<1> QED BY <1>5, <1>6, <1>7, <1>8, <1>9, <1>10 DEF Sound

\* Every step keeps the invariant.
LEMMA NextSound ==
    ASSUME CodexAssumption, Sound, [Next]_vars
    PROVE  Sound'
<1>1. CASE \E m \in Message : Arrive(m)
  BY <1>1, ArriveKeeps
<1>2. CASE OtherTakes \/ OtherReleases
  BY <1>2, OthersKeep
<1>3. CASE Source
  BY <1>3, SourceKeeps
<1>4. CASE Start
  BY <1>4, SourceKeeps, LaunchKeeps, InitializeKeeps, InitializeThreadKeeps, StartTurnKeeps,
     StartTurnFailsKeeps DEF Start
<1>5. CASE Turn
  BY <1>5, ReadToolCallKeeps, ToolCallServedKeeps, ToolCallRefusedKeeps, EndingsKeep DEF Turn
<1>6. CASE AppServer
  BY <1>6, ServerBeginsKeeps, OthersKeep, ServerExitsKeeps, ServerCallsKeeps,
     ServerCompletesKeeps DEF AppServer
<1>7. CASE Cancel
  BY <1>7, CancelKeeps
<1>8. CASE Shutdown
  BY <1>8, ShutdownKeeps
<1>9. CASE UNCHANGED vars
  <2>1. UNCHANGED <<mailbox, slot, pc, host, proc, turn, protocol, shown>> /\ holder' = holder
    BY <1>9 DEF vars, engine, processes
  <2> QED BY <2>1, OthersMove
<1> QED BY <1>1, <1>2, <1>3, <1>4, <1>5, <1>6, <1>7, <1>8, <1>9 DEF Next

\* What the runs check follows from it.
LEMMA SoundSuffices ==
    ASSUME Sound
    PROVE  CodexInvariant
<1>1. ObserverYields
  BY NoneAlive DEF Sound, Yields, Yielded, ObserverYields
<1>2. TurnsAreOwned
  BY DEF Sound, Owned, TurnsAreOwned, Running
<1>3. ShutdownLeavesNothing
  BY NoneAlive DEF Sound, Yields, ShutdownLeavesNothing, Launching
<1>4. CompletionIsKept
  <2> SUFFICES ASSUME NEW n \in Process, client = n, turn[n].state = "completed", pc \in Busy
               PROVE  \E i \in DOMAIN Unread : Unread[i].kind = "completed"
    BY DEF CompletionIsKept, Busy
  <2>1. HasCompletion(backlog) \/ HasCompletion(wire)
    BY DEF Sound, Kept, Process
  <2>2. Unread \in Seq(Item) /\ HasCompletion(Unread)
    BY <2>1, Joined DEF Sound, Fits, Unread
  <2> QED BY <2>2 DEF HasCompletion
<1>5. AcceptedSchemaSuffices
  BY DEF Sound, Accepts, Prepared, AcceptedSchemaSuffices, Required, Sent, SentOnLaunch,
         SentForTurn, SentForTool, Understood
<1>6. AcknowledgedWasShown
  BY Zenon DEF Sound, Retrievals, AllShown, AcknowledgedWasShown
<1> QED BY <1>1, <1>2, <1>3, <1>4, <1>5, <1>6 DEF CodexInvariant, Sound, Threads

\* For any mail, any number of processes and of attempts, the Codex harness
\* keeps its invariant: no app-server is alive while the observer has the
\* profile, mail is acknowledged only by a turn that was shown it, at most one
\* turn runs and the host owns it, a shutdown leaves none, all turns are in
\* one durable thread, a completion stays to be read, and no app-server lacks
\* a method the adapter needs (CyclingSessionSource and CodexAppServerHost).
THEOREM TurnsAreAlwaysOwned ==
    ASSUME CodexAssumption
    PROVE  Spec => []CodexInvariant
<1>1. Init => Sound
  BY InitSound
<1>2. Sound /\ [Next]_vars => Sound'
  BY NextSound
<1>3. Sound => CodexInvariant
  BY SoundSuffices
<1> QED BY <1>1, <1>2, <1>3, PTL DEF Spec
=============================================================================
