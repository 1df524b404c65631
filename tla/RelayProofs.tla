---------------------------- MODULE RelayProofs ----------------------------
(***************************************************************************)
(* The relay's wake-up, registry and refusal guarantees, for any number of *)
(* requests, mailboxes, queue slots and permits.  Protocol is the          *)
(* inductive invariant; it is checked on a small instance as well.  First  *)
(* what sends and receives do to the channel, what the registry counts,    *)
(* and that a handler which answers or moves on keeps every conjunct; then *)
(* the handlers' steps, the worker's, and the theorems.                    *)
(***************************************************************************)
EXTENDS Relay, FiniteSetTheorems, TLAPS

\* The inductive invariant.
IInv == TypeOK /\ Protocol

\* A handler step that leaves commands, worker and store alone.
HandlerOnly ==
  UNCHANGED <<kind, to, reply, queue, workerVars, storeVars, serveVars>>

\* The invariant, one conjunct at a time.
LEMMA InvTypes == ASSUME IInv PROVE TypeOK
BY Zenon DEF IInv, Protocol

\* Commands are where they belong.
LEMMA InvCommands == ASSUME IInv PROVE CommandPlacement
BY Zenon DEF IInv, Protocol

\* So are subscriptions.
LEMMA InvSubscriptions == ASSUME IInv PROVE SubscriptionPlacement
BY Zenon DEF IInv, Protocol

\* The registry holds exactly those who wait.
LEMMA InvRegistry == ASSUME IInv PROVE RegistryMatchesWaiters
BY Zenon DEF IInv, Protocol

\* Who waits for a message that is there has its wake-up on the way.
LEMMA InvWakeups == ASSUME IInv PROVE WakeupOnItsWay
BY Zenon DEF IInv, Protocol

\* Commits not yet notified are where they belong.
LEMMA InvCommits == ASSUME IInv PROVE CommitPlacement
BY Zenon DEF IInv, Protocol

\* A refused command was not carried out.
LEMMA InvRefusals == ASSUME IInv PROVE RefusalIsDefinite
BY Zenon DEF IInv, Protocol

\* A request has its answer from the moment it is answered, and not before.
LEMMA InvAnswers ==
  ASSUME IInv PROVE \A q \in Request : answer[q] # "None" <=> stage[q] = "Answered"
BY Zenon DEF IInv, Protocol

\* The channel's contents after a send on it.
LEMMA AppendCommands ==
  ASSUME queue \in Seq(Request), NEW r \in Request, queue' = Append(queue, r)
  PROVE  /\ queue' \in Seq(Request)
         /\ Commands' = Commands \cup {r}
         /\ CommandPlacement /\ r \notin Commands =>
              \A i, j \in 1..Len(queue') : queue'[i] = queue'[j] => i = j
BY DEF Commands, CommandPlacement

\* The channel's contents after a receive from it.
LEMMA TailCommands ==
  ASSUME queue \in Seq(Request), queue # <<>>, queue' = Tail(queue),
         \A i, j \in 1..Len(queue) : queue[i] = queue[j] => i = j
  PROVE  /\ queue' \in Seq(Request)
         /\ Head(queue) \in Request
         /\ Head(queue) \in Commands
         /\ Commands' = Commands \ {Head(queue)}
         /\ \A i, j \in 1..Len(queue') : queue'[i] = queue'[j] => i = j
<1>1. /\ Len(queue) \in Nat \ {0}
      /\ Len(queue') = Len(queue) - 1
      /\ Head(queue) = queue[1]
      /\ \A i \in 1..Len(queue') : queue'[i] = queue[i + 1]
      /\ queue' \in Seq(Request)
  OBVIOUS
<1>2. queue[1] \in Request
  BY <1>1
<1>3. Commands' = Commands \ {queue[1]}
  <2>1. ASSUME NEW x \in Commands' PROVE x \in Commands \ {queue[1]}
    <3>1. PICK i \in 1..Len(queue') : x = queue'[i]
      BY <2>1, Zenon DEF Commands
    <3>2. i + 1 \in 1..Len(queue) /\ i + 1 # 1 /\ 1 \in 1..Len(queue) /\ x = queue[i + 1]
      BY <1>1, <3>1
    <3> QED BY <3>2, Zenon DEF Commands
  <2>2. ASSUME NEW x \in Commands \ {queue[1]} PROVE x \in Commands'
    <3>1. PICK i \in 1..Len(queue) : x = queue[i]
      BY <2>2, Zenon DEF Commands
    <3>2. i # 1
      BY <3>1, <2>2, Zenon
    <3>3. i - 1 \in 1..Len(queue') /\ x = queue'[i - 1]
      BY <1>1, <3>1, <3>2
    <3> QED BY <3>3, Zenon DEF Commands
  <2> QED BY <2>1, <2>2, Zenon
<1>4. queue[1] \in Commands
  BY <1>1 DEF Commands
<1>5. \A i, j \in 1..Len(queue') : queue'[i] = queue'[j] => i = j
  <2> SUFFICES ASSUME NEW i \in 1..Len(queue'), NEW j \in 1..Len(queue'), queue'[i] = queue'[j]
               PROVE i = j
    BY Zenon
  <2>1. i + 1 \in 1..Len(queue) /\ j + 1 \in 1..Len(queue) /\ queue[i + 1] = queue[j + 1]
    BY <1>1
  <2>2. i + 1 = j + 1
    BY <2>1, Zenon
  <2> QED BY <2>2
<1> QED BY <1>1, <1>2, <1>3, <1>4, <1>5, Zenon

\* What is on its way was asked by a request.
LEMMA CommandsAreRequests ==
  ASSUME TypeOK, CommandPlacement
  PROVE  Commands \cup Held \subseteq Request
<1>1. Commands \subseteq Request
  BY DEF Commands, TypeOK
<1>2. Held \subseteq Request
  BY Zenon DEF Held, CommandPlacement
<1> QED BY <1>1, <1>2, Zenon

\* The registrations of a mailbox are a finite count, positive while anyone
\* subscribed to it.
LEMMA RegistrationFacts ==
  ASSUME TypeOK, RegistryMatchesWaiters, NEW m \in Member
  PROVE  /\ IsFiniteSet(Subscribers(m))
         /\ entries[m].registrations = Cardinality(Subscribers(m))
         /\ Subscribers(m) # {} => entries[m].registrations >= 1
<1>1. IsFiniteSet(Subscribers(m))
  <2>1. Subscribers(m) \subseteq Request
    BY Zenon DEF TypeOK, Subscribers
  <2> QED BY <2>1, FS_Subset, RequestAssumption, Zenon
<1>2. entries[m].registrations = Cardinality(Subscribers(m))
  BY Zenon DEF RegistryMatchesWaiters
<1>3. Subscribers(m) # {} => Cardinality(Subscribers(m)) >= 1
  BY <1>1, FS_EmptySet, FS_CardinalityType
<1> QED BY <1>1, <1>2, <1>3, Zenon

\* Returning from a handler, on any path, unregisters its subscription.
LEMMA FinishKeepsRegistry ==
  ASSUME IInv, NEW r \in Request, NEW a, Finish(r, a), UNCHANGED <<kind, to>>
  PROVE  /\ entries' \in [Member -> [generation : Nat, registrations : Nat]]
         /\ \A m \in Member :
              entries'[m].registrations = Cardinality(Subscribers(m)')
         /\ \A q \in subscriptions' :
              entries'[to[q]].generation = entries[to[q]].generation
<1> USE DEF IInv, Protocol
<1>1. CASE r \notin subscriptions
  <2>1. entries' = entries /\ subscriptions' = subscriptions
    BY <1>1, Zenon DEF Finish
  <2>2. \A m \in Member : Subscribers(m)' = Subscribers(m)
    BY <2>1, Zenon DEF Subscribers
  <2> QED BY <2>1, <2>2, Zenon DEF TypeOK, RegistryMatchesWaiters
<1>2. CASE r \in subscriptions
  <2>1. PICK n \in Member : n = to[r]
    BY Zenon DEF TypeOK
  <2>2. r \in Subscribers(n)
    BY <1>2, <2>1, Zenon DEF Subscribers
  <2>3. /\ IsFiniteSet(Subscribers(n))
        /\ entries[n].registrations = Cardinality(Subscribers(n))
        /\ entries[n].registrations >= 1
    BY <2>2, RegistrationFacts, Zenon
  <2>4. Subscribers(n)' = Subscribers(n) \ {r}
    BY <2>1, Zenon DEF Subscribers, Finish
  <2>5. Cardinality(Subscribers(n)') = entries[n].registrations - 1
    BY <2>2, <2>3, <2>4, FS_RemoveElement, Zenon
  <2>6. \A m \in Member \ {n} : Subscribers(m)' = Subscribers(m)
    BY <2>1, Zenon DEF Subscribers, Finish
  <2>7. entries' = Unregistered(n)
    BY <1>2, <2>1, Zenon DEF Finish
  <2>8. \A m \in Member \ {n} : entries'[m] = entries[m]
    BY <2>7, Zenon DEF Unregistered, TypeOK
  <2>9. entries'[n] = IF entries[n].registrations = 1 THEN NoEntry
                      ELSE [generation |-> entries[n].generation,
                            registrations |-> entries[n].registrations - 1]
    BY <2>7, Zenon DEF Unregistered, TypeOK
  <2>10. entries[n] \in [generation : Nat, registrations : Nat]
    BY Zenon DEF TypeOK
  <2>11. /\ entries'[n] \in [generation : Nat, registrations : Nat]
         /\ entries'[n].registrations = entries[n].registrations - 1
         /\ entries[n].registrations # 1 => entries'[n].generation = entries[n].generation
    BY <2>3, <2>9, <2>10 DEF NoEntry
  <2>12. entries' \in [Member -> [generation : Nat, registrations : Nat]]
    BY <2>7, <2>8, <2>11, Zenon DEF Unregistered, TypeOK
  <2>13. \A m \in Member : entries'[m].registrations = Cardinality(Subscribers(m)')
    BY <2>5, <2>6, <2>8, <2>11 DEF RegistryMatchesWaiters
  <2>14. ASSUME NEW q \in subscriptions'
         PROVE entries'[to[q]].generation = entries[to[q]].generation
    <3>1. q \in subscriptions /\ q # r /\ to[q] \in Member
      BY <2>14, Zenon DEF Finish, TypeOK
    <3>2. CASE to[q] # n
      BY <3>1, <3>2, <2>8, Zenon
    <3>3. CASE to[q] = n
      <4>1. q \in Subscribers(n)'
        BY <3>1, <3>3, <2>4, Zenon DEF Subscribers
      <4>2. IsFiniteSet(Subscribers(n)')
        BY <2>3, <2>4, FS_RemoveElement
      <4>3. Cardinality(Subscribers(n)') # 0
        BY <4>1, <4>2, FS_EmptySet, Zenon
      <4>4. entries[n].registrations # 1
        BY <4>3, <2>5
      <4> QED BY <4>4, <2>11, <3>3, Zenon
    <3> QED BY <3>2, <3>3, Zenon
  <2> QED BY <2>12, <2>13, <2>14, Zenon
<1> QED BY <1>1, <1>2, Zenon

\* A handler that returns keeps the protocol, if a definite refusal is given
\* only when no command of it is, or was, on its way.
LEMMA FinishKeeps ==
  ASSUME IInv, HandlerOnly, UNCHANGED seen,
         NEW r \in Request, NEW a \in Outcome \cup Failure, Finish(r, a),
         stage[r] \notin {"Idle", "Answered"},
         a \in {"RateLimited", "Unavailable", "Refused"} =>
           r \notin Commands \cup Held \cup committed
  PROVE  IInv'
<1> USE DEF HandlerOnly, workerVars, storeVars, serveVars
<1>1. /\ entries' \in [Member -> [generation : Nat, registrations : Nat]]
      /\ \A m \in Member : entries'[m].registrations = Cardinality(Subscribers(m)')
      /\ \A q \in subscriptions' : entries'[to[q]].generation = entries[to[q]].generation
  BY FinishKeepsRegistry, Zenon
<1>2. /\ stage' = [stage EXCEPT ![r] = "Answered"]
      /\ answer' = [answer EXCEPT ![r] = a]
      /\ subscriptions' = subscriptions \ {r}
  BY Zenon DEF Finish
<1>3. /\ stage' \in [Request -> Stage]
      /\ stage'[r] = "Answered"
      /\ \A q \in Request \ {r} : stage'[q] = stage[q] /\ answer'[q] = answer[q]
      /\ answer'[r] = a
      /\ answer' \in [Request -> {"None"} \cup Outcome \cup Failure]
  BY InvTypes, <1>2, Zenon DEF TypeOK, Stage
<1>4. TypeOK'
  BY InvTypes, <1>1, <1>2, <1>3, Zenon DEF TypeOK
<1>5. Commands' = Commands /\ Held' = Held /\ Busy' = Busy
  BY Zenon DEF Commands, Held, Busy
<1>6. CommandPlacement'
  <2>1. \A q \in Commands \cup Held : q \in Request
    BY CommandsAreRequests, InvTypes, InvCommands, Zenon
  <2>2. \A q \in Commands \cup Held :
          stage'[q] \in {"Await", "Answered"} /\ reply'[q] = "Open"
    BY InvCommands, <1>3, <2>1, Zenon DEF CommandPlacement
  <2> QED BY InvCommands, <1>5, <2>2, Zenon DEF CommandPlacement
<1>7. SubscriptionPlacement'
  BY InvTypes, InvSubscriptions, <1>1, <1>2, <1>3, Zenon DEF SubscriptionPlacement, TypeOK
<1>8. RegistryMatchesWaiters'
  BY InvTypes, InvRegistry, <1>1, <1>2, <1>3, Zenon DEF RegistryMatchesWaiters, InFlight, TypeOK
<1>9. WakeupOnItsWay'
  <2>1. \A m : Pending(m)' = Pending(m)
    BY Zenon DEF Pending
  <2>2. \A q \in subscriptions' : q \in Request \ {r} /\ q \in subscriptions
    BY InvTypes, <1>2, Zenon DEF TypeOK
  <2>3. \A q \in subscriptions' : ToldEmpty(q)' = ToldEmpty(q)
    BY <1>3, <2>2, Zenon DEF ToldEmpty
  <2> QED BY InvWakeups, <1>1, <2>1, <2>2, <2>3, Zenon DEF WakeupOnItsWay
<1>10. CommitPlacement'
  BY InvTypes, InvCommits, <1>3, <1>5, Zenon DEF CommitPlacement, TypeOK
<1>11. RefusalIsDefinite'
  <2>1. a \in {"RateLimited", "Unavailable", "Refused"} => current # r
    BY InvCommands, RequestAssumption, Zenon DEF Held, CommandPlacement
  <2> QED BY InvRefusals, <1>3, <1>5, <2>1, Zenon DEF RefusalIsDefinite
<1>12. (\A q \in Request : answer[q] # "None" <=> stage[q] = "Answered")'
  BY InvAnswers, <1>3, Zenon DEF Outcome, Failure
<1> QED BY <1>4, <1>6, <1>7, <1>8, <1>9, <1>10, <1>11, <1>12, Zenon DEF IInv, Protocol

\* A handler that moves on, without a command on its way, keeps the protocol
\* if it sleeps only when subscribed and told that its inbox is empty.
LEMMA ProceedKeeps ==
  ASSUME IInv, HandlerOnly,
         NEW r \in Request, NEW t \in Stage \ {"Idle", "Await", "Answered"},
         NEW v \in Nat, Proceed(r, t), seen' = [seen EXCEPT ![r] = v],
         stage[r] # "Answered",
         r \notin Commands \cup Held \cup committed,
         t \in {"Subscribe", "Sleep"} => kind[r] = "LongPoll",
         t = "Sleep" => r \in subscriptions /\ ToldEmpty(r) /\ v = seen[r],
         r \in subscriptions => /\ t \in {"Load", "TrySend", "Sleep"}
                                /\ v <= entries[to[r]].generation
  PROVE  IInv'
<1> USE DEF HandlerOnly, workerVars, storeVars, serveVars
<1>1. /\ stage' = [stage EXCEPT ![r] = t]
      /\ UNCHANGED <<answer, subscriptions, entries>>
  BY Zenon DEF Proceed, registryVars
<1>2. /\ stage' \in [Request -> Stage]
      /\ stage'[r] = t
      /\ \A q \in Request \ {r} : stage'[q] = stage[q] /\ seen'[q] = seen[q]
      /\ seen'[r] = v
      /\ seen' \in [Request -> Nat]
  BY InvTypes, <1>1, Zenon DEF TypeOK
<1>3. TypeOK'
  BY InvTypes, <1>1, <1>2, Zenon DEF TypeOK
<1>4. Commands' = Commands /\ Held' = Held /\ Busy' = Busy
  BY Zenon DEF Commands, Held, Busy
<1>5. \A q \in Commands \cup Held : q \in Request
  BY CommandsAreRequests, InvTypes, InvCommands, Zenon
<1>6. CommandPlacement'
  <2>1. \A q \in Commands \cup Held :
          stage'[q] \in {"Await", "Answered"} /\ reply'[q] = "Open"
    BY InvCommands, <1>2, <1>5, Zenon DEF CommandPlacement
  <2> QED BY InvCommands, <1>4, <2>1, Zenon DEF CommandPlacement
<1>7. SubscriptionPlacement'
  BY InvTypes, InvSubscriptions, <1>1, <1>2 DEF SubscriptionPlacement, TypeOK
<1>8. RegistryMatchesWaiters'
  <2>1. \A m : Subscribers(m)' = Subscribers(m)
    BY <1>1, Zenon DEF Subscribers
  <2>2. \A q \in subscriptions : InFlight(q)'
    BY InvTypes, InvRegistry, <1>1, <1>2, Zenon DEF RegistryMatchesWaiters, InFlight, TypeOK
  <2> QED BY InvRegistry, <1>1, <2>1, <2>2, Zenon DEF RegistryMatchesWaiters
<1>9. WakeupOnItsWay'
  <2>1. \A m : Pending(m)' = Pending(m)
    BY Zenon DEF Pending
  <2>2. r # current
    BY InvCommands, RequestAssumption, Zenon DEF Held, CommandPlacement
  <2>3. \A q \in subscriptions :
          ToldEmpty(q)' => ToldEmpty(q) /\ seen'[q] = seen[q]
    BY InvTypes, <1>1, <1>2, <2>2, Zenon DEF ToldEmpty, TypeOK
  <2> QED BY InvWakeups, <1>1, <2>1, <2>3, Zenon DEF WakeupOnItsWay
<1>10. CommitPlacement'
  <2>1. \A q \in committed : q \in Request \ {r}
    BY InvTypes, Zenon DEF TypeOK
  <2>2. \A q \in committed : stage'[q] = stage[q]
    BY <1>2, <2>1, Zenon
  <2>3. UNCHANGED <<committed, kind, reply, current, worker, result>>
    BY Zenon
  <2> QED BY InvCommits, <1>4, <2>2, <2>3, Zenon DEF CommitPlacement
<1>11. RefusalIsDefinite'
  BY InvRefusals, <1>1, <1>4, Zenon DEF RefusalIsDefinite
<1>12. (\A q \in Request : answer[q] # "None" <=> stage[q] = "Answered")'
  BY InvAnswers, <1>1, <1>2, Zenon
<1> QED BY <1>3, <1>6, <1>7, <1>8, <1>9, <1>10, <1>11, <1>12, Zenon DEF IInv, Protocol

\* Nothing of a request that has not asked yet, or that holds an answer, is on
\* its way.
LEMMA NothingOnItsWay ==
  ASSUME IInv, NEW r \in Request,
         \/ stage[r] \notin {"Await", "Answered"}
         \/ stage[r] = "Await" /\ reply[r] \notin {"Open", "Done"}
  PROVE  r \notin Commands \cup Held \cup committed
BY Zenon DEF IInv, Protocol, CommandPlacement, CommitPlacement

-----------------------------------------------------------------------------
(* The handlers' steps.                                                    *)

\* Registering, and going on to the second query, keeps the protocol.
LEMMA SubscribeKeeps ==
  ASSUME IInv, NEW r \in Request, Subscribe(r)
  PROVE  IInv'
<1> USE DEF workerVars, storeVars, serveVars, registryVars
<1>1. stage[r] = "Subscribe" /\ HandlerOnly
  BY Zenon DEF Subscribe, HandlerOnly
<1>2. r \notin Commands \cup Held \cup committed /\ r \notin subscriptions
  BY InvSubscriptions, <1>1, NothingOnItsWay, Zenon DEF SubscriptionPlacement
<1>3. CASE Finish(r, "RateLimited") /\ UNCHANGED seen
  BY <1>1, <1>2, <1>3, FinishKeeps, Zenon DEF Failure
<1>4. CASE /\ stage' = [stage EXCEPT ![r] = "Load"]
           /\ subscriptions' = subscriptions \cup {r}
           /\ entries' = Registered(to[r])
           /\ seen' = [seen EXCEPT ![r] = entries[to[r]].generation]
           /\ UNCHANGED answer
  <2> USE <1>4, <1>1 DEF HandlerOnly
  <2>1. PICK n \in Member : n = to[r]
    BY InvTypes, Zenon DEF TypeOK
  <2>2. /\ entries[n] \in [generation : Nat, registrations : Nat]
        /\ entries'[n] = [generation |-> entries[n].generation,
                          registrations |-> entries[n].registrations + 1]
        /\ \A m \in Member \ {n} : entries'[m] = entries[m]
    BY InvTypes, <2>1, Zenon DEF Registered, TypeOK
  <2>3. /\ entries' \in [Member -> [generation : Nat, registrations : Nat]]
        /\ \A m \in Member : entries'[m].generation = entries[m].generation
    BY InvTypes, <2>1, <2>2 DEF Registered, TypeOK
  <2>4. /\ stage' \in [Request -> Stage]
        /\ stage'[r] = "Load"
        /\ \A q \in Request \ {r} : stage'[q] = stage[q] /\ seen'[q] = seen[q]
        /\ seen'[r] = entries[n].generation
        /\ seen' \in [Request -> Nat]
    BY InvTypes, <2>1, <2>2, Zenon DEF TypeOK, Stage
  <2>5. TypeOK'
    BY InvTypes, <2>3, <2>4, Zenon DEF TypeOK
  <2>6. Commands' = Commands /\ Held' = Held /\ Busy' = Busy
    BY Zenon DEF Commands, Held, Busy
  <2>7. CommandPlacement'
    <3>1. \A q \in Commands \cup Held : q \in Request
      BY CommandsAreRequests, InvTypes, InvCommands, Zenon
    <3>2. \A q \in Commands \cup Held :
            stage'[q] \in {"Await", "Answered"} /\ reply'[q] = "Open"
      BY InvCommands, <1>2, <2>4, <3>1, Zenon DEF CommandPlacement
    <3> QED BY InvCommands, <2>6, <3>2, Zenon DEF CommandPlacement
  <2>8. SubscriptionPlacement'
    BY InvTypes, InvSubscriptions, <2>1, <2>2, <2>3, <2>4 DEF SubscriptionPlacement, TypeOK
  <2>9. RegistryMatchesWaiters'
    <3>1. Subscribers(n)' = Subscribers(n) \cup {r} /\ r \notin Subscribers(n)
      BY <1>2, <2>1, Zenon DEF Subscribers
    <3>2. \A m \in Member \ {n} : Subscribers(m)' = Subscribers(m)
      BY <2>1, Zenon DEF Subscribers
    <3>3. Cardinality(Subscribers(n)') = entries[n].registrations + 1
      BY <3>1, RegistrationFacts, InvTypes, InvRegistry, FS_AddElement, Zenon
    <3>4. \A m \in Member : entries'[m].registrations = Cardinality(Subscribers(m)')
      BY InvRegistry, <2>2, <3>2, <3>3 DEF RegistryMatchesWaiters
    <3>5. \A q \in subscriptions' : InFlight(q)' /\ kind'[q] = "LongPoll"
      BY InvTypes, InvSubscriptions, InvRegistry, <2>4 DEF RegistryMatchesWaiters, InFlight, SubscriptionPlacement, TypeOK
    <3> QED BY InvRegistry, <3>4, <3>5, Zenon DEF RegistryMatchesWaiters
  <2>10. WakeupOnItsWay'
    <3>1. \A m : Pending(m)' = Pending(m)
      BY Zenon DEF Pending
    <3>2. r # current
      BY InvCommands, <1>2, RequestAssumption, Zenon DEF Held, CommandPlacement
    <3>3. \A q \in subscriptions' :
            ToldEmpty(q)' => q \in subscriptions /\ ToldEmpty(q) /\ seen'[q] = seen[q]
      BY InvTypes, <2>4, <3>2, Zenon DEF ToldEmpty, TypeOK
    <3>4. \A q \in subscriptions : to[q] \in Member
      BY InvTypes, Zenon DEF TypeOK
    <3> QED BY InvWakeups, <2>3, <3>1, <3>3, <3>4, Zenon DEF WakeupOnItsWay
  <2>11. CommitPlacement'
    BY InvTypes, InvCommits, <1>2, <2>4, <2>6, Zenon DEF CommitPlacement, TypeOK
  <2>12. RefusalIsDefinite'
    BY InvRefusals, <2>6, Zenon DEF RefusalIsDefinite
  <2>13. (\A q \in Request : answer[q] # "None" <=> stage[q] = "Answered")'
    BY InvAnswers, <2>4, Zenon
  <2> QED BY <2>5, <2>7, <2>8, <2>9, <2>10, <2>11, <2>12, <2>13, Zenon DEF IInv, Protocol
<1> QED BY <1>3, <1>4, Zenon DEF Subscribe

\* Handing a command to the channel keeps the protocol, and so does each way
\* of failing to.
LEMMA TrySendKeeps ==
  ASSUME IInv, NEW r \in Request, TrySend(r)
  PROVE  IInv'
<1> USE DEF workerVars, storeVars, serveVars, registryVars
<1>1. stage[r] = "TrySend" /\ UNCHANGED <<kind, to, seen, workerVars, storeVars, serveVars>>
  BY Zenon DEF TrySend
<1>2. r \notin Commands \cup Held \cup committed /\ answer[r] = "None"
  BY InvTypes, InvAnswers, <1>1, NothingOnItsWay, Zenon DEF TypeOK
<1>3. ASSUME NEW a \in {"Unavailable", "RateLimited"}, Finish(r, a), UNCHANGED <<queue, reply>>
      PROVE  IInv'
  BY <1>1, <1>2, <1>3, FinishKeeps, Zenon DEF Failure, HandlerOnly
<1>4. CASE Proceed(r, "Await") /\ queue' = Append(queue, r)
           /\ reply' = [reply EXCEPT ![r] = "Open"]
  <2> USE <1>4, <1>1
  <2>1. /\ queue' \in Seq(Request)
        /\ Commands' = Commands \cup {r}
        /\ \A i, j \in 1..Len(queue') : queue'[i] = queue'[j] => i = j
    BY InvTypes, InvCommands, <1>2, AppendCommands, Zenon DEF TypeOK
  <2>2. /\ stage' \in [Request -> Stage]
        /\ stage'[r] = "Await" /\ reply'[r] = "Open"
        /\ \A q \in Request \ {r} : stage'[q] = stage[q] /\ reply'[q] = reply[q]
        /\ reply' \in [Request -> {"Open", "Dropped"} \cup Outcome]
        /\ UNCHANGED <<answer, subscriptions, entries>>
    BY InvTypes, Zenon DEF TypeOK, Stage, Proceed
  <2>3. TypeOK'
    BY InvTypes, <2>1, <2>2, Zenon DEF TypeOK
  <2>4. Held' = Held /\ Busy' = Busy /\ current # r
    BY InvCommands, <1>2, RequestAssumption, Zenon DEF Held, Busy, CommandPlacement
  <2>5. CommandPlacement'
    <3>1. \A q \in Commands' \cup Held' :
            stage'[q] \in {"Await", "Answered"} /\ reply'[q] = "Open"
      BY InvTypes, InvCommands, <2>1, <2>2, <2>4, CommandsAreRequests, Zenon DEF CommandPlacement
    <3>2. current' \in IF Busy' THEN Request \ Commands' ELSE {NoRequest}
      BY InvCommands, <2>1, <2>4, Zenon DEF CommandPlacement
    <3> QED BY InvCommands, <2>1, <3>1, <3>2, Zenon DEF CommandPlacement
  <2>6. SubscriptionPlacement'
    BY InvTypes, InvSubscriptions, <2>2, Zenon DEF SubscriptionPlacement, TypeOK
  <2>7. RegistryMatchesWaiters'
    <3>1. \A m : Subscribers(m)' = Subscribers(m)
      BY <2>2, Zenon DEF Subscribers
    <3>2. \A q \in subscriptions : InFlight(q)'
      BY InvTypes, InvRegistry, <2>2, Zenon DEF RegistryMatchesWaiters, InFlight, TypeOK
    <3> QED BY InvRegistry, <2>2, <3>1, <3>2, Zenon DEF RegistryMatchesWaiters
  <2>8. WakeupOnItsWay'
    <3>1. \A m : Pending(m)' = Pending(m)
      BY Zenon DEF Pending
    <3>2. \A q \in subscriptions : ToldEmpty(q)' => ToldEmpty(q)
      BY InvTypes, <2>2, <2>4, Zenon DEF ToldEmpty, TypeOK
    <3> QED BY InvWakeups, <2>2, <3>1, <3>2, Zenon DEF WakeupOnItsWay
  <2>9. CommitPlacement'
    BY InvTypes, InvCommits, <1>2, <2>1, <2>2, Zenon DEF CommitPlacement, TypeOK
  <2>10. RefusalIsDefinite'
    BY InvRefusals, <1>2, <2>1, <2>2, Zenon DEF RefusalIsDefinite
  <2>11. (\A q \in Request : answer[q] # "None" <=> stage[q] = "Answered")'
    BY InvAnswers, <2>2, Zenon
  <2> QED BY <2>3, <2>5, <2>6, <2>7, <2>8, <2>9, <2>10, <2>11, Zenon DEF IInv, Protocol
<1> QED BY <1>3, <1>4, Zenon DEF TrySend

\* Every step of a handler, its timers included, keeps the protocol.
LEMMA HandlerKeeps ==
  ASSUME IInv, NEW r \in Request, Arrive(r) \/ HandlerStep(r) \/ TimerStep(r)
  PROVE  IInv'
<1>inv. TypeOK /\ SubscriptionPlacement
  BY Zenon DEF IInv, Protocol
<1>seen. PICK n \in Nat : /\ n = seen[r]
                          /\ seen' = seen => seen' = [seen EXCEPT ![r] = n]
                          /\ r \in subscriptions => n <= entries[to[r]].generation
  BY <1>inv, Zenon DEF TypeOK, SubscriptionPlacement
<1>1. CASE Arrive(r)
  <2>1. stage[r] = "Idle" /\ Proceed(r, "Admission") /\ HandlerOnly /\ UNCHANGED seen
    BY <1>1, Zenon DEF Arrive, HandlerOnly
  <2>2. r \notin Commands \cup Held \cup committed /\ r \notin subscriptions
    BY <1>inv, <2>1, NothingOnItsWay, Zenon DEF SubscriptionPlacement
  <2> QED BY <1>seen, <2>1, <2>2, ProceedKeeps, Zenon DEF Stage
<1>2. CASE Admit(r)
  <2>1. stage[r] = "Admission" /\ Proceed(r, "Load") /\ HandlerOnly /\ UNCHANGED seen
    BY <1>2, Zenon DEF Admit, HandlerOnly
  <2>2. r \notin Commands \cup Held \cup committed /\ r \notin subscriptions
    BY <1>inv, <2>1, NothingOnItsWay, Zenon DEF SubscriptionPlacement
  <2> QED BY <1>seen, <2>1, <2>2, ProceedKeeps, Zenon DEF Stage
<1>3. CASE LoadAccepting(r)
  <2>1. /\ stage[r] = "Load" /\ HandlerOnly /\ UNCHANGED seen
        /\ Proceed(r, "TrySend") \/ Finish(r, "Unavailable")
    BY <1>3, Zenon DEF LoadAccepting, HandlerOnly
  <2>2. r \notin Commands \cup Held \cup committed
    BY <2>1, NothingOnItsWay, Zenon
  <2>3. CASE Proceed(r, "TrySend")
    BY <1>seen, <2>1, <2>2, <2>3, ProceedKeeps, Zenon DEF Stage
  <2>4. CASE Finish(r, "Unavailable")
    BY <2>1, <2>2, <2>4, FinishKeeps, Zenon DEF Failure
  <2> QED BY <2>1, <2>3, <2>4, Zenon
<1>4. CASE TrySend(r)
  BY <1>4, TrySendKeeps, Zenon
<1>5. CASE ReceiveReply(r)
  <2>1. stage[r] = "Await" /\ reply[r] # "Open" /\ HandlerOnly /\ UNCHANGED seen
    BY <1>5, Zenon DEF ReceiveReply, HandlerOnly
  <2>2. reply[r] \in {"Dropped"} \cup Outcome
    BY <1>inv, <2>1, Zenon DEF TypeOK
  <2>3. CASE reply[r] = "Dropped"
    <3>1. Finish(r, "Unavailable")
      BY <1>5, <2>3, Zenon DEF ReceiveReply
    <3> QED BY <2>1, <2>3, <3>1, NothingOnItsWay, FinishKeeps, Zenon DEF Failure
  <2>4. CASE reply[r] = "NoMail" /\ kind[r] = "LongPoll"
    <3>1. Proceed(r, IF r \in subscriptions THEN "Sleep" ELSE "Subscribe")
      BY <1>5, <2>4, Zenon DEF ReceiveReply
    <3>2. r \notin Commands \cup Held \cup committed
      BY <2>1, <2>4, NothingOnItsWay, Zenon
    <3>3. CASE r \in subscriptions
      <4>1. Proceed(r, "Sleep") /\ ToldEmpty(r)
        BY <2>1, <2>4, <3>1, <3>3, Zenon DEF ToldEmpty
      <4> QED BY <1>seen, <2>1, <2>4, <3>2, <3>3, <4>1, ProceedKeeps, Zenon DEF Stage
    <3>4. CASE r \notin subscriptions
      <4>1. Proceed(r, "Subscribe")
        BY <3>1, <3>4, Zenon
      <4> QED BY <1>seen, <2>1, <2>4, <3>2, <3>4, <4>1, ProceedKeeps, Zenon DEF Stage
    <3> QED BY <3>3, <3>4, Zenon
  <2>5. CASE reply[r] \in Outcome /\ ~(reply[r] = "NoMail" /\ kind[r] = "LongPoll")
    <3>1. PICK a \in Outcome : a = reply[r]
      BY <2>5, Zenon
    <3>2. Finish(r, a)
      BY <1>5, <2>5, <3>1, Zenon DEF ReceiveReply, Outcome
    <3>3. a \in {"RateLimited", "Unavailable", "Refused"} =>
            r \notin Commands \cup Held \cup committed
      BY <2>1, <3>1, NothingOnItsWay, Zenon DEF Outcome
    <3> QED BY <2>1, <3>2, <3>3, FinishKeeps, Zenon
  <2> QED BY <2>2, <2>3, <2>4, <2>5, Zenon
<1>6. CASE Subscribe(r)
  BY <1>6, SubscribeKeeps, Zenon
<1>7. CASE Changed(r)
  <2>1. /\ stage[r] = "Sleep" /\ Proceed(r, "Load") /\ HandlerOnly
        /\ seen' = [seen EXCEPT ![r] = entries[to[r]].generation]
    BY <1>7, Zenon DEF Changed, HandlerOnly
  <2>2. PICK v \in Nat : v = entries[to[r]].generation
    BY <1>inv, Zenon DEF TypeOK
  <2>3. r \notin Commands \cup Held \cup committed
    BY <2>1, NothingOnItsWay, Zenon
  <2>4. seen' = [seen EXCEPT ![r] = v] /\ v <= entries[to[r]].generation
    BY <2>1, <2>2
  <2> QED BY <2>1, <2>3, <2>4, ProceedKeeps, Zenon DEF Stage
<1>8. CASE SawShutdown(r)
  BY <1>8, FinishKeeps, Zenon DEF SawShutdown, HandlerOnly, Failure
<1>9. CASE WaitElapsed(r)
  BY <1>9, FinishKeeps, Zenon DEF WaitElapsed, HandlerOnly, Outcome
<1>10. CASE DispatchTimeout(r)
  BY <1>10, FinishKeeps, Zenon DEF DispatchTimeout, HandlerOnly, Failure
<1>11. CASE RequestDeadline(r)
  BY <1>11, FinishKeeps, Zenon DEF RequestDeadline, HandlerOnly, Failure
<1> QED BY <1>1, <1>2, <1>3, <1>4, <1>5, <1>6, <1>7, <1>8, <1>9, <1>10, <1>11, Zenon
        DEF HandlerStep, TimerStep

-----------------------------------------------------------------------------
(* The worker's steps, and the theorems.                                   *)

\* What a worker step leaves alone.
WorkerOnly == UNCHANGED <<kind, to, stage, answer, seen, subscriptions, serveVars>>

\* The parts of the protocol that do not look at the worker or the channel.
LEMMA WorkerKeepsRegistry ==
  ASSUME IInv, WorkerOnly,
         entries' \in [Member -> [generation : Nat, registrations : Nat]],
         \A m \in Member : /\ entries'[m].registrations = entries[m].registrations
                           /\ entries'[m].generation >= entries[m].generation
  PROVE  /\ SubscriptionPlacement'
         /\ RegistryMatchesWaiters'
         /\ (\A q \in Request : answer[q] # "None" <=> stage[q] = "Answered")'
<1> USE DEF IInv, Protocol, WorkerOnly
<1>1. SubscriptionPlacement'
  <2>1. \A q \in subscriptions : seen[q] <= entries'[to[q]].generation
    BY DEF SubscriptionPlacement, TypeOK
  <2> QED BY <2>1, Zenon DEF SubscriptionPlacement
<1>2. RegistryMatchesWaiters'
  <2>1. \A m : Subscribers(m)' = Subscribers(m)
    BY Zenon DEF Subscribers
  <2> QED BY <2>1, Zenon DEF RegistryMatchesWaiters, InFlight
<1> QED BY <1>1, <1>2, Zenon

\* Taking a command, or finding the channel closed, keeps the protocol.
LEMMA RecvKeeps ==
  ASSUME IInv, Recv
  PROVE  IInv'
<1> USE DEF IInv, Protocol, storeVars, registryVars, handlerVars
<1>1. /\ worker = "Recv" /\ WorkerOnly
      /\ UNCHANGED <<entries, reply, result, committed, acknowledged>>
  BY Zenon DEF Recv, WorkerOnly
<1>2. /\ SubscriptionPlacement' /\ RegistryMatchesWaiters'
      /\ (\A q \in Request : answer[q] # "None" <=> stage[q] = "Answered")'
  BY <1>1, WorkerKeepsRegistry DEF TypeOK
<1>3. \A m : Pending(m)' = Pending(m)
  BY <1>1, Zenon DEF Pending, WorkerOnly
<1>4. ~Busy /\ Held = {} /\ current = NoRequest
  BY <1>1, Zenon DEF Busy, Held, CommandPlacement
<1>5. CASE queue # <<>> /\ current' = Head(queue) /\ queue' = Tail(queue) /\ worker' = "Check"
  <2>1. /\ queue' \in Seq(Request)
        /\ current' \in Request /\ current' \in Commands
        /\ Commands' = Commands \ {current'}
        /\ \A i, j \in 1..Len(queue') : queue'[i] = queue'[j] => i = j
    BY <1>5, TailCommands, Zenon DEF TypeOK, CommandPlacement
  <2>2. TypeOK'
    BY <1>1, <1>5, <2>1, Zenon DEF TypeOK, WorkerOnly, serveVars, WorkerStage
  <2>3. Busy' /\ Held' = {current'}
    BY <1>5, Zenon DEF Busy, Held
  <2>4. CommandPlacement'
    BY <1>1, <2>1, <2>3, Zenon DEF CommandPlacement, WorkerOnly
  <2>5. WakeupOnItsWay'
    BY <1>1, <1>3, <1>5, Zenon DEF WakeupOnItsWay, ToldEmpty, WorkerOnly
  <2>6. CommitPlacement'
    BY <1>1, <2>1, Zenon DEF CommitPlacement, WorkerOnly
  <2>7. RefusalIsDefinite'
    BY <1>1, <2>1, Zenon DEF RefusalIsDefinite, WorkerOnly
  <2> QED BY <1>2, <2>2, <2>4, <2>5, <2>6, <2>7, Zenon
<1>6. CASE worker' = "Checkpoint" /\ UNCHANGED <<current, queue>>
  <2>1. Commands' = Commands /\ ~Busy' /\ Held' = {}
    BY <1>6, Zenon DEF Commands, Busy, Held
  <2>2. TypeOK'
    BY <1>1, <1>6, Zenon DEF TypeOK, WorkerOnly, serveVars, WorkerStage
  <2>3. CommandPlacement'
    BY <1>1, <1>4, <1>6, <2>1, Zenon DEF CommandPlacement, WorkerOnly
  <2>4. WakeupOnItsWay'
    BY <1>1, <1>3, <1>6, Zenon DEF WakeupOnItsWay, ToldEmpty, WorkerOnly
  <2>5. CommitPlacement'
    BY <1>1, <1>4, <1>6, <2>1, RequestAssumption, Zenon DEF CommitPlacement, WorkerOnly, TypeOK
  <2>6. RefusalIsDefinite'
    BY <1>1, <1>6, <2>1, Zenon DEF RefusalIsDefinite, WorkerOnly
  <2> QED BY <1>2, <2>2, <2>3, <2>4, <2>5, <2>6, Zenon
<1> QED BY <1>5, <1>6, Zenon DEF Recv

\* Dropping commands unexecuted keeps the protocol: the held one, the ones in
\* the channel, or those left in it when the receiver goes.
LEMMA CancelKeeps ==
  ASSUME IInv, WorkerOnly, UNCHANGED <<entries, result, committed, acknowledged>>,
         NEW D \in SUBSET (Commands \cup Held), reply' = Cancelled(D),
         worker \in {"Check", "Drain", "Checkpoint"},
         worker' \in {"Drain", "Checkpoint", "Stopped", "Failed"},
         current' = NoRequest, Held \subseteq D,
         queue' \in Seq(Request), Commands' = Commands \ D,
         \A i, j \in 1..Len(queue') : queue'[i] = queue'[j] => i = j
  PROVE  IInv'
<1> USE DEF IInv, Protocol
<1>1. /\ SubscriptionPlacement' /\ RegistryMatchesWaiters'
      /\ (\A q \in Request : answer[q] # "None" <=> stage[q] = "Answered")'
  BY WorkerKeepsRegistry DEF TypeOK
<1>2. D \subseteq Request
  BY CommandsAreRequests, Zenon
<1>3. /\ reply' \in [Request -> {"Open", "Dropped"} \cup Outcome]
      /\ \A q \in Request \ D : reply'[q] = reply[q]
      /\ \A q \in D : reply'[q] = "Dropped"
  BY <1>2, Zenon DEF Cancelled, TypeOK
<1>4. TypeOK'
  BY <1>3, Zenon DEF TypeOK, WorkerOnly, serveVars, WorkerStage
<1>5. ~Busy' /\ Held' = {}
  BY Zenon DEF Busy, Held
<1>6. CommandPlacement'
  BY <1>3, <1>5, CommandsAreRequests, Zenon DEF CommandPlacement, WorkerOnly
<1>7. WakeupOnItsWay'
  <2>1. \A m : Pending(m)' = Pending(m)
    BY Zenon DEF Pending, WorkerOnly
  <2>2. \A q \in subscriptions : ToldEmpty(q)' => ToldEmpty(q)
    BY <1>3, Zenon DEF ToldEmpty, WorkerOnly, TypeOK
  <2> QED BY <2>1, <2>2, Zenon DEF WakeupOnItsWay, WorkerOnly
<1>8. CommitPlacement'
  <2>1. committed \cap D = {}
    BY Zenon DEF CommitPlacement, Held, Busy
  <2> QED BY <1>3, <2>1, RequestAssumption, Zenon DEF CommitPlacement, WorkerOnly, TypeOK
<1>9. RefusalIsDefinite'
  BY RequestAssumption, Zenon DEF RefusalIsDefinite, WorkerOnly
<1> QED BY <1>1, <1>4, <1>6, <1>7, <1>8, <1>9, Zenon

\* A step that keeps the held command in hand keeps the protocol, if it commits
\* and reports in step: an empty page only of an empty mailbox, new mail only
\* with its notification to come, a commit only with the result Done.
LEMMA HoldKeeps ==
  ASSUME IInv, WorkerOnly, UNCHANGED <<entries, reply, queue, current>>,
         worker \in {"Check", "Execute"}, worker' \in {"Execute", "Notify", "Reply"},
         result' \in Outcome,
         committed \subseteq committed', committed' \subseteq committed \cup {current},
         committed' # committed => kind[current] = "Send",
         current \in committed' => worker' = "Notify" /\ result' = "Done",
         acknowledged' \in SUBSET Request, acknowledged \subseteq acknowledged',
         worker' = "Reply" /\ result' = "NoMail" => Pending(to[current])' = {}
  PROVE  IInv'
<1> USE DEF IInv, Protocol
<1>1. /\ SubscriptionPlacement' /\ RegistryMatchesWaiters'
      /\ (\A q \in Request : answer[q] # "None" <=> stage[q] = "Answered")'
  BY WorkerKeepsRegistry DEF TypeOK
<1>2. /\ Commands' = Commands /\ Busy /\ Busy' /\ Held' = {current} /\ Held = {current}
      /\ current \in Request \ Commands
  BY DEF Commands, Busy, Held, CommandPlacement
<1>3. TypeOK'
  BY <1>2, Zenon DEF TypeOK, WorkerOnly, serveVars, WorkerStage
<1>4. CommandPlacement'
  BY <1>2, Zenon DEF CommandPlacement, WorkerOnly
<1>5. CommitPlacement'
  <2>1. current \notin committed
    BY Zenon DEF CommitPlacement
  <2>2. stage[current] \in {"Await", "Answered"} /\ reply[current] = "Open"
    BY <1>2, Zenon DEF CommandPlacement
  <2> QED BY <1>2, <2>1, <2>2, Zenon DEF CommitPlacement, WorkerOnly
<1>6. WakeupOnItsWay'
  <2> SUFFICES ASSUME NEW q \in subscriptions, ToldEmpty(q)', Pending(to[q])' # {}
               PROVE  \/ seen[q] # entries[to[q]].generation
                      \/ worker' = "Notify" /\ to[current] = to[q]
    BY Zenon DEF WakeupOnItsWay, WorkerOnly
  <2>1. ToldEmpty(q)
    BY Zenon DEF ToldEmpty, WorkerOnly
  <2>2. CASE Pending(to[q]) # {}
    BY <2>1, <2>2, Zenon DEF WakeupOnItsWay
  <2>3. CASE Pending(to[q]) = {}
    <3>1. \E x \in committed' : x \notin committed /\ to[x] = to[q]
      BY <2>3, Zenon DEF Pending, WorkerOnly
    <3> QED BY <3>1, Zenon
  <2> QED BY <2>2, <2>3, Zenon
<1>7. RefusalIsDefinite'
  BY <1>2, Zenon DEF RefusalIsDefinite, WorkerOnly
<1> QED BY <1>1, <1>3, <1>4, <1>5, <1>6, <1>7, Zenon

\* notify() gives every subscriber of the mailbox a generation it has not seen.
LEMMA NotifyKeeps ==
  ASSUME IInv, Notify
  PROVE  IInv'
<1> USE DEF IInv, Protocol
<1>1. /\ worker = "Notify" /\ worker' = "Reply" /\ entries' = Notified(to[current])
      /\ UNCHANGED <<reply, queue, current, result, committed, acknowledged>>
      /\ WorkerOnly
  BY Zenon DEF Notify, WorkerOnly, handlerVars, storeVars
<1>2. current \in Request \ Commands /\ Busy /\ Busy'
  BY <1>1, Zenon DEF Busy, CommandPlacement
<1>3. PICK n \in Member : n = to[current]
  BY <1>2, Zenon DEF TypeOK
<1>4. /\ entries[n] \in [generation : Nat, registrations : Nat]
      /\ entries'[n] = IF entries[n].registrations = 0 THEN entries[n]
                       ELSE [generation |-> entries[n].generation + 1,
                             registrations |-> entries[n].registrations]
      /\ \A m \in Member \ {n} : entries'[m] = entries[m]
  BY <1>1, <1>3, Zenon DEF Notified, TypeOK
<1>5. /\ entries' \in [Member -> [generation : Nat, registrations : Nat]]
      /\ \A m \in Member : /\ entries'[m].registrations = entries[m].registrations
                           /\ entries'[m].generation >= entries[m].generation
  BY <1>1, <1>3, <1>4 DEF Notified, TypeOK
<1>6. /\ SubscriptionPlacement' /\ RegistryMatchesWaiters'
      /\ (\A q \in Request : answer[q] # "None" <=> stage[q] = "Answered")'
  BY <1>1, <1>5, WorkerKeepsRegistry, Zenon
<1>7. TypeOK'
  BY <1>1, <1>5, Zenon DEF TypeOK, WorkerOnly, serveVars, WorkerStage
<1>8. Commands' = Commands /\ Held' = Held
  BY <1>1, <1>2, Zenon DEF Commands, Held
<1>9. CommandPlacement'
  BY <1>1, <1>2, <1>8, Zenon DEF CommandPlacement, WorkerOnly
<1>10. CommitPlacement'
  BY <1>1, <1>8, Zenon DEF CommitPlacement, WorkerOnly
<1>11. RefusalIsDefinite'
  BY <1>1, <1>8, Zenon DEF RefusalIsDefinite, WorkerOnly
<1>12. WakeupOnItsWay'
  <2> SUFFICES ASSUME NEW q \in subscriptions, ToldEmpty(q)', Pending(to[q])' # {}
               PROVE  seen[q] # entries'[to[q]].generation
    BY <1>1, Zenon DEF WakeupOnItsWay, WorkerOnly
  <2>1. q \in Request /\ to[q] \in Member /\ seen[q] \in Nat
        /\ seen[q] <= entries[to[q]].generation
    BY Zenon DEF TypeOK, SubscriptionPlacement
  <2>2. CASE to[q] = n
    <3>1. q \in Subscribers(n)
      BY <2>2, Zenon DEF Subscribers
    <3>2. entries[n].registrations # 0
      BY <3>1, RegistrationFacts
    <3> QED BY <1>4, <2>1, <2>2, <3>2
  <2>3. CASE to[q] # n
    <3>1. q # current
      BY <1>3, <2>3, Zenon
    <3>2. ToldEmpty(q) /\ Pending(to[q]) # {}
      BY <1>1, <3>1, Zenon DEF ToldEmpty, Pending, WorkerOnly
    <3>3. seen[q] # entries[to[q]].generation
      BY <1>3, <2>3, <3>2, Zenon DEF WakeupOnItsWay
    <3> QED BY <1>4, <2>1, <2>3, <3>3, Zenon
  <2> QED BY <2>2, <2>3, Zenon
<1> QED BY <1>6, <1>7, <1>9, <1>10, <1>11, <1>12, Zenon

\* Answering the held command keeps the protocol.
LEMMA ReplyKeeps ==
  ASSUME IInv, Reply
  PROVE  IInv'
<1> USE DEF IInv, Protocol
<1>1. /\ worker = "Reply" /\ worker' = "Recv" /\ current' = NoRequest
      /\ reply' = [reply EXCEPT ![current] = result]
      /\ UNCHANGED <<entries, queue, result, committed, acknowledged>>
      /\ WorkerOnly
  BY Zenon DEF Reply, WorkerOnly, registryVars, storeVars
<1>2. current \in Request \ Commands /\ ~Busy' /\ Held' = {} /\ Commands' = Commands
  BY <1>1, Zenon DEF Busy, CommandPlacement, Held, Commands
<1>3. /\ reply' \in [Request -> {"Open", "Dropped"} \cup Outcome]
      /\ reply'[current] = result
      /\ \A q \in Request \ {current} : reply'[q] = reply[q]
  BY <1>1, <1>2, Zenon DEF TypeOK
<1>4. TypeOK'
  BY <1>1, <1>3, Zenon DEF TypeOK, WorkerOnly, serveVars, WorkerStage
<1>5. /\ SubscriptionPlacement' /\ RegistryMatchesWaiters'
      /\ (\A q \in Request : answer[q] # "None" <=> stage[q] = "Answered")'
  BY <1>1, WorkerKeepsRegistry DEF TypeOK
<1>6. CommandPlacement'
  BY <1>1, <1>2, <1>3, CommandsAreRequests DEF CommandPlacement, WorkerOnly
<1>7. WakeupOnItsWay'
  <2>1. \A m : Pending(m)' = Pending(m)
    BY <1>1, Zenon DEF Pending, WorkerOnly
  <2>2. \A q \in subscriptions : ToldEmpty(q)' => ToldEmpty(q)
    BY <1>1, <1>3, Zenon DEF ToldEmpty, WorkerOnly, TypeOK
  <2> QED BY <1>1, <2>1, <2>2, Zenon DEF WakeupOnItsWay, WorkerOnly
<1>8. CommitPlacement'
  BY <1>1, <1>2, <1>3, RequestAssumption, Zenon DEF CommitPlacement, WorkerOnly, TypeOK
<1>9. RefusalIsDefinite'
  BY <1>1, <1>2, RequestAssumption, Zenon DEF RefusalIsDefinite, WorkerOnly
<1> QED BY <1>4, <1>5, <1>6, <1>7, <1>8, <1>9, Zenon

\* Every step of the psst-sqlite thread keeps the protocol.
LEMMA WorkerKeeps ==
  ASSUME IInv, WorkerStep
  PROVE  IInv'
<1> USE DEF IInv, Protocol
<1>1. CASE Recv
  BY <1>1, RecvKeeps, Zenon
<1>2. CASE CheckShutdown
  <2>1. /\ worker = "Check" /\ WorkerOnly
        /\ UNCHANGED <<entries, queue, result, committed, acknowledged>>
    BY <1>2, Zenon DEF CheckShutdown, WorkerOnly, registryVars, storeVars
  <2>2. /\ Commands' = Commands /\ Held = {current}
        /\ current \in Request \ Commands /\ current \notin committed
    BY <2>1, Zenon DEF Commands, Held, Busy, CommandPlacement, CommitPlacement
  <2>3. CASE worker' = "Drain" /\ reply' = Cancelled({current}) /\ current' = NoRequest
    <3>1. /\ {current} \in SUBSET (Commands \cup Held) /\ Held \subseteq {current}
          /\ Commands' = Commands \ {current}
          /\ queue' \in Seq(Request)
          /\ \A i, j \in 1..Len(queue') : queue'[i] = queue'[j] => i = j
      BY <2>1, <2>2, Zenon DEF TypeOK, CommandPlacement
    <3>2. PICK D : D = {current}
      BY Zenon
    <3> QED BY <2>1, <2>3, <3>1, <3>2, CancelKeeps, Zenon
  <2>4. CASE worker' = "Execute" /\ UNCHANGED <<current, reply>>
    BY <2>1, <2>2, <2>4, HoldKeeps, Zenon DEF TypeOK
  <2> QED BY <1>2, <2>3, <2>4, Zenon DEF CheckShutdown
<1>3. CASE Drain
  <2>1. /\ worker = "Drain" /\ WorkerOnly
        /\ UNCHANGED <<entries, current, result, committed, acknowledged>>
    BY <1>3, Zenon DEF Drain, WorkerOnly, registryVars, storeVars
  <2>2. Held = {} /\ current' = NoRequest
    BY <2>1, Zenon DEF Held, Busy, CommandPlacement
  <2>3. CASE queue # <<>> /\ reply' = Cancelled({Head(queue)}) /\ queue' = Tail(queue)
             /\ UNCHANGED worker
    <3>1. PICK h : h = Head(queue)
      BY Zenon
    <3>2. /\ queue' \in Seq(Request) /\ h \in Commands
          /\ Commands' = Commands \ {h}
          /\ \A i, j \in 1..Len(queue') : queue'[i] = queue'[j] => i = j
      BY <2>3, <3>1, TailCommands, Zenon DEF TypeOK, CommandPlacement
    <3>3. {h} \in SUBSET (Commands \cup Held) /\ reply' = Cancelled({h})
      BY <2>3, <3>1, <3>2, Zenon
    <3> QED BY <2>1, <2>2, <2>3, <3>2, <3>3, CancelKeeps, Zenon
  <2>4. CASE queue = <<>> /\ worker' = "Checkpoint" /\ UNCHANGED <<queue, reply>>
    <3>1. reply' = Cancelled({})
      BY <2>4, Zenon DEF Cancelled, TypeOK
    <3>2. /\ Commands' = Commands \ {} /\ queue' \in Seq(Request)
          /\ \A i, j \in 1..Len(queue') : queue'[i] = queue'[j] => i = j
      BY <2>4 DEF Commands, TypeOK, CommandPlacement
    <3> QED BY <2>1, <2>2, <2>4, <3>1, <3>2, CancelKeeps, Zenon
  <2> QED BY <1>3, <2>3, <2>4, Zenon DEF Drain
<1>4. CASE worker = "Execute" /\ (ExecuteSend \/ ExecuteAcknowledge \/ ExecutePending \/ ExecuteRefused)
  <2>1. /\ WorkerOnly /\ UNCHANGED <<entries, reply, queue, current>>
        /\ current \in Request /\ current \notin committed
    BY <1>4, Zenon DEF ExecuteSend, ExecuteAcknowledge, ExecutePending, ExecuteRefused, WorkerOnly,
                handlerVars, registryVars, CommandPlacement, CommitPlacement, Busy
  <2>2. CASE ExecuteSend
    BY <1>4, <2>1, <2>2, HoldKeeps, Zenon DEF ExecuteSend, TypeOK, Outcome
  <2>3. CASE ExecuteAcknowledge
    <3>1. /\ acknowledged' \in SUBSET Request /\ acknowledged \subseteq acknowledged'
          /\ UNCHANGED committed /\ worker' = "Reply" /\ result' = "Done"
      BY <2>3, Zenon DEF ExecuteAcknowledge, Pending, TypeOK
    <3> QED BY <1>4, <2>1, <3>1, HoldKeeps, Zenon DEF Outcome
  <2>4. CASE ExecutePending
    <3>1. /\ UNCHANGED <<committed, acknowledged>> /\ worker' = "Reply"
          /\ result' = IF Pending(to[current]) = {} THEN "NoMail" ELSE "Mail"
      BY <2>4, Zenon DEF ExecutePending, storeVars
    <3>2. Pending(to[current])' = Pending(to[current])
      BY <2>1, <3>1, Zenon DEF Pending, WorkerOnly
    <3>3. acknowledged' \in SUBSET Request
      BY <3>1, Zenon DEF TypeOK
    <3> QED BY <1>4, <2>1, <3>1, <3>2, <3>3, HoldKeeps, Zenon DEF Outcome
  <2>5. CASE ExecuteRefused
    BY <1>4, <2>1, <2>5, HoldKeeps, Zenon DEF ExecuteRefused, storeVars, TypeOK, Outcome
  <2> QED BY <1>4, <2>2, <2>3, <2>4, <2>5, Zenon
<1>5. CASE Notify
  BY <1>5, NotifyKeeps, Zenon
<1>6. CASE Reply
  BY <1>6, ReplyKeeps, Zenon
<1>7. CASE Checkpoint
  <2>1. /\ worker = "Checkpoint" /\ WorkerOnly /\ worker' \in {"Stopped", "Failed"}
        /\ reply' = Cancelled(Commands) /\ queue' = <<>>
        /\ UNCHANGED <<entries, current, result, committed, acknowledged>>
    BY <1>7, Zenon DEF Checkpoint, WorkerOnly, registryVars, storeVars
  <2>2. Held = {} /\ current' = NoRequest
    BY <2>1, Zenon DEF Held, Busy, CommandPlacement
  <2>3. PICK D : D = Commands
    BY Zenon
  <2>4. /\ queue' \in Seq(Request) /\ Commands' = Commands \ D
        /\ \A i, j \in 1..Len(queue') : queue'[i] = queue'[j] => i = j
    BY <2>1, <2>3 DEF Commands
  <2> QED BY <2>1, <2>2, <2>3, <2>4, CancelKeeps, Zenon
<1> QED BY <1>1, <1>2, <1>3, <1>4, <1>5, <1>6, <1>7, Zenon
        DEF WorkerStep, ExecuteSend, ExecuteAcknowledge, ExecutePending, ExecuteRefused

\* serve() touches only its own state.
LEMMA ServeKeeps ==
  ASSUME IInv, SignalShutdown \/ ServeStep \/ ShutdownTimedOut \/ UNCHANGED vars
  PROVE  IInv'
<1> USE DEF IInv, Protocol
<1>1. UNCHANGED <<handlerVars, registryVars, queue, workerVars, storeVars>>
  BY Zenon DEF SignalShutdown, ServeStep, StopAccepting, RaiseShutdown, TakeSender, HttpDrained,
         JoinWorker, ShutdownTimedOut, ServeUnchanged, vars
<1> USE <1>1 DEF handlerVars, registryVars, workerVars, storeVars
<1>2. /\ {accepting', shutdown', sender', signal'} \subseteq BOOLEAN
      /\ serve' \in ServeStage
  BY Zenon DEF SignalShutdown, ServeStep, StopAccepting, RaiseShutdown, TakeSender, HttpDrained,
         JoinWorker, ShutdownTimedOut, ServeUnchanged, vars, serveVars, TypeOK, ServeStage
<1>3. TypeOK'
  BY <1>2, Zenon DEF TypeOK
<1>4. Commands' = Commands /\ Busy' = Busy /\ Held' = Held
  BY Zenon DEF Commands, Busy, Held
<1>5. CommandPlacement' /\ CommitPlacement' /\ RefusalIsDefinite'
  BY <1>4, Zenon DEF CommandPlacement, CommitPlacement, RefusalIsDefinite
<1>6. SubscriptionPlacement'
  BY Zenon DEF SubscriptionPlacement
<1>7. RegistryMatchesWaiters'
  BY Zenon DEF RegistryMatchesWaiters, Subscribers, InFlight
<1>8. WakeupOnItsWay'
  BY Zenon DEF WakeupOnItsWay, ToldEmpty, Pending
<1> QED BY <1>3, <1>5, <1>6, <1>7, <1>8, Zenon

\* The relay starts with the protocol in force.
LEMMA InitProtocol ==
  ASSUME Init
  PROVE  IInv
<1> USE DEF Init
<1>1. TypeOK
  <2>1. NoEntry \in [generation : Nat, registrations : Nat]
    BY Zenon DEF NoEntry
  <2>2. entries \in [Member -> [generation : Nat, registrations : Nat]]
    BY <2>1, Zenon
  <2>3. queue \in Seq(Request)
    OBVIOUS
  <2>4. /\ stage \in [Request -> Stage] /\ seen \in [Request -> Nat]
        /\ answer \in [Request -> {"None"} \cup Outcome \cup Failure]
        /\ reply \in [Request -> {"Open", "Dropped"} \cup Outcome]
    BY Zenon DEF Stage
  <2>5. worker \in WorkerStage /\ result \in Outcome /\ serve \in ServeStage
    BY Zenon DEF WorkerStage, Outcome, ServeStage
  <2>6. {accepting, shutdown, sender, signal} \subseteq BOOLEAN
    BY Zenon
  <2> QED BY <2>2, <2>3, <2>4, <2>5, <2>6, Zenon DEF TypeOK
<1>2. Commands = {} /\ ~Busy /\ Held = {}
  BY DEF Commands, Busy, Held
<1>3. CommandPlacement /\ SubscriptionPlacement
  BY <1>2 DEF CommandPlacement, SubscriptionPlacement
<1>4. RegistryMatchesWaiters
  <2>1. \A m \in Member : Subscribers(m) = {}
    BY Zenon DEF Subscribers
  <2> QED BY <2>1, FS_EmptySet, Zenon DEF RegistryMatchesWaiters, NoEntry
<1>5. WakeupOnItsWay /\ CommitPlacement /\ RefusalIsDefinite
  BY Zenon DEF WakeupOnItsWay, CommitPlacement, RefusalIsDefinite
<1> QED BY <1>1, <1>3, <1>4, <1>5, Zenon DEF IInv, Protocol

\* The protocol between handlers, channel, worker and registry is an invariant
\* of the relay, whatever the interleaving and however a handler ends.
THEOREM ProtocolHolds == Spec => [](TypeOK /\ Protocol)
<1>1. Init => IInv
  BY InitProtocol, Zenon
<1>2. IInv /\ [Next]_vars => IInv'
  <2> SUFFICES ASSUME IInv, [Next]_vars PROVE IInv'
    BY Zenon
  <2>1. CASE \E r \in Request : Arrive(r) \/ HandlerStep(r) \/ TimerStep(r)
    BY <2>1, HandlerKeeps, Zenon
  <2>2. CASE WorkerStep
    BY <2>2, WorkerKeeps, Zenon
  <2>3. CASE SignalShutdown \/ ServeStep \/ ShutdownTimedOut \/ UNCHANGED vars
    BY <2>3, ServeKeeps, Zenon
  <2> QED BY <2>1, <2>2, <2>3, Zenon DEF Next
<1>3. IInv <=> TypeOK /\ Protocol
  BY Zenon DEF IInv
<1> QED BY <1>1, <1>2, <1>3, PTL DEF Spec

\* A long poll never sleeps through a committed message.
THEOREM WakeupsAreNeverLost == Spec => []NoLostWakeup
<1>1. TypeOK /\ Protocol => NoLostWakeup
  BY Zenon DEF Protocol, NoLostWakeup, WakeupOnItsWay, SubscriptionPlacement, ToldEmpty
<1> QED BY <1>1, ProtocolHolds, PTL

\* The registry's counts are those of the live long polls.
THEOREM RegistryIsExact == Spec => []RegistryMatchesWaiters
<1>1. TypeOK /\ Protocol => RegistryMatchesWaiters
  BY Zenon DEF Protocol
<1> QED BY <1>1, ProtocolHolds, PTL

\* A request refused by the relay has sent nothing and will send nothing.
THEOREM RefusalsAreDefinite == Spec => []RefusalIsDefinite
<1>1. TypeOK /\ Protocol => RefusalIsDefinite
  BY Zenon DEF Protocol
<1> QED BY <1>1, ProtocolHolds, PTL

\* Once begin_shutdown has raised the flag, an idle worker commits nothing.
THEOREM ShutdownStopsCommits == Spec => NothingStartsAfterShutdown
<1>1. [Next]_vars => [shutdown /\ worker # "Execute" =>
                        worker' # "Execute" /\ UNCHANGED storeVars]_vars
  <2> SUFFICES ASSUME [Next]_vars, shutdown, worker # "Execute"
               PROVE  worker' # "Execute" /\ UNCHANGED storeVars
    BY Zenon
  <2>1. CASE \E r \in Request : Arrive(r) \/ HandlerStep(r) \/ TimerStep(r)
    BY <2>1, Zenon DEF Arrive, HandlerStep, TimerStep, Admit, LoadAccepting, TrySend, ReceiveReply,
                Subscribe, Changed, SawShutdown, WaitElapsed, DispatchTimeout,
                RequestDeadline, workerVars
  <2>2. CASE WorkerStep
    BY <2>2, Zenon DEF WorkerStep, Recv, CheckShutdown, Drain, ExecuteSend, ExecuteAcknowledge,
                ExecutePending, ExecuteRefused, Notify, Reply, Checkpoint
  <2>3. CASE SignalShutdown \/ ServeStep \/ ShutdownTimedOut \/ UNCHANGED vars
    BY <2>3, Zenon DEF SignalShutdown, ServeStep, StopAccepting, RaiseShutdown, TakeSender,
                HttpDrained, JoinWorker, ShutdownTimedOut, ServeUnchanged, vars, workerVars
  <2> QED BY <2>1, <2>2, <2>3, Zenon DEF Next
<1> QED BY <1>1, PTL DEF Spec, NothingStartsAfterShutdown

\* What exiting and the bound of the channel rest on: drained handlers stay
\* drained, and a worker that ended took the channel with it.
Quiescence ==
  /\ serve \in {"Joining", "Stopped", "Failed"} =>
       \A r \in Request : stage[r] \in {"Idle", "Answered"}
  /\ worker \in {"Stopped", "Failed"} => queue = <<>>
  /\ serve = "Stopped" => worker = "Stopped"
  /\ Len(queue) <= QueueCapacity

\* A handler acts only before it is drained, and sends only to a live worker.
LEMMA HandlerKeepsQuiescence ==
  ASSUME TypeOK, Quiescence, NEW r \in Request, Arrive(r) \/ HandlerStep(r) \/ TimerStep(r)
  PROVE  Quiescence'
<1> USE LimitAssumption
<1>1. /\ serve \notin {"Joining", "Stopped", "Failed"}
      /\ serve' = serve /\ worker' = worker
  BY Zenon DEF Quiescence, Arrive, HandlerStep, TimerStep, Admit, LoadAccepting, TrySend,
         ReceiveReply, Subscribe, Changed, SawShutdown, WaitElapsed, DispatchTimeout,
         RequestDeadline, workerVars, serveVars
<1>2. CASE queue' = queue
  BY <1>1, <1>2, Zenon DEF Quiescence
<1>3. CASE queue' # queue
  <2>1. queue' = Append(queue, r) /\ Connected /\ Len(queue) < QueueCapacity
    BY <1>3, Zenon DEF Arrive, HandlerStep, TimerStep, Admit, LoadAccepting, TrySend,
         ReceiveReply, Subscribe, Changed, SawShutdown, WaitElapsed, DispatchTimeout,
         RequestDeadline
  <2>2. Len(queue') <= QueueCapacity
    BY <2>1 DEF TypeOK
  <2> QED BY <1>1, <2>1, <2>2, Zenon DEF Quiescence, Connected
<1> QED BY <1>2, <1>3, Zenon

\* The worker only shortens the channel and ends with an empty one.
LEMMA WorkerKeepsQuiescence ==
  ASSUME TypeOK, Quiescence, WorkerStep
  PROVE  Quiescence'
<1> USE LimitAssumption
<1>1. serve' = serve /\ stage' = stage /\ worker \notin {"Stopped", "Failed"}
  BY Zenon DEF WorkerStep, Recv, CheckShutdown, Drain, ExecuteSend, ExecuteAcknowledge,
         ExecutePending, ExecuteRefused, Notify, Reply, Checkpoint, handlerVars, serveVars
<1>2. worker' \in {"Stopped", "Failed"} => queue' = <<>>
  BY Zenon DEF WorkerStep, Recv, CheckShutdown, Drain, ExecuteSend, ExecuteAcknowledge,
         ExecutePending, ExecuteRefused, Notify, Reply, Checkpoint
<1>3. \/ queue' = queue
      \/ queue # <<>> /\ queue' = Tail(queue)
      \/ queue' = <<>>
  BY Zenon DEF WorkerStep, Recv, CheckShutdown, Drain, ExecuteSend, ExecuteAcknowledge,
         ExecutePending, ExecuteRefused, Notify, Reply, Checkpoint
<1>4. Len(queue') <= QueueCapacity
  BY <1>3 DEF TypeOK, Quiescence
<1> QED BY <1>1, <1>2, <1>4, Zenon DEF Quiescence

\* serve() joins a worker that ended, after the handlers are gone.
LEMMA ServeKeepsQuiescence ==
  ASSUME TypeOK, Quiescence,
         SignalShutdown \/ ServeStep \/ ShutdownTimedOut \/ UNCHANGED vars
  PROVE  Quiescence'
<1>1. queue' = queue /\ stage' = stage /\ worker' = worker
  BY Zenon DEF SignalShutdown, ServeStep, StopAccepting, RaiseShutdown, TakeSender,
         HttpDrained, JoinWorker, ShutdownTimedOut, ServeUnchanged, vars, workerVars,
         handlerVars
<1>2. \/ serve' = serve
      \/ serve' \in {"Flagging", "Taking", "Draining", "TimedOut"}
      \/ serve' = "Joining" /\ \A r \in Request : stage[r] \in {"Idle", "Answered"}
      \/ serve = "Joining" /\ serve' = worker /\ worker \in {"Stopped", "Failed"}
  BY Zenon DEF SignalShutdown, ServeStep, StopAccepting, RaiseShutdown, TakeSender,
         HttpDrained, JoinWorker, ShutdownTimedOut, vars, serveVars
<1> QED BY <1>1, <1>2, Zenon DEF Quiescence

\* Exiting cleanly and the channel's bound rest on it.
LEMMA QuiescenceHolds == Spec => []Quiescence
<1>1. Init => Quiescence
  BY LimitAssumption DEF Init, Quiescence
<1>2. TypeOK /\ Quiescence /\ [Next]_vars => Quiescence'
  BY HandlerKeepsQuiescence, WorkerKeepsQuiescence, ServeKeepsQuiescence, Zenon DEF Next
<1> QED BY <1>1, <1>2, ProtocolHolds, PTL DEF Spec

\* When serve() returns Ok, the worker has checkpointed, the channel is empty
\* and no handler waits for an answer.
THEOREM ExitIsClean == Spec => []CleanExit
<1>1. Quiescence => CleanExit
  BY Zenon DEF Quiescence, CleanExit
<1> QED BY <1>1, QuiescenceHolds, PTL

\* The channel keeps its capacity and holds at most one command of a request.
THEOREM OneCommandAtATime == Spec => []OneCommandPerRequest
<1>1. TypeOK /\ Protocol /\ Quiescence => OneCommandPerRequest
  BY RequestAssumption DEF Protocol, CommandPlacement, Quiescence, OneCommandPerRequest, TypeOK, Commands
<1> QED BY <1>1, ProtocolHolds, QuiescenceHolds, PTL

\* Of any number of long polls, none sleeps on mail it was to be woken by, and
\* the registry lists exactly the ones that wait.
THEOREM WaitersAreAlwaysServed == Spec => []WaitersAreServed
<1>1. NoLostWakeup /\ RegistryMatchesWaiters => WaitersAreServed
  BY Zenon DEF WaitersAreServed
<1> QED BY <1>1, WakeupsAreNeverLost, RegistryIsExact, PTL

=============================================================================
