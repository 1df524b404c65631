------------------------------- MODULE Ledger -------------------------------
(***************************************************************************)
(* The send ledger: one entry per prepared send, in flight or finished,    *)
(* bounded in number and bytes; finished entries make room for new ones.   *)
(* A leave stops and drains it and may reopen it, a shutdown closes it for *)
(* good.  A section under the ledger's mutex is one step, split where an   *)
(* atomic it reads is written without the mutex.                           *)
(***************************************************************************)
EXTENDS Naturals, Sequences, FiniteSetsExt

CONSTANTS Sender,      \* callers of send_prepared
          Id,          \* prepared sends
          Size,        \* bytes reserved for each
          MaxSends,    \* MAX_OWNED_SENDS
          MaxBytes,    \* MAX_OWNED_SEND_BYTES
          Leaver, Closer, Free,
          MaxRequests  \* bound on requests to the relay

ASSUME SizeAssumption == Size \in [Id -> Nat \ {0}]
ASSUME RolesAssumption ==
  Leaver # Closer /\ {Leaver, Closer, Free} \cap Sender = {} /\ Free \notin {Leaver, Closer}
ASSUME LimitsAssumption == {MaxSends, MaxBytes, MaxRequests} \subseteq Nat \ {0}

VARIABLES
  entries,    \* the identities that have an entry
  finished,   \* those whose entry has its terminal result
  fifo,       \* terminal_fifo
  bytes,      \* retained_bytes
  inflight,
  accepting, admission, closed,
  lock,       \* whose section is split; Free: nobody's
  flights,    \* how many owned tasks run for an identity
  requests,   \* how many have been started
  pc, asks,   \* callers: where they are, and for which identity
  answer,     \* callers whose entry has its result
  wake,       \* callers and drainers whose notified() has fired
  stopped     \* the closing drain has succeeded

ledgerVars == <<entries, finished, fifo, bytes, inflight>>
flagVars == <<accepting, admission, closed, lock>>
waitVars == <<answer, wake, stopped>>
vars == <<ledgerVars, flagVars, waitVars, flights, requests, pc, asks>>

Drainer == {Leaver, Closer}

Init ==
  /\ entries = {} /\ finished = {} /\ fifo = <<>> /\ bytes = 0 /\ inflight = 0
  /\ accepting = TRUE /\ admission = TRUE /\ closed = FALSE /\ lock = Free
  /\ flights = [i \in Id |-> 0] /\ requests = 0
  /\ pc = [p \in Sender \cup Drainer |-> "Idle"]
  /\ asks = [c \in Sender |-> Free]
  /\ answer = {} /\ wake = {} /\ stopped = FALSE

Step(p, from, to) == pc[p] = from /\ pc' = [pc EXCEPT ![p] = to]

\* A caller moves; one that returns has no identity to ask for.
Go(c, from, to) ==
  /\ Step(c, from, to)
  /\ asks' = IF to = "Idle" THEN [asks EXCEPT ![c] = Free] ELSE asks

-----------------------------------------------------------------------------
(* reserve() *)

\* The unlocked look; a new send is begun while MaxRequests allows it.
Present(c, i) ==
  /\ ~closed /\ admission
  /\ requests + Cardinality({s \in Sender : pc[s] \in {"Reserve", "Admit"}}) < MaxRequests
  /\ Step(c, "Idle", "Reserve")
  /\ asks' = [asks EXCEPT ![c] = i]
  /\ UNCHANGED <<ledgerVars, flagVars, waitVars, flights, requests>>

ReserveLooks(c) ==
  /\ lock = Free
  /\ IF closed THEN Go(c, "Reserve", "Idle") /\ UNCHANGED lock
     ELSE Go(c, "Reserve", "Admit") /\ lock' = c
  /\ UNCHANGED <<ledgerVars, accepting, admission, closed, waitVars, flights, requests>>

Full(n, b, i) == n >= MaxSends \/ b + Size[i] > MaxBytes

\* What is left after evicting the k oldest finished entries.
Evicted(k) == {fifo[j] : j \in 1..k}
BytesWithout(k) == bytes - MapThenSumSet(LAMBDA i : Size[i], Evicted(k))

\* The loop evicts from the front until there is room or nothing finished.
Evictions(i) ==
  LET enough(k) == ~Full(Cardinality(entries) - k, BytesWithout(k), i) IN
  IF \E k \in 0..Len(fifo) : enough(k) THEN Min({k \in 0..Len(fifo) : enough(k)}) ELSE Len(fifo)

\* The caller holds the mutex and has seen the ledger not closed.
Existing(c) ==
  /\ pc[c] = "Admit" /\ accepting /\ admission /\ asks[c] \in entries
  /\ Go(c, "Admit", "Check")
  /\ answer' = IF asks[c] \in finished THEN answer \cup {c} ELSE answer
  /\ wake' = wake \ {c}
  /\ lock' = Free
  /\ UNCHANGED <<ledgerVars, accepting, admission, closed, stopped, flights, requests>>

\* A new entry and its owned task, or SendCapacity after the evictions.
New(c) ==
  LET i == asks[c]
      k == Evictions(i)
      keep == entries \ Evicted(k)
      left == BytesWithout(k) IN
  /\ pc[c] = "Admit" /\ accepting /\ admission /\ i \notin entries
  /\ finished' = finished \ Evicted(k)
  /\ fifo' = SubSeq(fifo, k + 1, Len(fifo))
  /\ IF Full(Cardinality(keep), left, i)
     THEN /\ Go(c, "Admit", "Idle")
          /\ entries' = keep /\ bytes' = left
          /\ UNCHANGED <<inflight, flights, requests>>
     ELSE /\ Go(c, "Admit", "Check")
          /\ entries' = keep \cup {i} /\ bytes' = left + Size[i]
          /\ inflight' = inflight + 1
          /\ flights' = [flights EXCEPT ![i] = @ + 1]
          /\ requests' = requests + 1
  /\ wake' = wake \ {c}
  /\ lock' = Free
  /\ UNCHANGED <<accepting, admission, closed, answer, stopped>>

Refused(c) ==
  /\ ~accepting \/ ~admission
  /\ Go(c, "Admit", "Idle")
  /\ lock' = Free
  /\ UNCHANGED <<ledgerVars, accepting, admission, closed, waitVars, flights, requests>>

-----------------------------------------------------------------------------
(* await_send() and finish() *)

Await(c) ==
  /\ IF c \in answer THEN Go(c, "Check", "Idle") ELSE Go(c, "Check", "Wait")
  /\ answer' = answer \ {c}
  /\ UNCHANGED <<ledgerVars, flagVars, wake, stopped, flights, requests>>

Woken(c) ==
  /\ c \in wake
  /\ Go(c, "Wait", "Check")
  /\ wake' = wake \ {c}
  /\ UNCHANGED <<ledgerVars, flagVars, answer, stopped, flights, requests>>

\* The caller drops its future; the owned task goes on.
CallerDrops(c) ==
  /\ pc[c] \in {"Check", "Wait"}
  /\ Go(c, pc[c], "Idle")
  /\ answer' = answer \ {c} /\ wake' = wake \ {c}
  /\ UNCHANGED <<ledgerVars, flagVars, stopped, flights, requests>>

WaitersOf(i) == {c \in Sender : asks[c] = i /\ pc[c] \in {"Check", "Wait"}}

\* Faulty: an entry too small for its result is forgotten with its bytes.
FinishLeaking(i) ==
  /\ lock = Free /\ flights[i] > 0
  /\ flights' = [flights EXCEPT ![i] = @ - 1]
  /\ inflight' = inflight - 1
  /\ \/ finished' = finished \cup {i} /\ fifo' = Append(fifo, i) /\ UNCHANGED entries
     \/ entries' = entries \ {i} /\ UNCHANGED <<finished, fifo>>
  /\ answer' = answer \cup WaitersOf(i)
  /\ wake' = wake \cup WaitersOf(i)
  /\ UNCHANGED <<flagVars, bytes, stopped, requests, pc, asks>>

\* Faulty: only the callers waiting for a result that is retained are told.
FinishQuietly(i) ==
  /\ lock = Free /\ flights[i] > 0
  /\ flights' = [flights EXCEPT ![i] = @ - 1]
  /\ inflight' = inflight - 1
  /\ \/ /\ finished' = finished \cup {i} /\ fifo' = Append(fifo, i)
        /\ wake' = wake \cup WaitersOf(i)
        /\ UNCHANGED <<entries, bytes>>
     \/ /\ entries' = entries \ {i} /\ bytes' = bytes - Size[i]
        /\ UNCHANGED <<finished, fifo, wake>>
  /\ answer' = answer \cup WaitersOf(i)
  /\ UNCHANGED <<flagVars, stopped, requests, pc, asks>>

\* The result is retained if it fits what was reserved; otherwise the entry
\* goes.  Whoever holds the entry learns it either way; the last one in flight
\* also wakes the drainers.
Finish(i) ==
  /\ lock = Free /\ flights[i] > 0
  /\ flights' = [flights EXCEPT ![i] = @ - 1]
  /\ inflight' = inflight - 1
  /\ \/ finished' = finished \cup {i} /\ fifo' = Append(fifo, i) /\ UNCHANGED <<entries, bytes>>
     \/ entries' = entries \ {i} /\ bytes' = bytes - Size[i] /\ UNCHANGED <<finished, fifo>>
  /\ answer' = answer \cup WaitersOf(i)
  /\ wake' = wake \cup WaitersOf(i)
                  \cup {d \in Drainer : inflight = 1 /\ pc[d] \in {"Check", "Wait"}}
  /\ UNCHANGED <<flagVars, stopped, requests, pc, asks>>

-----------------------------------------------------------------------------
(* stop_and_drain(), close_permanently() and reopen_admission() *)

\* close_permanently(): the flag, then stop_admission().
Close ==
  /\ Step(Closer, "Idle", "Closing")
  /\ closed' = TRUE
  /\ UNCHANGED <<ledgerVars, accepting, admission, lock, waitVars, flights, requests, asks>>

StopAdmission(d) ==
  /\ Step(d, IF d = Closer THEN "Closing" ELSE "Idle", "Stop")
  /\ admission' = FALSE
  /\ UNCHANGED <<ledgerVars, accepting, closed, lock, waitVars, flights, requests, asks>>

StopAccepting(d) ==
  /\ lock = Free
  /\ accepting' = FALSE
  /\ Step(d, "Stop", IF inflight = 0 THEN "Drained" ELSE "Arm")
  /\ stopped' = (stopped \/ (d = Closer /\ inflight = 0))
  /\ UNCHANGED <<ledgerVars, admission, closed, lock, answer, wake, flights, requests, asks>>

Arm(d) ==
  /\ Step(d, "Arm", "Check")
  /\ wake' = wake \ {d}
  /\ UNCHANGED <<ledgerVars, flagVars, answer, stopped, flights, requests, asks>>

\* Faulty: the counter is not looked at again.
DrainOnce(d) ==
  /\ lock = Free
  /\ Step(d, "Check", "Drained")
  /\ stopped' = (stopped \/ d = Closer)
  /\ UNCHANGED <<ledgerVars, flagVars, answer, wake, flights, requests, asks>>

Drain(d) ==
  /\ lock = Free
  /\ Step(d, "Check", IF inflight = 0 THEN "Drained" ELSE "Wait")
  /\ stopped' = (stopped \/ (d = Closer /\ inflight = 0))
  /\ UNCHANGED <<ledgerVars, flagVars, answer, wake, flights, requests, asks>>

DrainWoken(d) ==
  /\ d \in wake
  /\ Step(d, "Wait", "Arm")
  /\ UNCHANGED <<ledgerVars, flagVars, waitVars, flights, requests, asks>>

\* The leave is rolled back, its drain done or timed out.
ReopenLooks ==
  /\ lock = Free
  /\ pc[Leaver] \in {"Drained", "Arm", "Check", "Wait"}
  /\ IF closed THEN pc' = [pc EXCEPT ![Leaver] = "Idle"] /\ UNCHANGED lock
     ELSE pc' = [pc EXCEPT ![Leaver] = "Reopen"] /\ lock' = Leaver
  /\ UNCHANGED <<ledgerVars, accepting, admission, closed, waitVars, flights, requests, asks>>

Reopen ==
  /\ Step(Leaver, "Reopen", "Recheck")
  /\ accepting' = TRUE /\ admission' = TRUE
  /\ UNCHANGED <<ledgerVars, closed, lock, waitVars, flights, requests, asks>>

Recheck ==
  /\ Step(Leaver, "Recheck", "Idle")
  /\ admission' = (admission /\ ~closed)
  /\ lock' = Free
  /\ UNCHANGED <<ledgerVars, accepting, closed, waitVars, flights, requests, asks>>

Ends(d) == pc[d] = "Drained" /\ UNCHANGED vars

-----------------------------------------------------------------------------
Reserving(c) == ReserveLooks(c) \/ Existing(c) \/ New(c) \/ Refused(c)
Awaiting(c) == Await(c) \/ Woken(c)
Draining(d) == StopAccepting(d) \/ Arm(d) \/ Drain(d) \/ DrainWoken(d)

Next ==
  \/ \E c \in Sender : \/ \E i \in Id : Present(c, i)
                       \/ Reserving(c) \/ Awaiting(c) \/ CallerDrops(c)
  \/ \E i \in Id : Finish(i)
  \/ \E d \in Drainer : StopAdmission(d) \/ Draining(d) \/ Ends(d)
  \/ Close \/ ReopenLooks \/ Reopen \/ Recheck

Spec == Init /\ [][Next]_vars

\* Requests are bounded in time, so one of those in flight ends, and tasks are
\* polled: a caller, a drainer or a rollback that can go on does.
Fairness ==
  /\ SF_vars(\E i \in Id : Finish(i))
  /\ \A c \in Sender : WF_vars(Awaiting(c) \/ Existing(c) \/ New(c) \/ Refused(c))
  /\ SF_vars(Draining(Leaver))
  /\ SF_vars(StopAdmission(Closer) \/ Draining(Closer))
  /\ WF_vars(Reopen \/ Recheck)

FairSpec == Spec /\ Fairness

-----------------------------------------------------------------------------
\* An entry in flight is never evicted: an identity has at most one request
\* under way, the ledger knows of it, and the counter that leave and shutdown
\* wait for counts exactly these.
FlightsAreOwned ==
  /\ \A i \in Id : flights[i] = IF i \in entries \ finished THEN 1 ELSE 0
  /\ inflight = Cardinality(entries \ finished)

\* The accounts are exact and within the limits, through evictions and results
\* that do not fit; what may be evicted is what has finished, once each.
AccountsAreExact ==
  /\ bytes = MapThenSumSet(LAMBDA i : Size[i], entries)
  /\ bytes <= MaxBytes /\ Cardinality(entries) <= MaxSends
  /\ Evicted(Len(fifo)) = finished /\ Len(fifo) = Cardinality(finished)
  /\ finished \subseteq entries

\* A ledger that has nothing in flight has room for any send that fits at all:
\* finished entries never cause SendCapacity.
IdleHasRoom ==
  inflight = 0 => \A i \in Id \ entries : Size[i] <= MaxBytes =>
    LET k == Evictions(i) IN ~Full(Cardinality(entries) - k, BytesWithout(k), i)

\* "Owned send operations ... drain before leave": until it is rolled back, a
\* leave that has drained runs beside no send.
LeaveSeesNone == pc[Leaver] = "Drained" => \A i \in Id : flights[i] = 0

Shut == closed /\ pc[Closer] # "Closing"

Gate == INSTANCE Admission WITH
  Work <- Id, admitted <- {i \in Id : flights[i] > 0}, closed <- Shut, drained <- stopped,
  open <- accepting /\ admission /\ ~Shut

\* The ledger is an admission gate: what a rolled-back leave reopens while a
\* shutdown closes stays closed, and after the shutdown's drain no send runs.
IsAdmissionGate == Gate!Spec

\* A closed ledger ends with its admission flag down, whoever stored last.
ClosedStaysDown ==
  (closed /\ pc[Closer] = "Drained" /\ lock = Free) => ~admission

\* A caller that awaits an entry gets its result, retained or not.
WaitersAreAnswered == \A c \in Sender : pc[c] = "Wait" ~> pc[c] # "Wait"

\* Shutdown's drain ends when the last send does.
CloserDrains == pc[Closer] = "Closing" ~> pc[Closer] = "Drained"

\* What holds of the ledger at every moment.
LedgerInvariant ==
  /\ FlightsAreOwned /\ AccountsAreExact /\ IdleHasRoom /\ LeaveSeesNone /\ ClosedStaysDown
=============================================================================
