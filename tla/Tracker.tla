------------------------------ MODULE Tracker ------------------------------
(***************************************************************************)
(* The report tracker: availability reports register, a leave cancels and  *)
(* drains them and may reopen, a shutdown closes for good and drains.  The *)
(* tracker's std mutex protects the token only; the counter and the        *)
(* closed flag are atomics, so what one side does between two accesses the *)
(* other can see.                                                          *)
(***************************************************************************)
EXTENDS Naturals, FiniteSets

CONSTANTS Reporter,    \* tasks that report
          Leaver,      \* leave(), one at a time under the operation gate
          Closer,      \* shutdown()
          Free,        \* nobody has the mutex
          MaxReports   \* MAX_ACTIVE_REPORTS

RolesAssumption ==
  Leaver # Closer /\ {Leaver, Closer, Free} \cap Reporter = {} /\ Free \notin {Leaver, Closer}
MaxReportsAssumption == MaxReports \in Nat \ {0}

Drainer == {Leaver, Closer}

VARIABLES active, cancelled, closed, lock, pc, wake, stopped

vars == <<active, cancelled, closed, lock, pc, wake, stopped>>

\* active counts registrations; cancelled is the current token's state; wake
\* holds the drainers whose notified() has been fired; stopped records how the
\* closing drain ended.
Init ==
  /\ active = 0 /\ cancelled = FALSE /\ closed = FALSE
  /\ lock = Free
  /\ pc = [p \in Reporter \cup Drainer |-> "Idle"]
  /\ wake = {} /\ stopped = FALSE

Step(p, from, to) == pc[p] = from /\ pc' = [pc EXCEPT ![p] = to]

-----------------------------------------------------------------------------
\* register(): under the mutex, the flag and the token, then the counter.
RegisterLooks(r) ==
  /\ lock = Free
  /\ IF closed \/ cancelled THEN Step(r, "Idle", "Idle") /\ UNCHANGED lock
     ELSE Step(r, "Idle", "Count") /\ lock' = r
  /\ UNCHANGED <<active, cancelled, closed, wake, stopped>>

RegisterCounts(r) ==
  /\ IF active >= MaxReports THEN Step(r, "Count", "Idle") /\ UNCHANGED active
     ELSE Step(r, "Count", "Active") /\ active' = active + 1
  /\ lock' = Free
  /\ UNCHANGED <<cancelled, closed, wake, stopped>>

\* finish(): the last one notifies whoever is waiting by then.
Finish(r) ==
  /\ Step(r, "Active", IF active = 1 THEN "Notify" ELSE "Idle")
  /\ active' = active - 1
  /\ UNCHANGED <<cancelled, closed, lock, wake, stopped>>

Notify(r) ==
  /\ Step(r, "Notify", "Idle")
  /\ wake' = wake \cup {d \in Drainer : pc[d] \in {"Check", "Poll", "Wait"}}
  /\ UNCHANGED <<active, cancelled, closed, lock, stopped>>

-----------------------------------------------------------------------------
Cancel(d) ==
  /\ lock = Free
  /\ Step(d, IF d = Closer THEN "Closing" ELSE "Idle", "Arm")
  /\ cancelled' = TRUE
  /\ UNCHANGED <<active, closed, lock, wake, stopped>>

\* close_permanently(): the flag first, then the token.
ClosePermanently ==
  /\ Step(Closer, "Idle", "Closing")
  /\ closed' = TRUE
  /\ UNCHANGED <<active, cancelled, lock, wake, stopped>>

\* drain(): notified() is created, then the counter looked at, then awaited;
\* the last report may end between any two of these.
Arm(d) ==
  /\ Step(d, "Arm", "Check")
  /\ wake' = wake \ {d}
  /\ UNCHANGED <<active, cancelled, closed, lock, stopped>>

Check(d) ==
  /\ IF active = 0 THEN Step(d, "Check", "Drained") ELSE Step(d, "Check", "Poll")
  /\ stopped' = (stopped \/ (d = Closer /\ active = 0))
  /\ UNCHANGED <<active, cancelled, closed, lock, wake>>

Poll(d) ==
  /\ Step(d, "Poll", "Wait")
  /\ UNCHANGED <<active, cancelled, closed, lock, wake, stopped>>

Woken(d) ==
  /\ d \in wake
  /\ Step(d, "Wait", "Arm")
  /\ UNCHANGED <<active, cancelled, closed, lock, wake, stopped>>

\* A leave that has drained and fails, or whose drain times out, reopens.
ReopenLooks ==
  /\ lock = Free
  /\ pc[Leaver] \in {"Drained", "Check", "Poll", "Wait", "Arm"}
  /\ IF closed THEN pc' = [pc EXCEPT ![Leaver] = "Idle"] /\ UNCHANGED lock
     ELSE pc' = [pc EXCEPT ![Leaver] = "Reopen"] /\ lock' = Leaver
  /\ UNCHANGED <<active, cancelled, closed, wake, stopped>>

Reopen ==
  /\ Step(Leaver, "Reopen", "Idle")
  /\ cancelled' = FALSE
  /\ lock' = Free
  /\ UNCHANGED <<active, closed, wake, stopped>>

\* A leave that succeeds, and a shutdown, end with the tracker as it is.
Ends(d) == pc[d] = "Drained" /\ UNCHANGED vars

Draining(d) == Arm(d) \/ Check(d) \/ Poll(d) \/ Woken(d)
Reporting(r) == RegisterCounts(r) \/ Finish(r) \/ Notify(r)

Next ==
  \/ \E r \in Reporter : RegisterLooks(r) \/ Reporting(r)
  \/ \E d \in Drainer : Cancel(d) \/ Draining(d) \/ Ends(d)
  \/ ClosePermanently \/ ReopenLooks \/ Reopen

Spec == Init /\ [][Next]_vars

\* Reports end (their requests are bounded) and drains are polled.
Fairness ==
  /\ \A r \in Reporter : WF_vars(Reporting(r))
  /\ \A d \in Drainer : WF_vars(Draining(d))
  /\ SF_vars(Cancel(Closer)) /\ WF_vars(Reopen)

FairSpec == Spec /\ Fairness

-----------------------------------------------------------------------------
Counted == {r \in Reporter : pc[r] = "Active"}

\* MAX_ACTIVE_REPORTS is never exceeded, and the counter that drains trust is
\* the number of reports that run.
CountIsExact == active = Cardinality(Counted) /\ active <= MaxReports

\* A leave that has drained, and until it reopens, runs beside no report.
LeaveSeesNone == pc[Leaver] = "Drained" => Counted = {}

\* close_permanently() has returned.
Shut == closed /\ pc[Closer] # "Closing"

Gate == INSTANCE Admission WITH
  Work <- Reporter, admitted <- Counted, closed <- Shut, drained <- stopped,
  open <- ~cancelled /\ ~Shut

\* The tracker is an admission gate: what a leave reopens while a shutdown
\* closes stays closed, and after the shutdown's drain no report runs.
IsAdmissionGate == Gate!Spec

\* drain() does not miss the last report's notification.
CloserDrains == pc[Closer] = "Closing" ~> pc[Closer] = "Drained"

\* What holds of the tracker at every moment.
TrackerInvariant == CountIsExact /\ LeaveSeesNone
=============================================================================
