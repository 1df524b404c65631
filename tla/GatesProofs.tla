---------------------------- MODULE GatesProofs ----------------------------
(***************************************************************************)
(* The send ledger and the report tracker are admission gates, for any     *)
(* number of senders, sends, reporters and limits: once closed they admit  *)
(* nothing, whatever a leave that is rolled back reopens in between, and a *)
(* drain that succeeds after that is final.                                *)
(***************************************************************************)
EXTENDS MCGates, FiniteSetTheorems, TLAPS

-----------------------------------------------------------------------------
(* The inductive invariants. *)

\* Where the tracker's callers can be.
ReporterPlace == {"Idle", "Count", "Active", "Notify"}
LeaverPlace == {"Idle", "Arm", "Check", "Poll", "Wait", "Drained", "Reopen"}
CloserPlace == {"Idle", "Closing", "Arm", "Check", "Poll", "Wait", "Drained"}
TrackerPlace == {"Idle", "Count", "Active", "Notify", "Arm", "Check", "Poll", "Wait", "Drained",
                 "Reopen", "Closing"}

\* The tracker's variables are well formed, and its mutex belongs to the
\* caller that is between two looks.
TrackerFits ==
  /\ active \in Nat /\ cancelled \in BOOLEAN /\ closedT \in BOOLEAN /\ stoppedT \in BOOLEAN
  /\ lockT \in Reporter \cup {Leaver, Free}
  /\ pcT \in [Reporter \cup {Leaver, Closer} -> TrackerPlace]
  /\ \A r \in Reporter : pcT[r] \in ReporterPlace /\ (pcT[r] = "Count" <=> lockT = r)
  /\ pcT[Leaver] \in LeaverPlace /\ (pcT[Leaver] = "Reopen" <=> lockT = Leaver)
  /\ pcT[Closer] \in CloserPlace /\ (pcT[Closer] = "Idle" <=> ~closedT)

\* Nobody registers once the token is cancelled, and it stays cancelled while
\* a leave drains and after close_permanently has returned.
TrackerHolds ==
  /\ cancelled => lockT \notin Reporter
  /\ pcT[Leaver] # "Idle" => cancelled
  /\ T!Shut => cancelled /\ lockT = Free
  /\ pcT[Leaver] = "Drained" => T!Counted = {}
  /\ stoppedT => T!Shut /\ T!Counted = {}

\* The counter is the number of reports that run.
TrackerCounts == IsFiniteSet(T!Counted) /\ T!CountIsExact

TrackerSound == T!RolesAssumption /\ T!MaxReportsAssumption
                /\ TrackerFits /\ TrackerHolds /\ TrackerCounts

\* Where the ledger's callers can be.
SenderPlace == {"Idle", "Reserve", "Admit", "Check", "Wait"}
StopperPlace == {"Idle", "Stop", "Arm", "Check", "Wait", "Drained", "Reopen", "Recheck"}
ShutterPlace == {"Idle", "Closing", "Stop", "Arm", "Check", "Wait", "Drained"}

LedgerPlace == SenderPlace \cup StopperPlace \cup ShutterPlace

\* The ledger's variables are well formed, and a split section belongs to the
\* caller that is inside it.
LedgerFits ==
  /\ accepting \in BOOLEAN /\ admission \in BOOLEAN /\ closed \in BOOLEAN /\ stopped \in BOOLEAN
  /\ lock \in Sender \cup {Leaver, Free}
  /\ pc \in [Sender \cup {Leaver, Closer} -> LedgerPlace] /\ asks \in [Sender -> Id \cup {Free}]
  /\ \A c \in Sender : /\ pc[c] \in SenderPlace /\ (pc[c] = "Admit" <=> lock = c)
                       /\ pc[c] # "Idle" => asks[c] \in Id
  /\ pc[Leaver] \in StopperPlace /\ (pc[Leaver] \in {"Reopen", "Recheck"} <=> lock = Leaver)
  /\ pc[Closer] \in ShutterPlace /\ (pc[Closer] = "Idle" <=> ~closed)

\* What terminal_fifo lists has finished, once each and all of it; and
\* everything else has its one owned task.
LedgerEntries ==
  /\ entries \subseteq Id /\ finished \subseteq entries /\ IsFiniteSet(entries)
  /\ Cardinality(entries) <= MaxSends
  /\ fifo \in Seq(Id)
  /\ \A j \in 1..Len(fifo) : fifo[j] \in finished
  /\ \A i \in finished : \E j \in 1..Len(fifo) : fifo[j] = i
  /\ \A j, l \in 1..Len(fifo) : fifo[j] = fifo[l] => j = l
  /\ flights \in [Id -> Nat] /\ inflight \in Nat
  /\ FlightsAreOwned

\* Nothing is admitted after close_permanently has returned, also while a
\* leave that reopens has yet to look at the flag again.
LedgerHolds ==
  /\ Shut => ~admission \/ pc[Leaver] = "Recheck"
  /\ pc[Leaver] \in {"Arm", "Check", "Wait", "Drained"} => ~accepting
  /\ LeaveSeesNone
  /\ stopped => Shut /\ \A i \in Id : flights[i] = 0

LedgerSound == LedgerFits /\ LedgerEntries /\ LedgerHolds

-----------------------------------------------------------------------------
(* The library's operator, as the instance names it. *)

\* The number of elements is the same number everywhere.
LEMMA SameCardinality == \A S : T!Cardinality(S) = Cardinality(S)
BY Zenon DEF T!Cardinality, Cardinality

-----------------------------------------------------------------------------
(* The tracker. *)

\* A new tracker is sound.
LEMMA TrackerInit == T!Init => TrackerSound
<1> SUFFICES ASSUME T!Init PROVE TrackerSound
  BY Zenon
<1>1. T!RolesAssumption /\ T!MaxReportsAssumption
  BY TrackerAssumption, Zenon
<1>2. T!Counted = {}
  BY Zenon DEF T!Init, T!Counted, T!Drainer
<1>3. TrackerFits
  <2>1. pcT = [p \in Reporter \cup {Leaver, Closer} |-> "Idle"]
    BY Zenon DEF T!Init, T!Drainer
  <2>2. /\ pcT \in [Reporter \cup {Leaver, Closer} -> TrackerPlace]
        /\ \A p \in Reporter \cup {Leaver, Closer} : pcT[p] = "Idle"
    BY <2>1, Zenon DEF TrackerPlace
  <2> QED BY <1>1, <2>2, Zenon DEF T!Init, T!RolesAssumption, TrackerFits, ReporterPlace, LeaverPlace,
                            CloserPlace
<1>4. TrackerHolds
  BY <1>1, <1>2, Zenon DEF T!Init, T!Drainer, T!RolesAssumption, TrackerHolds, T!Shut
<1>5. TrackerCounts
  <2>1. active = 0 /\ IsFiniteSet({}) /\ Cardinality({}) = 0
    BY FS_EmptySet, Zenon DEF T!Init
  <2> QED BY <1>1, <1>2, <2>1, SameCardinality
          DEF TrackerCounts, T!CountIsExact, T!MaxReportsAssumption
<1> QED BY <1>1, <1>3, <1>4, <1>5, Zenon DEF TrackerSound

\* Who moves, where to, and that nobody else does.
TrackerMoves(p, s) ==
  /\ pcT' \in [Reporter \cup {Leaver, Closer} -> TrackerPlace]
  /\ pcT'[p] = s
  /\ \A q \in Reporter \cup {Leaver, Closer} : q # p => pcT'[q] = pcT[q]

LEMMA TrackerStep ==
  ASSUME TrackerSound, NEW p \in Reporter \cup {Leaver, Closer}, NEW s \in TrackerPlace,
         pcT' = [pcT EXCEPT ![p] = s]
  PROVE  TrackerMoves(p, s)
BY Zenon DEF TrackerSound, TrackerFits, TrackerMoves

\* The roles are different, and the limit is a number.
TrackerRoles ==
  /\ Leaver # Closer /\ Free # Leaver /\ Free # Closer
  /\ \A r \in Reporter : r # Free /\ r # Leaver /\ r # Closer
  /\ MaxReports \in Nat \ {0}

LEMMA TrackerRolesHold == TrackerRoles
BY TrackerAssumption, Zenon DEF T!RolesAssumption, T!MaxReportsAssumption, TrackerRoles

\* A step that moves no report keeps the counter.
LEMMA TrackerCountsSame ==
  ASSUME TrackerSound, T!Counted' = T!Counted, UNCHANGED active
  PROVE  TrackerCounts'
BY Zenon DEF TrackerSound, TrackerCounts, T!CountIsExact

\* What a step of the tracker has to keep, and to be.
TrackerKeeps == TrackerFits' /\ TrackerHolds' /\ TrackerCounts' /\ [T!Gate!Next]_(T!Gate!gateVars)

\* register(): the look at the flag and at the token.
LEMMA RegisterLooksKeeps ==
  ASSUME TrackerSound, NEW r \in Reporter, T!RegisterLooks(r) PROVE TrackerKeeps
<1>1. PICK s \in {"Idle", "Count"} :
        /\ TrackerMoves(r, s) /\ pcT[r] = "Idle" /\ lockT = Free
        /\ s = "Idle" => lockT' = lockT
        /\ s = "Count" => ~closedT /\ ~cancelled /\ lockT' = r
  <2>1. \A s \in {"Idle", "Count"} : T!Step(r, "Idle", s) => TrackerMoves(r, s) /\ pcT[r] = "Idle"
    BY TrackerStep, Zenon DEF T!Step, TrackerPlace
  <2>2. \/ T!Step(r, "Idle", "Idle") /\ lockT' = lockT
        \/ T!Step(r, "Idle", "Count") /\ ~closedT /\ ~cancelled /\ lockT' = r
    BY Zenon DEF T!RegisterLooks
  <2> QED BY <2>1, <2>2, Zenon DEF T!RegisterLooks
<1>2. UNCHANGED <<active, cancelled, closedT, stoppedT>>
  BY Zenon DEF T!RegisterLooks
<1>3. T!Counted' = T!Counted
  BY <1>1, Zenon DEF T!Counted, TrackerMoves
<1>4. TrackerFits'
  BY <1>1, <1>2, TrackerRolesHold, Zenon DEF TrackerSound, TrackerFits, TrackerMoves, TrackerRoles,
                                      ReporterPlace
<1>5. TrackerHolds'
  BY <1>1, <1>2, <1>3, TrackerRolesHold, Zenon DEF TrackerSound, TrackerFits, TrackerHolds, TrackerMoves,
                                            TrackerRoles, T!Shut
<1>6. UNCHANGED T!Gate!gateVars
  BY <1>1, <1>2, <1>3, TrackerRolesHold, Zenon DEF TrackerMoves, TrackerRoles, T!Shut, T!Gate!gateVars
<1> QED BY <1>2, <1>3, <1>4, <1>5, <1>6, TrackerCountsSame, Zenon DEF TrackerKeeps

\* register(): the counter, under the mutex.
LEMMA RegisterCountsKeeps ==
  ASSUME TrackerSound, NEW r \in Reporter, T!RegisterCounts(r) PROVE TrackerKeeps
<1>1. /\ pcT[r] = "Count" /\ lockT' = Free /\ UNCHANGED <<cancelled, closedT, stoppedT>>
      /\ \/ active >= MaxReports /\ TrackerMoves(r, "Idle") /\ UNCHANGED active
         \/ ~(active >= MaxReports) /\ TrackerMoves(r, "Active") /\ active' = active + 1
  <2>1. \A s \in {"Idle", "Active"} : T!Step(r, "Count", s) => TrackerMoves(r, s) /\ pcT[r] = "Count"
    BY TrackerStep, Zenon DEF T!Step, TrackerPlace
  <2> QED BY <2>1, Zenon DEF T!RegisterCounts
<1>2. lockT = r /\ ~cancelled /\ ~T!Shut /\ pcT[Leaver] = "Idle"
  BY <1>1, TrackerRolesHold, Zenon DEF TrackerSound, TrackerFits, TrackerHolds, TrackerRoles
<1>3. TrackerFits'
  BY <1>1, <1>2, TrackerRolesHold DEF TrackerSound, TrackerFits, TrackerMoves, TrackerRoles,
                                      ReporterPlace
<1>4. UNCHANGED <<T!Shut, pcT[Leaver]>>
  BY <1>1, TrackerRolesHold, Zenon DEF TrackerMoves, TrackerRoles, T!Shut
<1>5. TrackerHolds'
  BY <1>1, <1>2, <1>4, TrackerRolesHold, Zenon DEF TrackerSound, TrackerHolds, TrackerRoles
<1>6. CASE active >= MaxReports
  <2>1. T!Counted' = T!Counted
    BY <1>1, <1>6, Zenon DEF T!Counted, TrackerMoves
  <2> QED BY <1>1, <1>3, <1>4, <1>5, <1>6, <2>1, TrackerCountsSame, Zenon DEF TrackerKeeps, T!Gate!gateVars
<1>7. CASE ~(active >= MaxReports)
  <2>1. T!Counted' = T!Counted \cup {r} /\ r \notin T!Counted
    BY <1>1, <1>7, Zenon DEF T!Counted, TrackerMoves
  <2>2. TrackerCounts'
    <3>1. IsFiniteSet(T!Counted) /\ active = Cardinality(T!Counted) /\ active \in Nat
      BY SameCardinality, Zenon DEF TrackerSound, TrackerCounts, T!CountIsExact, TrackerFits
    <3>2. IsFiniteSet(T!Counted') /\ Cardinality(T!Counted') = active + 1
      BY <2>1, <3>1, FS_AddElement, Zenon
    <3>3. active' = active + 1 /\ active' <= MaxReports
      BY <1>1, <1>7, <3>1, TrackerRolesHold DEF TrackerRoles
    <3> QED BY <3>2, <3>3, SameCardinality, Zenon DEF TrackerCounts, T!CountIsExact
  <2>3. T!Gate!Admit(r)
    BY <1>1, <1>2, <1>4, <2>1, Zenon DEF T!Gate!Admit
  <2> QED BY <1>3, <1>5, <2>2, <2>3, Zenon DEF TrackerKeeps, T!Gate!Next
<1> QED BY <1>6, <1>7, Zenon

\* finish(): the counter, and whether the last one is to notify.
LEMMA FinishKeeps ==
  ASSUME TrackerSound, NEW r \in Reporter, T!Finish(r) PROVE TrackerKeeps
<1>1. /\ pcT[r] = "Active" /\ UNCHANGED <<cancelled, closedT, lockT, stoppedT>>
      /\ active' = active - 1
      /\ TrackerMoves(r, "Notify") \/ TrackerMoves(r, "Idle")
  BY TrackerStep, Zenon DEF T!Finish, T!Step, TrackerPlace
<1>2. T!Counted' = T!Counted \ {r} /\ r \in T!Counted
  BY <1>1, Zenon DEF T!Counted, TrackerMoves
<1>3. TrackerCounts' /\ active' \in Nat
  <2>1. IsFiniteSet(T!Counted) /\ active = Cardinality(T!Counted) /\ active \in Nat
        /\ active <= MaxReports
    BY SameCardinality, Zenon DEF TrackerSound, TrackerCounts, T!CountIsExact, TrackerFits
  <2>2. IsFiniteSet(T!Counted') /\ Cardinality(T!Counted') = active - 1
    BY <1>2, <2>1, FS_RemoveElement, Zenon
  <2>3. active - 1 \in Nat
    BY <2>2, FS_CardinalityType, Zenon
  <2>4. active' <= MaxReports
    BY <1>1, <2>1, TrackerRolesHold DEF TrackerRoles
  <2> QED BY <1>1, <2>2, <2>3, <2>4, SameCardinality, Zenon DEF TrackerCounts, T!CountIsExact
<1>4. TrackerFits'
  BY <1>1, <1>3, TrackerRolesHold, Zenon DEF TrackerSound, TrackerFits, TrackerMoves, TrackerRoles,
                                      ReporterPlace
<1>5. UNCHANGED <<T!Shut, pcT[Leaver]>>
  BY <1>1, TrackerRolesHold, Zenon DEF TrackerMoves, TrackerRoles, T!Shut
<1>6. TrackerHolds'
  BY <1>1, <1>2, <1>5, Zenon DEF TrackerSound, TrackerHolds
<1>7. T!Gate!Finish(r)
  BY <1>1, <1>2, <1>5, Zenon DEF T!Gate!Finish
<1> QED BY <1>3, <1>4, <1>6, <1>7, Zenon DEF TrackerKeeps, T!Gate!Next

\* finish(): the notification.
LEMMA NotifyKeeps ==
  ASSUME TrackerSound, NEW r \in Reporter, T!Notify(r) PROVE TrackerKeeps
<1>1. /\ pcT[r] = "Notify" /\ UNCHANGED <<active, cancelled, closedT, lockT, stoppedT>>
      /\ TrackerMoves(r, "Idle")
  BY TrackerStep, Zenon DEF T!Notify, T!Step, TrackerPlace
<1>2. T!Counted' = T!Counted
  BY <1>1, Zenon DEF T!Counted, TrackerMoves
<1>3. TrackerFits'
  BY <1>1, TrackerRolesHold, Zenon DEF TrackerSound, TrackerFits, TrackerMoves, TrackerRoles,
                                ReporterPlace
<1>4. UNCHANGED <<T!Shut, pcT[Leaver]>>
  BY <1>1, TrackerRolesHold, Zenon DEF TrackerMoves, TrackerRoles, T!Shut
<1>5. TrackerHolds'
  BY <1>1, <1>2, <1>4, Zenon DEF TrackerSound, TrackerHolds
<1>6. UNCHANGED T!Gate!gateVars
  BY <1>1, <1>2, <1>4, Zenon DEF T!Gate!gateVars
<1> QED BY <1>1, <1>2, <1>3, <1>5, <1>6, TrackerCountsSame, Zenon DEF TrackerKeeps

\* Leave and shutdown move no report.
LEMMA DrainerCounts ==
  ASSUME TrackerSound, NEW d \in {Leaver, Closer}, NEW s, TrackerMoves(d, s), UNCHANGED active
  PROVE  T!Counted' = T!Counted /\ TrackerCounts'
<1>1. T!Counted' = T!Counted
  BY TrackerRolesHold, Zenon DEF T!Counted, TrackerMoves, TrackerRoles
<1> QED BY <1>1, TrackerCountsSame, Zenon

\* cancel() by a leave.
LEMMA LeaverCancels ==
  ASSUME TrackerSound, T!Cancel(Leaver) PROVE TrackerKeeps
<1>1. /\ pcT[Leaver] = "Idle" /\ TrackerMoves(Leaver, "Arm") /\ lockT = Free
      /\ cancelled' = TRUE /\ UNCHANGED <<active, closedT, lockT, stoppedT>>
  BY TrackerStep, TrackerRolesHold, Zenon DEF T!Cancel, T!Step, TrackerPlace, TrackerRoles
<1>2. T!Counted' = T!Counted /\ TrackerCounts'
  BY <1>1, DrainerCounts, Zenon
<1>3. TrackerFits'
  BY <1>1, TrackerRolesHold, Zenon DEF TrackerSound, TrackerFits, TrackerMoves, TrackerRoles, LeaverPlace
<1>4. T!Shut' = T!Shut
  BY <1>1, TrackerRolesHold, Zenon DEF TrackerMoves, TrackerRoles, T!Shut
<1>5. TrackerHolds'
  BY <1>1, <1>2, <1>4, TrackerRolesHold, Zenon DEF TrackerSound, TrackerHolds, TrackerMoves, TrackerRoles
<1>6. T!Gate!Stop
  BY <1>1, <1>2, <1>4, Zenon DEF T!Gate!Stop
<1> QED BY <1>2, <1>3, <1>5, <1>6, Zenon DEF TrackerKeeps, T!Gate!Next

\* cancel() by close_permanently().
LEMMA CloserCancels ==
  ASSUME TrackerSound, T!Cancel(Closer) PROVE TrackerKeeps
<1>1. /\ pcT[Closer] = "Closing" /\ TrackerMoves(Closer, "Arm") /\ lockT = Free
      /\ cancelled' = TRUE /\ UNCHANGED <<active, closedT, lockT, stoppedT>>
  BY TrackerStep, TrackerRolesHold, Zenon DEF T!Cancel, T!Step, TrackerPlace, TrackerRoles
<1>2. T!Counted' = T!Counted /\ TrackerCounts'
  BY <1>1, DrainerCounts, Zenon
<1>3. TrackerFits'
  BY <1>1, TrackerRolesHold, Zenon DEF TrackerSound, TrackerFits, TrackerMoves, TrackerRoles, CloserPlace
<1>4. T!Shut' /\ ~T!Shut
  BY <1>1, Zenon DEF TrackerSound, TrackerFits, TrackerMoves, T!Shut
<1>5. TrackerHolds'
  BY <1>1, <1>2, <1>4, TrackerRolesHold, Zenon DEF TrackerSound, TrackerHolds, TrackerMoves, TrackerRoles
<1>6. T!Gate!Close
  BY <1>1, <1>2, <1>4, Zenon DEF T!Gate!Close
<1> QED BY <1>2, <1>3, <1>5, <1>6, Zenon DEF TrackerKeeps, T!Gate!Next

\* close_permanently(): the flag.
LEMMA ClosePermanentlyKeeps ==
  ASSUME TrackerSound, T!ClosePermanently PROVE TrackerKeeps
<1>1. /\ pcT[Closer] = "Idle" /\ TrackerMoves(Closer, "Closing")
      /\ closedT' = TRUE /\ UNCHANGED <<active, cancelled, lockT, stoppedT>>
  BY TrackerStep, Zenon DEF T!ClosePermanently, T!Step, TrackerPlace
<1>2. T!Counted' = T!Counted /\ TrackerCounts'
  BY <1>1, DrainerCounts, Zenon
<1>3. TrackerFits'
  BY <1>1, TrackerRolesHold, Zenon DEF TrackerSound, TrackerFits, TrackerMoves, TrackerRoles, CloserPlace
<1>4. ~T!Shut' /\ ~T!Shut
  BY <1>1, Zenon DEF TrackerSound, TrackerFits, TrackerMoves, T!Shut
<1>5. TrackerHolds'
  BY <1>1, <1>2, <1>4, TrackerRolesHold, Zenon DEF TrackerSound, TrackerHolds, TrackerMoves, TrackerRoles
<1>6. UNCHANGED T!Gate!gateVars
  BY <1>1, <1>2, <1>4, Zenon DEF T!Shut, T!Gate!gateVars
<1> QED BY <1>2, <1>3, <1>5, <1>6, Zenon DEF TrackerKeeps

\* drain(): notified() is created or awaited, and a drainer woken.
LEMMA DrainMoves ==
  ASSUME TrackerSound, NEW d \in {Leaver, Closer}, T!Arm(d) \/ T!Poll(d) \/ T!Woken(d)
  PROVE  TrackerKeeps
<1>1. PICK s \in {"Check", "Wait", "Arm"} :
        /\ pcT[d] \in {"Arm", "Poll", "Wait"} /\ TrackerMoves(d, s)
        /\ UNCHANGED <<active, cancelled, closedT, lockT, stoppedT>>
  BY TrackerStep, Zenon DEF T!Arm, T!Poll, T!Woken, T!Step, TrackerPlace
<1>2. T!Counted' = T!Counted /\ TrackerCounts'
  BY <1>1, DrainerCounts, Zenon
<1>3. TrackerFits'
  BY <1>1, TrackerRolesHold, Zenon DEF TrackerSound, TrackerFits, TrackerMoves, TrackerRoles, LeaverPlace,
                                CloserPlace
<1>4. T!Shut' = T!Shut
  BY <1>1, TrackerRolesHold, Zenon DEF TrackerMoves, TrackerRoles, T!Shut
<1>5. TrackerHolds'
  BY <1>1, <1>2, <1>4, TrackerRolesHold, Zenon DEF TrackerSound, TrackerHolds, TrackerMoves, TrackerRoles
<1>6. UNCHANGED T!Gate!gateVars
  BY <1>1, <1>2, <1>4, Zenon DEF T!Gate!gateVars
<1> QED BY <1>2, <1>3, <1>5, <1>6, Zenon DEF TrackerKeeps

\* drain(): the counter is looked at; zero means that no report runs.
LEMMA CheckKeeps ==
  ASSUME TrackerSound, NEW d \in {Leaver, Closer}, T!Check(d)
  PROVE  TrackerKeeps
<1>1. PICK s \in {"Drained", "Poll"} :
        /\ pcT[d] = "Check" /\ TrackerMoves(d, s) /\ (s = "Drained" <=> active = 0)
        /\ UNCHANGED <<active, cancelled, closedT, lockT>>
        /\ stoppedT' = (stoppedT \/ (d = Closer /\ active = 0))
  BY TrackerStep, Zenon DEF T!Check, T!Step, TrackerPlace
<1>2. T!Counted' = T!Counted /\ TrackerCounts'
  BY <1>1, DrainerCounts, Zenon
<1>3. active = 0 => T!Counted = {}
  BY FS_EmptySet, SameCardinality, Zenon DEF TrackerSound, TrackerCounts, T!CountIsExact
<1>4. TrackerFits'
  BY <1>1, TrackerRolesHold, Zenon DEF TrackerSound, TrackerFits, TrackerMoves, TrackerRoles, LeaverPlace,
                                CloserPlace
<1>5. T!Shut' = T!Shut /\ (d = Closer => T!Shut)
  BY <1>1, TrackerRolesHold, Zenon DEF TrackerSound, TrackerFits, TrackerMoves, TrackerRoles, T!Shut
<1>6. TrackerHolds'
  BY <1>1, <1>2, <1>3, <1>5, TrackerRolesHold, Zenon DEF TrackerSound, TrackerHolds, TrackerMoves,
                                                  TrackerRoles
<1>7. CASE d = Closer /\ active = 0
  <2>1. T!Gate!Drain
    BY <1>1, <1>2, <1>3, <1>5, <1>7, Zenon DEF T!Gate!Drain
  <2> QED BY <1>2, <1>4, <1>6, <2>1, Zenon DEF TrackerKeeps, T!Gate!Next
<1>8. CASE ~(d = Closer /\ active = 0)
  <2>1. stoppedT' = stoppedT
    BY <1>1, <1>8, Zenon DEF TrackerSound, TrackerFits
  <2>2. UNCHANGED T!Gate!gateVars
    BY <1>1, <1>2, <1>5, <2>1, Zenon DEF T!Gate!gateVars
  <2> QED BY <1>2, <1>4, <1>6, <2>2, Zenon DEF TrackerKeeps
<1> QED BY <1>7, <1>8, Zenon

\* reopen(): the look at the flag, under the mutex.
LEMMA ReopenLooksKeeps ==
  ASSUME TrackerSound, T!ReopenLooks PROVE TrackerKeeps
<1>1. /\ pcT[Leaver] \notin {"Idle", "Reopen"} /\ lockT = Free
      /\ UNCHANGED <<active, cancelled, closedT, stoppedT>>
      /\ \/ closedT /\ TrackerMoves(Leaver, "Idle") /\ lockT' = lockT
         \/ ~closedT /\ TrackerMoves(Leaver, "Reopen") /\ lockT' = Leaver
  BY TrackerStep, Zenon DEF T!ReopenLooks, TrackerPlace
<1>2. T!Counted' = T!Counted /\ TrackerCounts'
  BY <1>1, DrainerCounts, Zenon
<1>3. TrackerFits'
  BY <1>1, TrackerRolesHold DEF TrackerSound, TrackerFits, TrackerMoves, TrackerRoles, LeaverPlace
<1>4. T!Shut' = T!Shut
  BY <1>1, TrackerRolesHold, Zenon DEF TrackerMoves, TrackerRoles, T!Shut
<1>5. TrackerHolds'
  <2>1. T!Shut => closedT
    BY Zenon DEF T!Shut
  <2> QED BY <1>1, <1>2, <1>4, <2>1, TrackerRolesHold, Zenon DEF TrackerSound, TrackerHolds, TrackerMoves,
                                                         TrackerRoles
<1>6. UNCHANGED T!Gate!gateVars
  BY <1>1, <1>2, <1>4, Zenon DEF T!Gate!gateVars
<1> QED BY <1>2, <1>3, <1>5, <1>6, Zenon DEF TrackerKeeps

\* reopen(): the new token; close_permanently has not returned.
LEMMA ReopenKeeps ==
  ASSUME TrackerSound, T!Reopen PROVE TrackerKeeps
<1>1. /\ pcT[Leaver] = "Reopen" /\ TrackerMoves(Leaver, "Idle") /\ cancelled' = FALSE
      /\ lockT' = Free /\ UNCHANGED <<active, closedT, stoppedT>>
  BY TrackerStep, Zenon DEF T!Reopen, T!Step, TrackerPlace
<1>2. T!Counted' = T!Counted /\ TrackerCounts'
  BY <1>1, DrainerCounts, Zenon
<1>3. lockT = Leaver
  BY <1>1, Zenon DEF TrackerSound, TrackerFits
<1>4. TrackerFits'
  BY <1>1, <1>3, TrackerRolesHold, Zenon DEF TrackerSound, TrackerFits, TrackerMoves, TrackerRoles,
                                      LeaverPlace
<1>5. T!Shut' = T!Shut
  BY <1>1, TrackerRolesHold, Zenon DEF TrackerMoves, TrackerRoles, T!Shut
<1>6. ~T!Shut
  BY <1>3, TrackerRolesHold, Zenon DEF TrackerSound, TrackerHolds, TrackerRoles
<1>7. TrackerHolds'
  BY <1>1, <1>2, <1>5, <1>6, TrackerRolesHold, Zenon DEF TrackerSound, TrackerHolds, TrackerMoves,
                                                  TrackerRoles
<1>8. T!Gate!Reopen
  BY <1>1, <1>2, <1>5, <1>6, Zenon DEF T!Gate!Reopen
<1> QED BY <1>2, <1>4, <1>7, <1>8, Zenon DEF TrackerKeeps, T!Gate!Next

\* Whatever the tracker does keeps the invariant and is a step of the gate.
LEMMA TrackerNext ==
  ASSUME TrackerSound, [T!Next]_trackerVars
  PROVE  TrackerSound' /\ [T!Gate!Next]_(T!Gate!gateVars)
<1>1. ASSUME UNCHANGED trackerVars PROVE TrackerKeeps
  <2>1. T!Counted' = T!Counted /\ T!Shut' = T!Shut
    BY <1>1, Zenon DEF trackerVars, T!Counted, T!Shut
  <2>2. TrackerFits'
    BY <1>1, Zenon DEF trackerVars, TrackerSound, TrackerFits
  <2>3. TrackerHolds'
    BY <1>1, <2>1, Zenon DEF trackerVars, TrackerSound, TrackerHolds
  <2>4. UNCHANGED T!Gate!gateVars
    BY <1>1, <2>1, Zenon DEF trackerVars, T!Gate!gateVars
  <2> QED BY <1>1, <2>1, <2>2, <2>3, <2>4, TrackerCountsSame, Zenon DEF trackerVars, TrackerKeeps
<1>2. ASSUME NEW r \in Reporter, T!RegisterLooks(r) \/ T!Reporting(r) PROVE TrackerKeeps
  BY <1>2, RegisterLooksKeeps, RegisterCountsKeeps, FinishKeeps, NotifyKeeps, Zenon DEF T!Reporting
<1>3. ASSUME NEW d \in {Leaver, Closer}, T!Cancel(d) \/ T!Draining(d) \/ T!Ends(d)
      PROVE  TrackerKeeps
  <2>1. CASE T!Cancel(d)
    BY <1>3, <2>1, LeaverCancels, CloserCancels, Zenon
  <2>2. CASE T!Draining(d)
    BY <2>2, DrainMoves, CheckKeeps, Zenon DEF T!Draining
  <2>3. CASE T!Ends(d)
    BY <1>1, <2>3, Zenon DEF T!Ends, T!vars, trackerVars
  <2> QED BY <1>3, <2>1, <2>2, <2>3, Zenon
<1>4. ASSUME T!ClosePermanently \/ T!ReopenLooks \/ T!Reopen PROVE TrackerKeeps
  BY <1>4, ClosePermanentlyKeeps, ReopenLooksKeeps, ReopenKeeps, Zenon
<1>5. TrackerKeeps
  BY <1>1, <1>2, <1>3, <1>4, Zenon DEF T!Next, T!Drainer
<1>6. (T!RolesAssumption /\ T!MaxReportsAssumption)'
  BY Zenon DEF TrackerSound, T!RolesAssumption, T!MaxReportsAssumption
<1> QED BY <1>5, <1>6, Zenon DEF TrackerKeeps, TrackerSound

-----------------------------------------------------------------------------
(* The ledger. *)

\* The roles are different, and the limits are numbers.
LedgerRoles ==
  /\ Leaver # Closer /\ Free # Leaver /\ Free # Closer
  /\ \A c \in Sender : c # Free /\ c # Leaver /\ c # Closer
  /\ MaxSends \in Nat \ {0}

LEMMA LedgerRolesHold == LedgerRoles
BY RolesAssumption, LimitsAssumption, Zenon DEF LedgerRoles

\* The owned tasks that run.
Flying == {i \in Id : flights[i] > 0}

\* They are those of the entries that have not finished.
LEMMA FlyingIsOwned ==
  ASSUME LedgerEntries
  PROVE  Flying = entries \ finished /\ IsFiniteSet(Flying) /\ inflight = Cardinality(Flying)
<1>1. Flying = entries \ finished
  BY DEF LedgerEntries, FlightsAreOwned, Flying
<1>2. IsFiniteSet(entries \ finished)
  BY FS_Difference, Zenon DEF LedgerEntries
<1> QED BY <1>1, <1>2, Zenon DEF LedgerEntries, FlightsAreOwned

\* With none in flight no task runs.
LEMMA NoneFlying ==
  ASSUME LedgerEntries, inflight = 0
  PROVE  Flying = {} /\ \A i \in Id : flights[i] = 0
<1>1. Flying = {}
  BY FlyingIsOwned, FS_EmptySet, Zenon
<1> QED BY <1>1 DEF Flying, LedgerEntries

\* A new ledger is sound.
LEMMA LedgerInit == Init => LedgerSound
<1> SUFFICES ASSUME Init PROVE LedgerSound
  BY Zenon
<1>1. LedgerFits
  <2>1. /\ pc \in [Sender \cup {Leaver, Closer} -> LedgerPlace]
        /\ \A p \in Sender \cup {Leaver, Closer} : pc[p] = "Idle"
    BY Zenon DEF Init, Drainer, LedgerPlace, SenderPlace
  <2>2. asks \in [Sender -> Id \cup {Free}]
    BY Zenon DEF Init
  <2> QED BY <2>1, <2>2, LedgerRolesHold, Zenon DEF Init, LedgerFits, LedgerRoles, SenderPlace,
                                             StopperPlace, ShutterPlace
<1>2. LedgerEntries
  <2>1. entries = {} /\ finished = {} /\ fifo = << >> /\ inflight = 0 /\ flights = [i \in Id |-> 0]
    BY Zenon DEF Init
  <2>2. IsFiniteSet({}) /\ Cardinality({}) = 0
    BY FS_EmptySet, Zenon
  <2>3. entries \ finished = {}
    BY <2>1, Zenon
  <2>4. FlightsAreOwned
    BY <2>1, <2>2, <2>3, Zenon DEF FlightsAreOwned
  <2> QED BY <2>1, <2>2, <2>4, LedgerRolesHold DEF LedgerEntries, LedgerRoles
<1>3. LedgerHolds
  BY Zenon DEF Init, Drainer, LedgerHolds, Shut, LeaveSeesNone
<1> QED BY <1>1, <1>2, <1>3, Zenon DEF LedgerSound

\* Who moves, where to, and that nobody else does.
Moves(p, s) ==
  /\ pc' \in [Sender \cup {Leaver, Closer} -> LedgerPlace]
  /\ pc'[p] = s
  /\ \A q \in Sender \cup {Leaver, Closer} : q # p => pc'[q] = pc[q]

LEMMA LedgerStep ==
  ASSUME LedgerSound, NEW p \in Sender \cup {Leaver, Closer}, NEW s \in LedgerPlace,
         pc' = [pc EXCEPT ![p] = s]
  PROVE  Moves(p, s)
BY Zenon DEF LedgerSound, LedgerFits, Moves

\* What a step of the ledger has to keep, and to be.
LedgerKeeps == LedgerSound' /\ [Gate!Next]_(Gate!gateVars)

\* Admission is possible.
Opened == accepting /\ admission /\ ~Shut

\* A step that the gate does not see.
LEMMA GateSame ==
  ASSUME Flying' = Flying, Opened' = Opened, Shut' = Shut, stopped' = stopped
  PROVE  UNCHANGED Gate!gateVars
BY Zenon DEF Gate!gateVars, Flying, Opened

\* A step that the gate sees as an admission.
LEMMA GateAdmits ==
  ASSUME NEW w \in Id, Opened, w \notin Flying, Flying' = Flying \cup {w},
         Opened' = Opened, Shut' = Shut, stopped' = stopped
  PROVE  [Gate!Next]_(Gate!gateVars)
<1>1. Gate!Admit(w)
  BY Zenon DEF Gate!Admit, Flying, Opened
<1> QED BY <1>1, Zenon DEF Gate!Next

\* The other steps of the gate.
LEMMA GateMoves ==
  ASSUME Flying' = Flying,
         \/ Opened' = FALSE /\ Shut' = Shut /\ stopped' = stopped
         \/ Opened' = FALSE /\ Shut' = TRUE /\ stopped' = stopped
         \/ Opened' = TRUE /\ ~Shut /\ Shut' = Shut /\ stopped' = stopped
         \/ Opened' = Opened /\ Shut /\ Shut' = Shut /\ stopped' = TRUE /\ Flying = {}
  PROVE  [Gate!Next]_(Gate!gateVars)
<1>1. CASE Opened' = FALSE /\ Shut' = Shut /\ stopped' = stopped
  <2>1. Gate!Stop
    BY <1>1, Zenon DEF Gate!Stop, Flying, Opened
  <2> QED BY <2>1, Zenon DEF Gate!Next
<1>2. CASE Opened' = FALSE /\ Shut' = TRUE /\ stopped' = stopped
  <2>1. Gate!Close
    BY <1>2, Zenon DEF Gate!Close, Flying, Opened
  <2> QED BY <2>1, Zenon DEF Gate!Next
<1>3. CASE Opened' = TRUE /\ ~Shut /\ Shut' = Shut /\ stopped' = stopped
  <2>1. Gate!Reopen
    BY <1>3, Zenon DEF Gate!Reopen, Flying, Opened
  <2> QED BY <2>1, Zenon DEF Gate!Next
<1>4. CASE Opened' = Opened /\ Shut /\ Shut' = Shut /\ stopped' = TRUE /\ Flying = {}
  <2>1. Gate!Drain
    BY <1>4, Zenon DEF Gate!Drain, Flying, Opened
  <2> QED BY <2>1, Zenon DEF Gate!Next
<1> QED BY <1>1, <1>2, <1>3, <1>4, Zenon

\* The entries stay, while nothing of them is touched.
LEMMA EntriesSame ==
  ASSUME LedgerSound, UNCHANGED <<entries, finished, fifo, inflight, flights>>
  PROVE  LedgerEntries' /\ Flying' = Flying
BY Zenon DEF LedgerSound, LedgerEntries, FlightsAreOwned, Flying

\* A sender moves without touching the entries.
LEMMA SenderMoves ==
  ASSUME LedgerSound, NEW c \in Sender, NEW s \in SenderPlace, Moves(c, s),
         UNCHANGED <<entries, finished, fifo, inflight, flights, accepting, admission, closed, stopped>>,
         asks' \in [Sender -> Id \cup {Free}],
         \A b \in Sender : b # c => asks'[b] = asks[b],
         s # "Idle" => asks'[c] \in Id,
         \/ lock' = lock /\ pc[c] # "Admit" /\ s # "Admit"
         \/ lock = Free /\ lock' = c /\ s = "Admit"
         \/ lock' = Free /\ pc[c] = "Admit" /\ s # "Admit"
  PROVE  LedgerKeeps
<1>1. LedgerEntries' /\ Flying' = Flying
  BY EntriesSame, Zenon
<1>2. LedgerFits'
  BY LedgerRolesHold, Zenon DEF LedgerSound, LedgerFits, Moves, LedgerRoles
<1>3. Shut' = Shut /\ pc'[Leaver] = pc[Leaver]
  BY LedgerRolesHold, Zenon DEF Moves, LedgerRoles, Shut
<1>4. LedgerHolds'
  BY <1>3, Zenon DEF LedgerSound, LedgerHolds, LeaveSeesNone
<1>5. UNCHANGED Gate!gateVars
  BY <1>1, <1>3, GateSame, Zenon DEF Opened
<1> QED BY <1>1, <1>2, <1>4, <1>5, Zenon DEF LedgerKeeps, LedgerSound

\* The callers' steps that touch no entry.
LEMMA CallersKeep ==
  ASSUME LedgerSound, NEW c \in Sender,
         \/ \E i \in Id : Present(c, i)
         \/ ReserveLooks(c) \/ Existing(c) \/ Refused(c)
         \/ Await(c) \/ Woken(c) \/ CallerDrops(c)
  PROVE  LedgerKeeps
<1>1. UNCHANGED <<entries, finished, fifo, inflight, flights, accepting, admission, closed, stopped>>
  BY Zenon DEF Present, ReserveLooks, Existing, Refused, Await, Woken, CallerDrops, ledgerVars, flagVars,
         waitVars
<1>2. \A s \in SenderPlace : pc' = [pc EXCEPT ![c] = s] => Moves(c, s)
  BY LedgerStep, Zenon DEF LedgerPlace
<1>3. ASSUME NEW from \in SenderPlace, NEW to \in SenderPlace, Go(c, from, to), from # "Idle"
      PROVE  /\ pc[c] = from /\ Moves(c, to)
             /\ asks' \in [Sender -> Id \cup {Free}]
             /\ \A b \in Sender : b # c => asks'[b] = asks[b]
             /\ to # "Idle" => asks'[c] \in Id
  BY <1>2, <1>3, Zenon DEF Go, Step, LedgerSound, LedgerFits
<1>4. ASSUME NEW i \in Id, Present(c, i) PROVE LedgerKeeps
  <2>1. /\ pc[c] = "Idle" /\ Moves(c, "Reserve") /\ asks' = [asks EXCEPT ![c] = i] /\ lock' = lock
    BY <1>2, <1>4, Zenon DEF Present, Step, SenderPlace, flagVars
  <2>2. /\ asks' \in [Sender -> Id \cup {Free}] /\ asks'[c] \in Id
        /\ \A b \in Sender : b # c => asks'[b] = asks[b]
    BY <2>1, Zenon DEF LedgerSound, LedgerFits
  <2> QED BY <1>1, <2>1, <2>2, SenderMoves, Zenon DEF SenderPlace
<1>5. ASSUME ReserveLooks(c) PROVE LedgerKeeps
  <2>1. CASE Go(c, "Reserve", "Idle") /\ lock' = lock
    BY <1>1, <1>3, <2>1, SenderMoves, Zenon DEF SenderPlace
  <2>2. CASE Go(c, "Reserve", "Admit") /\ lock = Free /\ lock' = c
    BY <1>1, <1>3, <2>2, SenderMoves, Zenon DEF SenderPlace
  <2> QED BY <1>5, <2>1, <2>2, Zenon DEF ReserveLooks
<1>6. ASSUME Existing(c) \/ Refused(c) PROVE LedgerKeeps
  <2>1. lock' = Free /\ (Go(c, "Admit", "Check") \/ Go(c, "Admit", "Idle"))
    BY <1>6, Zenon DEF Existing, Refused
  <2> QED BY <1>1, <1>3, <2>1, SenderMoves, Zenon DEF SenderPlace
<1>7. ASSUME Await(c) \/ Woken(c) \/ CallerDrops(c) PROVE LedgerKeeps
  <2>1. /\ lock' = lock
        /\ \E from \in {"Check", "Wait"}, to \in {"Idle", "Check", "Wait"} : Go(c, from, to)
    BY <1>7, Zenon DEF Await, Woken, CallerDrops, flagVars
  <2> QED BY <1>1, <1>3, <2>1, SenderMoves, Zenon DEF SenderPlace
<1> QED BY <1>4, <1>5, <1>6, <1>7, Zenon

\* Among numbers one is the smallest.
LEMMA Smallest ==
  ASSUME NEW S \in SUBSET Nat, S # {}
  PROVE  Min(S) \in S
<1>1. IsWellFoundedOn(OpToRel(<, Nat), Nat)
  BY NatLessThanWellFounded, Zenon
<1>2. \E n \in S : \A k \in S : <<k, n>> \notin OpToRel(<, Nat)
  BY <1>1, WFMin, Zenon
<1>3. PICK n \in S : \A k \in S : <<k, n>> \notin OpToRel(<, Nat)
  BY <1>2, Zenon
<1>4. ASSUME NEW k \in S PROVE n <= k
  <2>1. n \in Nat /\ k \in Nat /\ <<k, n>> \in Nat \X Nat
    BY Zenon
  <2>2. <<k, n>> \notin {ss \in Nat \X Nat : ss[1] < ss[2]}
    BY <1>3, Zenon DEF OpToRel
  <2> QED BY <2>1, <2>2
<1> QED BY <1>4, Zenon DEF Min

\* The loop of evictions stops at the end of terminal_fifo.
LEMMA EvictionsEnd ==
  ASSUME LedgerEntries, NEW i
  PROVE  Evictions(i) \in 0..Len(fifo)
<1> DEFINE enough(k) == ~Full(Cardinality(entries) - k, BytesWithout(k), i)
           S == {k \in 0..Len(fifo) : enough(k)}
<1>1. Len(fifo) \in Nat
  BY DEF LedgerEntries
<1>2. S \subseteq 0..Len(fifo) /\ S \in SUBSET Nat /\ Len(fifo) \in 0..Len(fifo)
  BY <1>1
<1>3. Evictions(i) = IF \E k \in 0..Len(fifo) : enough(k) THEN Min(S) ELSE Len(fifo)
  BY Zenon DEF Evictions
<1>4. CASE \E k \in 0..Len(fifo) : enough(k)
  <2>1. S # {}
    BY <1>4, Zenon
  <2>2. Min(S) \in S
    BY <1>2, <2>1, Smallest, Zenon
  <2> HIDE DEF S, enough
  <2> QED BY <1>2, <1>3, <1>4, <2>2, Zenon
<1>5. CASE ~\E k \in 0..Len(fifo) : enough(k)
  <2> HIDE DEF S, enough
  <2> QED BY <1>2, <1>3, <1>5, Zenon
<1> QED BY <1>4, <1>5, Zenon

\* Evicting from the front leaves what is in flight.
LEMMA EvictionLeaves ==
  ASSUME LedgerEntries, NEW k \in 0..Len(fifo), fifo' = SubSeq(fifo, k + 1, Len(fifo))
  PROVE  /\ Evicted(k) \subseteq finished
         /\ (entries \ Evicted(k)) \ (finished \ Evicted(k)) = entries \ finished
         /\ fifo' \in Seq(Id)
         /\ \A j \in 1..Len(fifo') : fifo'[j] \in finished \ Evicted(k)
         /\ \A i \in finished \ Evicted(k) : \E j \in 1..Len(fifo') : fifo'[j] = i
         /\ \A j, l \in 1..Len(fifo') : fifo'[j] = fifo'[l] => j = l
         /\ IsFiniteSet(entries \ Evicted(k)) /\ Cardinality(entries \ Evicted(k)) <= MaxSends
         /\ Cardinality(entries \ Evicted(k)) \in Nat
<1>1. /\ fifo \in Seq(Id) /\ Len(fifo) \in Nat /\ k \in Nat /\ k <= Len(fifo)
      /\ \A j \in 1..Len(fifo) : fifo[j] \in finished
      /\ \A i \in finished : \E j \in 1..Len(fifo) : fifo[j] = i
      /\ \A j, l \in 1..Len(fifo) : fifo[j] = fifo[l] => j = l
  BY DEF LedgerEntries
<1>2. Evicted(k) \subseteq finished
  BY <1>1 DEF Evicted
<1>3. /\ fifo' \in Seq(Id) /\ Len(fifo') = Len(fifo) - k
      /\ \A j \in 1..Len(fifo) - k : fifo'[j] = fifo[k + j]
  BY <1>1
<1>4. \A j \in 1..Len(fifo') : fifo'[j] \in finished \ Evicted(k)
  <2> SUFFICES ASSUME NEW j \in 1..Len(fifo') PROVE fifo'[j] \in finished \ Evicted(k)
    BY Zenon
  <2>1. k + j \in 1..Len(fifo) /\ fifo'[j] = fifo[k + j] /\ \A l \in 1..k : l # k + j /\ l \in 1..Len(fifo)
    BY <1>1, <1>3
  <2> QED BY <1>1, <2>1, Zenon DEF Evicted
<1>5. \A i \in finished \ Evicted(k) : \E j \in 1..Len(fifo') : fifo'[j] = i
  <2> SUFFICES ASSUME NEW i \in finished \ Evicted(k) PROVE \E j \in 1..Len(fifo') : fifo'[j] = i
    BY Zenon
  <2>1. PICK l \in 1..Len(fifo) : fifo[l] = i
    BY <1>1, Zenon
  <2>2. ~(l <= k)
    BY <1>1, <2>1 DEF Evicted
  <2>3. l - k \in 1..Len(fifo') /\ fifo'[l - k] = i
    BY <1>1, <1>3, <2>1, <2>2
  <2> QED BY <2>3, Zenon
<1>6. \A j, l \in 1..Len(fifo') : fifo'[j] = fifo'[l] => j = l
  <2> SUFFICES ASSUME NEW j \in 1..Len(fifo'), NEW l \in 1..Len(fifo'), fifo'[j] = fifo'[l] PROVE j = l
    BY Zenon
  <2>1. k + j \in 1..Len(fifo) /\ k + l \in 1..Len(fifo) /\ fifo[k + j] = fifo[k + l]
    BY <1>1, <1>3
  <2>2. k + j = k + l
    BY <1>1, <2>1, Zenon
  <2> QED BY <1>1, <1>3, <2>2
<1>7. IsFiniteSet(entries \ Evicted(k)) /\ Cardinality(entries \ Evicted(k)) <= Cardinality(entries)
      /\ Cardinality(entries \ Evicted(k)) \in Nat /\ Cardinality(entries) \in Nat
  BY FS_Subset, FS_CardinalityType, Zenon DEF LedgerEntries
<1>8. Cardinality(entries \ Evicted(k)) <= MaxSends
  BY <1>7, LedgerRolesHold DEF LedgerEntries, LedgerRoles
<1>9. (entries \ Evicted(k)) \ (finished \ Evicted(k)) = entries \ finished
  BY <1>2, Zenon
<1> QED BY <1>2, <1>3, <1>4, <1>5, <1>6, <1>7, <1>8, <1>9, Zenon

\* reserve(): room is made, and a new entry gets its owned task or there is
\* no room.
LEMMA NewKeeps ==
  ASSUME LedgerSound, NEW c \in Sender, New(c)
  PROVE  LedgerKeeps
<1> DEFINE i == asks[c]
           k == Evictions(i)
           keep == entries \ Evicted(k)
<1>1. /\ pc[c] = "Admit" /\ accepting /\ admission /\ i \notin entries /\ lock' = Free
      /\ finished' = finished \ Evicted(k) /\ fifo' = SubSeq(fifo, k + 1, Len(fifo))
      /\ UNCHANGED <<accepting, admission, closed, stopped>>
      /\ \/ /\ Go(c, "Admit", "Idle") /\ entries' = keep /\ UNCHANGED <<inflight, flights>>
         \/ /\ Go(c, "Admit", "Check") /\ entries' = keep \cup {i} /\ ~(Cardinality(keep) >= MaxSends)
            /\ inflight' = inflight + 1 /\ flights' = [flights EXCEPT ![i] = @ + 1]
  BY Zenon DEF New, Full
<1>2. k \in 0..Len(fifo)
  BY EvictionsEnd, Zenon DEF LedgerSound
<1>3. i \in Id /\ lock = c /\ ~Shut
  BY <1>1, LedgerRolesHold, Zenon DEF LedgerSound, LedgerFits, LedgerHolds, LedgerRoles
<1>4. /\ Evicted(k) \subseteq finished
      /\ keep \ (finished \ Evicted(k)) = entries \ finished
      /\ fifo' \in Seq(Id)
      /\ \A j \in 1..Len(fifo') : fifo'[j] \in finished'
      /\ \A x \in finished' : \E j \in 1..Len(fifo') : fifo'[j] = x
      /\ \A j, l \in 1..Len(fifo') : fifo'[j] = fifo'[l] => j = l
      /\ IsFiniteSet(keep) /\ Cardinality(keep) <= MaxSends /\ Cardinality(keep) \in Nat
  <2> HIDE DEF k, i
  <2>1. LedgerEntries /\ k \in 0..Len(fifo) /\ fifo' = SubSeq(fifo, k + 1, Len(fifo))
    BY <1>1, <1>2, Zenon DEF LedgerSound
  <2>2. finished' = finished \ Evicted(k)
    BY <1>1, Zenon
  <2> QED BY <2>1, <2>2, EvictionLeaves, Zenon
<1>5. /\ entries \subseteq Id /\ finished \subseteq entries /\ flights \in [Id -> Nat] /\ inflight \in Nat
      /\ \A x \in Id : flights[x] = IF x \in entries \ finished THEN 1 ELSE 0
      /\ inflight = Cardinality(entries \ finished) /\ IsFiniteSet(entries \ finished)
  BY FlyingIsOwned, Zenon DEF LedgerSound, LedgerEntries, FlightsAreOwned
<1> HIDE DEF k, keep, i
<1>6. /\ Shut' = Shut /\ pc'[Leaver] = pc[Leaver] /\ LedgerFits'
  <2>1. \E s \in {"Idle", "Check"} : Moves(c, s) /\ Go(c, "Admit", s)
    BY <1>1, LedgerStep, Zenon DEF Go, Step, LedgerPlace, SenderPlace
  <2>2. /\ asks' \in [Sender -> Id \cup {Free}]
        /\ \A b \in Sender : b # c => asks'[b] = asks[b]
        /\ pc'[c] # "Idle" => asks'[c] \in Id
    BY <1>3, <2>1, Zenon DEF Go, Moves, LedgerSound, LedgerFits, i
  <2>3. LedgerFits'
    BY <1>1, <1>3, <2>1, <2>2, LedgerRolesHold, Zenon DEF LedgerSound, LedgerFits, Moves, LedgerRoles, SenderPlace
  <2> QED BY <1>1, <2>1, <2>3, LedgerRolesHold, Zenon DEF Moves, LedgerRoles, Shut
<1>7. pc[Leaver] # "Drained" /\ ~stopped
  BY <1>1, <1>3, Zenon DEF LedgerSound, LedgerHolds
<1>8. LedgerHolds'
  <2>1. ~Shut' /\ ~stopped' /\ pc'[Leaver] # "Drained"
    BY <1>1, <1>3, <1>6, <1>7, Zenon
  <2> QED BY <1>1, <1>6, <2>1, Zenon DEF LedgerSound, LedgerHolds, LeaveSeesNone
<1>9. CASE entries' = keep /\ UNCHANGED <<inflight, flights>>
  <2>1. entries' \ finished' = entries \ finished
    BY <1>1, <1>4, <1>9, Zenon
  <2>2. FlightsAreOwned'
    BY <1>5, <1>9, <2>1, Zenon DEF FlightsAreOwned
  <2>3. entries' \subseteq Id /\ finished' \subseteq entries'
    BY <1>1, <1>4, <1>5, <1>9, Zenon DEF keep
  <2>4. LedgerEntries'
    BY <1>4, <1>5, <1>9, <2>2, <2>3, Zenon DEF LedgerEntries
  <2>5. UNCHANGED Gate!gateVars
    BY <1>1, <1>6, <1>9, GateSame, Zenon DEF Flying, Opened
  <2> QED BY <1>6, <1>8, <2>4, <2>5, Zenon DEF LedgerKeeps, LedgerSound
<1>10. CASE /\ entries' = keep \cup {i} /\ ~(Cardinality(keep) >= MaxSends)
            /\ inflight' = inflight + 1 /\ flights' = [flights EXCEPT ![i] = @ + 1]
  <2>1. i \notin keep /\ i \notin finished
    BY <1>1, <1>5, Zenon DEF keep
  <2>2. entries' \ finished' = (entries \ finished) \cup {i}
    BY <1>1, <1>4, <1>10, <2>1, Zenon
  <2>3. i \notin entries \ finished
    BY <1>1, Zenon
  <2>4. flights' \in [Id -> Nat] /\ \A x \in Id : flights'[x] = IF x \in entries' \ finished' THEN 1 ELSE 0
    BY <1>3, <1>5, <1>10, <2>2, <2>3
  <2>5. inflight' = Cardinality(entries' \ finished') /\ inflight' \in Nat
    BY <1>5, <1>10, <2>2, <2>3, FS_AddElement
  <2>6. IsFiniteSet(entries') /\ Cardinality(entries') = Cardinality(keep) + 1
    BY <1>4, <1>10, <2>1, FS_AddElement, Zenon
  <2>7. Cardinality(entries') <= MaxSends
    BY <1>4, <1>10, <2>6, LedgerRolesHold DEF LedgerRoles
  <2>8. entries' \subseteq Id /\ finished' \subseteq entries'
    BY <1>1, <1>3, <1>4, <1>5, <1>10, Zenon DEF keep
  <2>9. LedgerEntries'
    BY <1>4, <2>4, <2>5, <2>6, <2>7, <2>8, Zenon DEF LedgerEntries, FlightsAreOwned
  <2>10. Flying' = Flying \cup {i} /\ i \notin Flying
    BY <1>3, <1>5, <2>2, <2>3, <2>4 DEF Flying
  <2>11. Opened /\ Opened' = Opened /\ Shut' = Shut /\ stopped' = stopped
    BY <1>1, <1>3, <1>6, Zenon DEF Opened
  <2>12. [Gate!Next]_(Gate!gateVars)
    BY <1>3, <2>10, <2>11, GateAdmits, Zenon
  <2> QED BY <1>6, <1>8, <2>9, <2>12, Zenon DEF LedgerKeeps, LedgerSound
<1> QED BY <1>1, <1>9, <1>10, Zenon

\* finish_send: the result is retained, or the entry goes.
LEMMA LedgerFinishKeeps ==
  ASSUME LedgerSound, NEW i \in Id, Finish(i)
  PROVE  LedgerKeeps
<1>1. /\ flights[i] > 0 /\ flights' = [flights EXCEPT ![i] = @ - 1] /\ inflight' = inflight - 1
      /\ \/ finished' = finished \cup {i} /\ fifo' = Append(fifo, i) /\ UNCHANGED entries
         \/ entries' = entries \ {i} /\ UNCHANGED <<finished, fifo>>
      /\ UNCHANGED <<accepting, admission, closed, lock, stopped, pc, asks>>
  BY Zenon DEF Finish, flagVars
<1>2. /\ entries \subseteq Id /\ finished \subseteq entries /\ flights \in [Id -> Nat] /\ inflight \in Nat
      /\ \A x \in Id : flights[x] = IF x \in entries \ finished THEN 1 ELSE 0
      /\ inflight = Cardinality(entries \ finished) /\ IsFiniteSet(entries \ finished)
      /\ IsFiniteSet(entries) /\ Cardinality(entries) <= MaxSends
  BY FlyingIsOwned, Zenon DEF LedgerSound, LedgerEntries, FlightsAreOwned
<1>3. i \in entries /\ i \notin finished
  BY <1>1, <1>2
<1>4. entries' \ finished' = (entries \ finished) \ {i}
  BY <1>1, <1>3, Zenon
<1>5. flights' \in [Id -> Nat] /\ \A x \in Id : flights'[x] = IF x \in entries' \ finished' THEN 1 ELSE 0
  BY <1>1, <1>2, <1>3, <1>4
<1>6. inflight' = Cardinality(entries' \ finished') /\ inflight' \in Nat
  <2>1. IsFiniteSet((entries \ finished) \ {i}) /\ Cardinality((entries \ finished) \ {i}) = inflight - 1
    BY <1>2, <1>3, FS_RemoveElement, Zenon
  <2> QED BY <1>1, <1>4, <2>1, FS_CardinalityType, Zenon
<1>7. LedgerEntries'
  <2>1. IsFiniteSet(entries') /\ Cardinality(entries') <= MaxSends
    <3>1. IsFiniteSet(entries') /\ Cardinality(entries') <= Cardinality(entries)
          /\ Cardinality(entries') \in Nat /\ Cardinality(entries) \in Nat
      BY <1>1, <1>2, FS_Subset, FS_CardinalityType, Zenon
    <3> QED BY <1>2, <3>1, LedgerRolesHold DEF LedgerRoles
  <2>2. entries' \subseteq Id /\ finished' \subseteq entries'
    BY <1>1, <1>2, <1>3, Zenon
  <2>3. /\ fifo' \in Seq(Id)
        /\ \A j \in 1..Len(fifo') : fifo'[j] \in finished'
        /\ \A x \in finished' : \E j \in 1..Len(fifo') : fifo'[j] = x
        /\ \A j, l \in 1..Len(fifo') : fifo'[j] = fifo'[l] => j = l
    <3>1. /\ fifo \in Seq(Id) /\ Len(fifo) \in Nat
          /\ \A j \in 1..Len(fifo) : fifo[j] \in finished
          /\ \A x \in finished : \E j \in 1..Len(fifo) : fifo[j] = x
          /\ \A j, l \in 1..Len(fifo) : fifo[j] = fifo[l] => j = l
      BY DEF LedgerSound, LedgerEntries
    <3>2. CASE finished' = finished \cup {i} /\ fifo' = Append(fifo, i)
      <4>1. /\ fifo' \in Seq(Id) /\ Len(fifo') = Len(fifo) + 1 /\ fifo'[Len(fifo) + 1] = i
            /\ \A j \in 1..Len(fifo) : fifo'[j] = fifo[j]
        BY <3>1, <3>2
      <4>2. \A j \in 1..Len(fifo') : j \in 1..Len(fifo) \/ j = Len(fifo) + 1
        BY <3>1, <4>1
      <4>3. \A j \in 1..Len(fifo') : fifo'[j] \in finished'
        BY <3>1, <3>2, <4>1, <4>2, Zenon
      <4>4. \A x \in finished' : \E j \in 1..Len(fifo') : fifo'[j] = x
        BY <3>1, <3>2, <4>1
      <4>5. \A j, l \in 1..Len(fifo') : fifo'[j] = fifo'[l] => j = l
        BY <1>3, <3>1, <4>1, <4>2, Zenon
      <4> QED BY <4>1, <4>3, <4>4, <4>5, Zenon
    <3>3. CASE UNCHANGED <<finished, fifo>>
      BY <3>1, <3>3, Zenon
    <3> QED BY <1>1, <3>2, <3>3, Zenon
  <2> QED BY <1>5, <1>6, <2>1, <2>2, <2>3, Zenon DEF LedgerEntries, FlightsAreOwned
<1>8. LedgerFits' /\ Shut' = Shut
  BY <1>1, Zenon DEF LedgerSound, LedgerFits, Shut
<1>9. LedgerHolds'
  <2>1. \A x \in Id : flights[x] = 0 => flights'[x] = 0
    BY <1>2, <1>4, <1>5, Zenon
  <2> QED BY <1>1, <1>8, <2>1, Zenon DEF LedgerSound, LedgerHolds, LeaveSeesNone
<1>10. Gate!Finish(i)
  <2>1. Flying' = Flying \ {i} /\ i \in Flying
    BY <1>1, <1>2, <1>3, <1>4, <1>5 DEF Flying
  <2> QED BY <1>1, <1>8, <2>1, Zenon DEF Gate!Finish, Flying
<1> QED BY <1>7, <1>8, <1>9, <1>10, Zenon DEF LedgerKeeps, LedgerSound, Gate!Next

\* What leave and shutdown leave alone.
Aside == UNCHANGED <<entries, finished, fifo, inflight, flights, asks>>

\* close_permanently(): the flag.
LEMMA CloseKeeps ==
  ASSUME LedgerSound, Close PROVE LedgerKeeps
<1>1. /\ Aside /\ pc[Closer] = "Idle" /\ Moves(Closer, "Closing") /\ closed' = TRUE
      /\ UNCHANGED <<accepting, admission, lock, stopped>>
  BY LedgerStep, Zenon DEF Close, Step, Aside, ledgerVars, waitVars, LedgerPlace, ShutterPlace
<1>2. LedgerEntries' /\ Flying' = Flying
  BY <1>1, EntriesSame, Zenon DEF Aside
<1>3. LedgerFits'
  BY <1>1, LedgerRolesHold, Zenon DEF LedgerSound, LedgerFits, Moves, LedgerRoles, Aside, ShutterPlace
<1>4. Shut' = FALSE /\ Shut = FALSE
  BY <1>1, Zenon DEF LedgerSound, LedgerFits, Moves, Shut
<1>5. LedgerHolds'
  BY <1>1, <1>4, LedgerRolesHold, Zenon DEF LedgerSound, LedgerHolds, LeaveSeesNone, Moves, LedgerRoles, Aside
<1>6. UNCHANGED Gate!gateVars
  BY <1>1, <1>2, <1>4, GateSame, Zenon DEF Opened
<1> QED BY <1>2, <1>3, <1>5, <1>6, Zenon DEF LedgerKeeps, LedgerSound

\* stop_admission() by a leave.
LEMMA LeaverStopsAdmission ==
  ASSUME LedgerSound, StopAdmission(Leaver) PROVE LedgerKeeps
<1>1. /\ Aside /\ pc[Leaver] = "Idle" /\ Moves(Leaver, "Stop") /\ admission' = FALSE
      /\ UNCHANGED <<accepting, closed, lock, stopped>>
  BY LedgerStep, LedgerRolesHold, Zenon DEF StopAdmission, Step, Aside, ledgerVars, waitVars, LedgerPlace,
                                     StopperPlace, LedgerRoles
<1>2. LedgerEntries' /\ Flying' = Flying
  BY <1>1, EntriesSame, Zenon DEF Aside
<1>3. LedgerFits'
  BY <1>1, LedgerRolesHold, Zenon DEF LedgerSound, LedgerFits, Moves, LedgerRoles, Aside, StopperPlace
<1>4. Shut' = Shut
  BY <1>1, LedgerRolesHold, Zenon DEF Moves, LedgerRoles, Shut
<1>5. LedgerHolds'
  BY <1>1, <1>4, LedgerRolesHold, Zenon DEF LedgerSound, LedgerHolds, LeaveSeesNone, Moves, LedgerRoles, Aside
<1>6. [Gate!Next]_(Gate!gateVars)
  BY <1>1, <1>2, <1>4, GateMoves, Zenon DEF Opened
<1> QED BY <1>2, <1>3, <1>5, <1>6, Zenon DEF LedgerKeeps, LedgerSound

\* stop_admission() by close_permanently().
LEMMA CloserStopsAdmission ==
  ASSUME LedgerSound, StopAdmission(Closer) PROVE LedgerKeeps
<1>1. /\ Aside /\ pc[Closer] = "Closing" /\ Moves(Closer, "Stop") /\ admission' = FALSE
      /\ UNCHANGED <<accepting, closed, lock, stopped>>
  BY LedgerStep, Zenon DEF StopAdmission, Step, Aside, ledgerVars, waitVars, LedgerPlace, ShutterPlace
<1>2. LedgerEntries' /\ Flying' = Flying
  BY <1>1, EntriesSame, Zenon DEF Aside
<1>3. LedgerFits'
  BY <1>1, LedgerRolesHold, Zenon DEF LedgerSound, LedgerFits, Moves, LedgerRoles, Aside, ShutterPlace
<1>4. Shut' = TRUE /\ Shut = FALSE
  BY <1>1, Zenon DEF LedgerSound, LedgerFits, Moves, Shut
<1>5. LedgerHolds'
  BY <1>1, <1>4, LedgerRolesHold, Zenon DEF LedgerSound, LedgerHolds, LeaveSeesNone, Moves, LedgerRoles, Aside
<1>6. [Gate!Next]_(Gate!gateVars)
  BY <1>1, <1>2, <1>4, GateMoves, Zenon DEF Opened
<1> QED BY <1>2, <1>3, <1>5, <1>6, Zenon DEF LedgerKeeps, LedgerSound

\* stop_and_drain() and drain(): the counter is looked at under the mutex;
\* with none in flight the drain is done.
LEMMA DrainKeeps ==
  ASSUME LedgerSound, NEW d \in {Leaver, Closer}, StopAccepting(d) \/ Drain(d)
  PROVE  LedgerKeeps
<1>1. PICK s \in {"Drained", "Arm", "Wait"} :
        /\ Aside /\ pc[d] \in {"Stop", "Check"} /\ Moves(d, s) /\ (s = "Drained" <=> inflight = 0)
        /\ pc[d] = "Check" => accepting' = accepting
        /\ pc[d] = "Stop" => accepting' = FALSE
        /\ stopped' = (stopped \/ (d = Closer /\ inflight = 0))
        /\ UNCHANGED <<admission, closed, lock>>
  BY LedgerStep, Zenon DEF StopAccepting, Drain, Step, Aside, ledgerVars, flagVars, LedgerPlace,
                    StopperPlace
<1>2. LedgerEntries' /\ Flying' = Flying
  BY <1>1, EntriesSame, Zenon DEF Aside
<1>3. LedgerFits'
  BY <1>1, LedgerRolesHold, Zenon DEF LedgerSound, LedgerFits, Moves, LedgerRoles, Aside, StopperPlace,
                               ShutterPlace
<1>4. Shut' = Shut /\ (d = Closer => Shut)
  BY <1>1, LedgerRolesHold, Zenon DEF LedgerSound, LedgerFits, Moves, LedgerRoles, Shut
<1>5. inflight = 0 => Flying = {} /\ \A i \in Id : flights'[i] = 0
  BY <1>1, NoneFlying, Zenon DEF LedgerSound, Aside
<1>6. LedgerHolds'
  <2>1. flights' = flights
    BY <1>1, Zenon DEF Aside
  <2>2. stopped' => Shut' /\ \A i \in Id : flights'[i] = 0
    BY <1>1, <1>4, <1>5, <2>1, Zenon DEF LedgerSound, LedgerHolds
  <2>3. CASE d = Leaver
    <3>1. pc'[Leaver] \in {"Drained", "Arm", "Wait"} /\ ~accepting' /\ pc[Leaver] # "Recheck"
      BY <1>1, <2>3 DEF LedgerSound, LedgerHolds, Moves
    <3>2. pc'[Leaver] = "Drained" => \A i \in Id : flights'[i] = 0
      BY <1>1, <1>5, <2>3, Zenon DEF Moves
    <3> QED BY <1>1, <1>4, <2>2, <3>1, <3>2, Zenon DEF LedgerSound, LedgerHolds, LeaveSeesNone
  <2>4. CASE d = Closer
    <3>1. pc'[Leaver] = pc[Leaver] /\ (accepting' => accepting)
      BY <1>1, <2>4, LedgerRolesHold DEF Moves, LedgerRoles
    <3> QED BY <1>1, <1>4, <2>1, <2>2, <3>1, Zenon DEF LedgerSound, LedgerHolds, LeaveSeesNone
  <2> QED BY <2>3, <2>4, Zenon
<1>7. CASE d = Closer /\ inflight = 0
  <2>1. [Gate!Next]_(Gate!gateVars)
    BY <1>1, <1>2, <1>4, <1>5, <1>7, GateMoves, Zenon DEF Opened
  <2> QED BY <1>2, <1>3, <1>6, <2>1, Zenon DEF LedgerKeeps, LedgerSound
<1>8. CASE ~(d = Closer /\ inflight = 0)
  <2>1. stopped' = stopped
    BY <1>1, <1>8, Zenon DEF LedgerSound, LedgerFits
  <2>2. [Gate!Next]_(Gate!gateVars)
    <3>1. CASE accepting' = accepting
      BY <1>1, <1>2, <1>4, <2>1, <3>1, GateSame, Zenon DEF Opened
    <3>2. CASE accepting' = FALSE
      BY <1>1, <1>2, <1>4, <2>1, <3>2, GateMoves, Zenon DEF Opened
    <3> QED BY <1>1, <3>1, <3>2, Zenon
  <2> QED BY <1>2, <1>3, <1>6, <2>2, Zenon DEF LedgerKeeps, LedgerSound
<1> QED BY <1>7, <1>8, Zenon

\* drain(): notified() is created, and a drainer woken.
LEMMA LedgerDrainMoves ==
  ASSUME LedgerSound, NEW d \in {Leaver, Closer}, Arm(d) \/ DrainWoken(d)
  PROVE  LedgerKeeps
<1>1. PICK s \in {"Check", "Arm"} :
        /\ Aside /\ pc[d] \in {"Arm", "Wait"} /\ Moves(d, s)
        /\ UNCHANGED <<accepting, admission, closed, lock, stopped>>
  BY LedgerStep, Zenon DEF Arm, DrainWoken, Step, Aside, ledgerVars, flagVars, waitVars, LedgerPlace,
                    StopperPlace
<1>2. LedgerEntries' /\ Flying' = Flying
  BY <1>1, EntriesSame, Zenon DEF Aside
<1>3. LedgerFits'
  BY <1>1, LedgerRolesHold DEF LedgerSound, LedgerFits, Moves, LedgerRoles, Aside, StopperPlace,
                               ShutterPlace
<1>4. Shut' = Shut
  BY <1>1, LedgerRolesHold, Zenon DEF Moves, LedgerRoles, Shut
<1>5. LedgerHolds'
  BY <1>1, <1>4, LedgerRolesHold, Zenon DEF LedgerSound, LedgerHolds, LeaveSeesNone, Moves, LedgerRoles, Aside
<1>6. UNCHANGED Gate!gateVars
  BY <1>1, <1>2, <1>4, GateSame, Zenon DEF Opened
<1> QED BY <1>2, <1>3, <1>5, <1>6, Zenon DEF LedgerKeeps, LedgerSound

\* reopen_admission(): the look at the flag.
LEMMA LedgerReopenLooks ==
  ASSUME LedgerSound, ReopenLooks PROVE LedgerKeeps
<1>1. /\ Aside /\ pc[Leaver] \in {"Drained", "Arm", "Check", "Wait"} /\ lock = Free
      /\ UNCHANGED <<accepting, admission, closed, stopped>>
      /\ \/ Moves(Leaver, "Idle") /\ lock' = lock
         \/ Moves(Leaver, "Reopen") /\ lock' = Leaver
  BY LedgerStep, Zenon DEF ReopenLooks, Aside, ledgerVars, waitVars, LedgerPlace, StopperPlace
<1>2. LedgerEntries' /\ Flying' = Flying
  BY <1>1, EntriesSame, Zenon DEF Aside
<1>3. LedgerFits'
  BY <1>1, LedgerRolesHold DEF LedgerSound, LedgerFits, Moves, LedgerRoles, Aside, StopperPlace
<1>4. Shut' = Shut
  BY <1>1, LedgerRolesHold, Zenon DEF Moves, LedgerRoles, Shut
<1>5. LedgerHolds'
  BY <1>1, <1>4, LedgerRolesHold, Zenon DEF LedgerSound, LedgerHolds, LeaveSeesNone, Moves, LedgerRoles, Aside
<1>6. UNCHANGED Gate!gateVars
  BY <1>1, <1>2, <1>4, GateSame, Zenon DEF Opened
<1> QED BY <1>2, <1>3, <1>5, <1>6, Zenon DEF LedgerKeeps, LedgerSound

\* reopen_admission(): the two flags; the gate sees it unless it is shut.
LEMMA LedgerReopens ==
  ASSUME LedgerSound, Reopen PROVE LedgerKeeps
<1>1. /\ Aside /\ pc[Leaver] = "Reopen" /\ Moves(Leaver, "Recheck")
      /\ accepting' = TRUE /\ admission' = TRUE /\ UNCHANGED <<closed, lock, stopped>>
  BY LedgerStep, Zenon DEF Reopen, Step, Aside, ledgerVars, waitVars, LedgerPlace, StopperPlace
<1>2. LedgerEntries' /\ Flying' = Flying
  BY <1>1, EntriesSame, Zenon DEF Aside
<1>3. LedgerFits'
  BY <1>1, LedgerRolesHold, Zenon DEF LedgerSound, LedgerFits, Moves, LedgerRoles, Aside, StopperPlace
<1>4. Shut' = Shut
  BY <1>1, LedgerRolesHold, Zenon DEF Moves, LedgerRoles, Shut
<1>5. LedgerHolds'
  BY <1>1, <1>4, LedgerRolesHold, Zenon DEF LedgerSound, LedgerHolds, LeaveSeesNone, Moves, LedgerRoles, Aside
<1>6. [Gate!Next]_(Gate!gateVars)
  <2>1. CASE Shut
    BY <1>1, <1>2, <1>4, <2>1, GateSame, Zenon DEF Opened
  <2>2. CASE ~Shut
    BY <1>1, <1>2, <1>4, <2>2, GateMoves, Zenon DEF Opened
  <2> QED BY <2>1, <2>2, Zenon
<1> QED BY <1>2, <1>3, <1>5, <1>6, Zenon DEF LedgerKeeps, LedgerSound

\* reopen_admission(): the flag is looked at again.
LEMMA RecheckKeeps ==
  ASSUME LedgerSound, Recheck PROVE LedgerKeeps
<1>1. /\ Aside /\ pc[Leaver] = "Recheck" /\ Moves(Leaver, "Idle")
      /\ admission' = (admission /\ ~closed) /\ lock' = Free
      /\ UNCHANGED <<accepting, closed, stopped>>
  BY LedgerStep, Zenon DEF Recheck, Step, Aside, ledgerVars, waitVars, LedgerPlace, StopperPlace
<1>2. LedgerEntries' /\ Flying' = Flying
  BY <1>1, EntriesSame, Zenon DEF Aside
<1>3. lock = Leaver
  BY <1>1, Zenon DEF LedgerSound, LedgerFits
<1>4. LedgerFits'
  BY <1>1, <1>3, LedgerRolesHold, Zenon DEF LedgerSound, LedgerFits, Moves, LedgerRoles, Aside, StopperPlace
<1>5. Shut' = Shut /\ (Shut => closed)
  BY <1>1, LedgerRolesHold, Zenon DEF Moves, LedgerRoles, Shut
<1>6. LedgerHolds'
  BY <1>1, <1>5, LedgerRolesHold, Zenon DEF LedgerSound, LedgerHolds, LeaveSeesNone, Moves, LedgerRoles, Aside
<1>7. [Gate!Next]_(Gate!gateVars)
  <2>1. CASE closed
    BY <1>1, <1>2, <1>5, <2>1, GateMoves, Zenon DEF Opened
  <2>2. CASE ~closed
    BY <1>1, <1>2, <1>5, <2>2, GateSame, Zenon DEF Opened, LedgerSound, LedgerFits
  <2> QED BY <2>1, <2>2, Zenon
<1> QED BY <1>2, <1>4, <1>6, <1>7, Zenon DEF LedgerKeeps, LedgerSound

\* Whatever the ledger does keeps the invariant and is a step of the gate.
LEMMA LedgerNext ==
  ASSUME LedgerSound, [Next]_vars
  PROVE  LedgerKeeps
<1>1. ASSUME UNCHANGED vars PROVE LedgerKeeps
  <2>1. UNCHANGED <<entries, finished, fifo, inflight, flights, accepting, admission, closed, lock,
                    stopped, pc, asks>>
    BY <1>1, Zenon DEF vars, ledgerVars, flagVars, waitVars
  <2>2. LedgerEntries' /\ Flying' = Flying
    BY <2>1, EntriesSame, Zenon
  <2>3. LedgerFits' /\ Shut' = Shut
    BY <2>1, Zenon DEF LedgerSound, LedgerFits, Shut
  <2>4. LedgerHolds'
    BY <2>1, <2>3, Zenon DEF LedgerSound, LedgerHolds, LeaveSeesNone
  <2>5. UNCHANGED Gate!gateVars
    BY <2>1, <2>2, <2>3, GateSame, Zenon DEF Opened
  <2> QED BY <2>2, <2>3, <2>4, <2>5, Zenon DEF LedgerKeeps, LedgerSound
<1>2. ASSUME NEW c \in Sender, (\E i \in Id : Present(c, i)) \/ Reserving(c) \/ Awaiting(c) \/ CallerDrops(c)
      PROVE  LedgerKeeps
  BY <1>2, CallersKeep, NewKeeps, Zenon DEF Reserving, Awaiting
<1>3. ASSUME NEW d \in {Leaver, Closer}, StopAdmission(d) \/ Draining(d) \/ Ends(d)
      PROVE  LedgerKeeps
  <2>1. CASE StopAdmission(d)
    BY <1>3, <2>1, LeaverStopsAdmission, CloserStopsAdmission, Zenon
  <2>2. CASE Draining(d)
    BY <2>2, DrainKeeps, LedgerDrainMoves, Zenon DEF Draining
  <2>3. CASE Ends(d)
    BY <1>1, <2>3, Zenon DEF Ends
  <2> QED BY <1>3, <2>1, <2>2, <2>3, Zenon
<1>4. ASSUME Close \/ ReopenLooks \/ Reopen \/ Recheck PROVE LedgerKeeps
  BY <1>4, CloseKeeps, LedgerReopenLooks, LedgerReopens, RecheckKeeps, Zenon
<1> QED BY <1>1, <1>2, <1>3, <1>4, LedgerFinishKeeps, Zenon DEF Next, Drainer

-----------------------------------------------------------------------------
(* Both. *)

\* Both gates are sound.
Sound == TrackerSound /\ LedgerSound

\* Initially both are, and both are open and empty.
LEMMA InitGates == MCInit => Sound /\ Gate!Init /\ T!Gate!Init
<1> SUFFICES ASSUME MCInit PROVE Sound /\ Gate!Init /\ T!Gate!Init
  BY Zenon
<1>1. Sound
  BY TrackerInit, LedgerInit, Zenon DEF MCInit, Sound
<1>2. Gate!Init
  BY DEF MCInit, Init, Gate!Init, Shut
<1>3. T!Gate!Init
  BY Zenon DEF MCInit, T!Init, T!Gate!Init, T!Shut, T!Counted, T!Drainer
<1> QED BY <1>1, <1>2, <1>3, Zenon

\* A step is a step of one of them.
LEMMA NextGates ==
  ASSUME Sound, [MCNext]_<<part, vars, trackerVars>>
  PROVE  Sound' /\ [Gate!Next]_(Gate!gateVars) /\ [T!Gate!Next]_(T!Gate!gateVars)
<1>1. [Next]_vars /\ [T!Next]_trackerVars
  BY Zenon DEF MCNext
<1>2. LedgerKeeps
  BY <1>1, LedgerNext, Zenon DEF Sound
<1>3. TrackerSound' /\ [T!Gate!Next]_(T!Gate!gateVars)
  BY <1>1, TrackerNext, Zenon DEF Sound
<1> QED BY <1>2, <1>3, Zenon DEF LedgerKeeps, Sound

\* The send ledger and the report tracker are admission gates, for any number
\* of senders, sends, reporters and limits: once closed they admit nothing and
\* stay closed, whatever a leave that is rolled back stores in between, and a
\* drain that succeeds after that has left nothing behind (reserve,
\* stop_admission, close_permanently, reopen_admission and drain of both).
THEOREM GatesAlwaysKeepTheirPromise == MCSpec => GatesKeepTheirPromise
<1>1. MCInit => Sound /\ Gate!Init /\ T!Gate!Init
  BY InitGates, Zenon
<1>2. Sound /\ [MCNext]_<<part, vars, trackerVars>>
        => Sound' /\ [Gate!Next]_(Gate!gateVars) /\ [T!Gate!Next]_(T!Gate!gateVars)
  BY NextGates, Zenon
<1> QED BY <1>1, <1>2, PTL DEF MCSpec, GatesKeepTheirPromise, IsAdmissionGate, T!IsAdmissionGate,
                               Gate!Spec, T!Gate!Spec

\* What the gates know of themselves, without the sums of bytes.
Counts ==
  /\ FlightsAreOwned /\ LeaveSeesNone /\ ClosedStaysDown
  /\ Cardinality(entries) <= MaxSends /\ Evicted(Len(fifo)) = finished /\ finished \subseteq entries
  /\ T!TrackerInvariant

\* An entry in flight is never evicted and has one owned task, the counters
\* that the drains trust are exact and within their limits, terminal_fifo
\* lists what has finished, a leave that has drained sees nothing run, and a
\* closed ledger ends with its flag down (reserve, finish_send, register).
THEOREM GatesAlwaysCount == MCSpec => []Counts
<1>1. MCInit => Sound
  BY InitGates, Zenon
<1>2. Sound /\ [MCNext]_<<part, vars, trackerVars>> => Sound'
  BY NextGates, Zenon
<1>3. Sound => Counts
  <2> SUFFICES ASSUME Sound PROVE Counts
    BY Zenon
  <2>1. FlightsAreOwned /\ Cardinality(entries) <= MaxSends /\ finished \subseteq entries
    BY Zenon DEF Sound, LedgerSound, LedgerEntries
  <2>2. Evicted(Len(fifo)) = finished
    BY DEF Sound, LedgerSound, LedgerEntries, Evicted
  <2>3. LeaveSeesNone /\ ClosedStaysDown
    <3>1. lock = Free => pc[Leaver] # "Recheck"
      BY LedgerRolesHold, Zenon DEF Sound, LedgerSound, LedgerFits, LedgerRoles
    <3> QED BY <3>1, Zenon DEF Sound, LedgerSound, LedgerHolds, ClosedStaysDown, Shut
  <2>4. T!TrackerInvariant
    BY Zenon DEF Sound, TrackerSound, TrackerCounts, TrackerHolds, T!TrackerInvariant, T!LeaveSeesNone
  <2> QED BY <2>1, <2>2, <2>3, <2>4, Zenon DEF Counts
<1> QED BY <1>1, <1>2, <1>3, PTL DEF MCSpec
=============================================================================
