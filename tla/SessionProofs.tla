----------------------------- MODULE SessionProofs -----------------------------
(***************************************************************************)
(* Proofs about module Session.  The invariant says who is in which gate   *)
(* at which point of its call, and what that entitles it to find: the      *)
(* lifecycle, the generation on disk, closed admissions, a drained set of  *)
(* tasks.  The steps of the heartbeat task and of the other calls come     *)
(* first, then what may go out, shutdown, leave, and the theorems.         *)
(***************************************************************************)
EXTENDS Session, TLAPS

\* Where an actor waits for the heartbeat gate.
HbAwait == {"Gate", "SendGate", "ReportGate", "LeaveHeartbeat"}
\* The leave once it has the heartbeat gate: it keeps it to its end.
LeaveTail == {"LeaveRequest", "Cleanup", "LeaveReap", "LeaveAborting", "LeaveEnds"}
\* Where an actor holds the heartbeat gate.
HbHold == {"Beating", "Backoff", "Sending", "Reporting", "Expired"} \cup Resuming \cup LeaveTail

\* Where a caller waits for the operation gate.
OpAwait == {"MutateGate", "LeaveGate", "StopGate"}
\* The leave from begin_leave to the outcome of its request.
LeaveOpen == {"StopAdmission", "DrainSends", "LeaveHeartbeat", "LeaveRequest", "Cleanup"}
\* The leave under the operation gate.
LeaveHold == {"DrainReports", "BeginLeave", "Reopen"} \cup LeaveOpen \cup LeaveTail
\* Where a caller holds the operation gate.
OpHold == {"MutateCheck", "MutateReady", "Mutating"} \cup LeaveHold

\* The shutdown once reports and sends are drained.
StopDrained == {"StopReap", "StopAborting", "StopGate"}
\* The shutdown.
StopPc == {"Stop", "StopSends"} \cup StopDrained

\* Where a send is owned by the session.
SendPc == {"SendGate", "Sending"}
\* Where a status report is owned by the session.
ReportPc == {"ReportGate", "Reporting", "Expired"} \cup Resuming
\* Where a leave or a shutdown awaits the end of the heartbeat task.
Reap == {"LeaveReap", "LeaveAborting", "StopReap", "StopAborting"}

\* Where the heartbeat task can be.
LoopPc == {"Sleep", "Gate", "Beating", "Backoff", "Expired", "Done"} \cup Resuming
\* Where a caller can be.
CallerPc == {"Idle", "SendCheck", "Reserve", "SendGate", "Sending", "ReportGate", "Reporting",
             "Expired", "Epoch", "ReadCheck", "ReadReady", "Reading"}
            \cup Resuming \cup OpAwait \cup OpHold \cup StopPc

\* Who is in a gate, and that nobody is twice.
ToSet(g) == {g[i] : i \in DOMAIN g}
\* Nobody waits for a gate twice.
Queue(g, S) == g \in Seq(S) /\ \A i, j \in 1..Len(g) : g[i] = g[j] => i = j
\* y is somewhere behind x.
Behind(g, x, y) == \E i, j \in 1..Len(g) : i < j /\ g[i] = x /\ g[j] = y

\* Who holds a gate is its head, who waits is in it, nobody else is, but for
\* those at one of the places may.
Discipline(g, p, S, hold, wait, may) ==
  /\ Queue(g, S)
  /\ \A a \in S : /\ p[a] \in hold => Holds(g, a)
                  /\ p[a] \in wait => a \in ToSet(g)
                  /\ a \in ToSet(g) => p[a] \in hold \cup wait \cup may

\* heartbeat_gate is kept in this discipline.
HbGate == Discipline(hbGate, pc, Actor, HbHold, HbAwait, {"Reopen"})
\* And operation_gate in this one.
OpGate == Discipline(opGate, pc, Caller, OpHold, OpAwait, {})

\* The types, with who can be where.
Typed ==
  /\ TypeOK
  /\ pc \in [Actor -> LoopPc \cup CallerPc]
  /\ pc[Loop] \in LoopPc
  /\ \A c \in Caller : pc[c] \in CallerPc
  /\ sendsOpen \in BOOLEAN /\ accepting \in BOOLEAN
  /\ reportsOpen \in BOOLEAN /\ readsOpen \in BOOLEAN
  /\ held \in BOOLEAN /\ orphan \in BOOLEAN

\* The credential: what is on disk and what is in use at each point of a resume.
Rotation ==
  /\ generation <= disk
  /\ lifecycle \in {"Ready", "Leaving"} => disk = generation
  /\ orphan => lifecycle = "Recovering" /\ generation < MaxGeneration
  /\ lifecycle = "Recovering" => Is("aborted") \/ \E a \in Actor : pc[a] \in Resuming
  /\ \A a \in Actor :
       /\ pc[a] \in Resuming => lifecycle = "Recovering" /\ ~orphan
       /\ pc[a] \in {"Expired", "Resuming", "Publish"} => generation < MaxGeneration
       /\ pc[a] \in {"Resuming", "PublishReady"} => disk = generation
       /\ pc[a] = "Publish" => disk = generation + 1
  /\ \A c \in Caller : pc[c] = "Sending" => seen[c] = generation /\ lifecycle # "Recovering"

\* What a leave has closed at each point, and what a completed one has closed.
Closing ==
  /\ \A c \in Caller :
       /\ pc[c] \in LeaveOpen \cup {"Reopen"} => lifecycle = "Leaving"
       /\ pc[c] \in LeaveOpen \cup {"DrainReports", "BeginLeave", "Reopen"} => ~reportsOpen
       /\ pc[c] \in LeaveOpen => ~readsOpen /\ live = {}
  /\ lifecycle = "Left" => ~readsOpen /\ ~reportsOpen /\ live = {} /\ Is("operations")

\* What a shutdown has drained at each point, and what a dropped session still owns.
Draining ==
  /\ Serialised => \A c, d \in Caller : pc[c] \in StopPc /\ pc[d] \in StopPc => c = d
  /\ \A c \in Caller :
       /\ pc[c] \in StopPc => Is("shutdown")
       /\ pc[c] \in StopPc \ {"Stop"} => \A d \in Caller : pc[d] \notin ReportPc
       /\ pc[c] \in StopDrained => /\ \A d \in Caller : pc[d] \notin SendPc
                                   /\ ~readsOpen /\ live = {}
                                   /\ Is("operations") /\ Is("taken")
  /\ Is("dropped") => \A c \in Caller : pc[c] \in Owned \cup {"Idle"}
  /\ Is("taken") => \/ At(Loop, "Done") \/ Is("dropped")
                    \/ \E c \in Caller : pc[c] \in Reap
  /\ Is("ended") => ~held
  /\ ~held => Is("shutdown") /\ Is("operations") /\ ~readsOpen /\ live = {}

\* No leave waits for the operation gate behind a shutdown.
NoLeaverBehind ==
  \A c, d \in Caller :
    At(c, "StopGate") /\ pc[d] \in LeaveHold \cup {"LeaveGate"} => ~Behind(opGate, c, d)

\* The lock is given up with no owned task left.
Drained == ~held => At(Loop, "Done") /\ \A c \in Caller : pc[c] \notin Owned

\* The inductive invariant.  Its last part needs the order that Serialised states.
IInv == /\ Typed /\ HbGate /\ OpGate /\ Rotation /\ Closing /\ BeatsWhileBound /\ Draining
        /\ Serialised => NoLeaverBehind /\ Drained
-----------------------------------------------------------------------------
(* The gates. *)

\* The holder of a gate is in it, is one, and everybody else is behind it.
LEMMA HeadOfGate ==
  ASSUME NEW S, NEW g, Queue(g, S)
  PROVE  /\ \A x : Holds(g, x) => x \in ToSet(g)
         /\ \A x, y : Holds(g, x) /\ Holds(g, y) => x = y
         /\ \A x, y : Holds(g, x) /\ y \in ToSet(g) /\ y # x => Behind(g, x, y)
         /\ \A x, y : Behind(g, x, y) => x \in ToSet(g)
BY DEF Queue, Holds, ToSet, Behind

\* Waiting for a gate: at its end.
LEMMA JoinGate ==
  ASSUME NEW S, NEW g, Queue(g, S), NEW a \in S, a \notin ToSet(g)
  PROVE  /\ Queue(Append(g, a), S)
         /\ ToSet(Append(g, a)) = ToSet(g) \cup {a}
         /\ \A x : Holds(g, x) => Holds(Append(g, a), x)
         /\ \A x, y : Behind(Append(g, a), x, y) => Behind(g, x, y) \/ y = a
BY DEF Queue, Holds, ToSet, Behind

\* Giving up a gate, or the wait for it, keeps the others in their order.
LEMMA QuitGate ==
  ASSUME NEW S, NEW g, Queue(g, S), NEW a
  PROVE  /\ Queue(Without(g, a), S)
         /\ ToSet(Without(g, a)) = ToSet(g) \ {a}
         /\ \A x : Holds(g, x) /\ x # a => Holds(Without(g, a), x)
         /\ \A x, y : Behind(Without(g, a), x, y) => Behind(g, x, y)
<1>1. CASE a \notin ToSet(g)
  BY <1>1, Zenon DEF Without, Places, ToSet
<1>2. CASE a \in ToSet(g)
  <2> DEFINE k == CHOOSE i \in Places(g, a) : TRUE
             up(i) == IF i < k THEN i ELSE i + 1
             h == [i \in 1..(Len(g) - 1) |-> g[up(i)]]
  <2>1. k \in 1..Len(g) /\ g[k] = a /\ Len(g) \in Nat /\ g \in Seq(S)
    BY <1>2 DEF ToSet, Queue, Places
  <2>2. Without(g, a) = h
    BY <1>2, Zenon DEF Without, ToSet, Places
  <2> HIDE DEF k
  <2>3. \A i \in 1..(Len(g) - 1) : up(i) \in 1..Len(g) /\ up(i) # k
    BY <2>1
  <2>4. h \in Seq(S) /\ Len(h) = Len(g) - 1 /\ \A i \in 1..(Len(g) - 1) : h[i] = g[up(i)]
    <3>1. \A i \in 1..(Len(g) - 1) : g[up(i)] \in S
      BY <2>1, <2>3
    <3> HIDE DEF up
    <3>2. Len(g) - 1 \in Nat
      BY <2>1
    <3> QED BY <3>1, <3>2
  <2> HIDE DEF h
  <2>5. h \in Seq(S) /\ Len(h) = Len(g) - 1
    BY <2>4, Zenon
  <2>6. \A i \in 1..Len(h) : up(i) \in 1..Len(g) /\ h[i] = g[up(i)] /\ up(i) # k
    BY <2>3, <2>4, Zenon
  <2>7. \A j \in 1..Len(g) : j # k => \E i \in 1..Len(h) : h[i] = g[j]
    <3> SUFFICES ASSUME NEW j \in 1..Len(g), j # k
                 PROVE  \E i \in 1..Len(h) : h[i] = g[j]
      BY Zenon
    <3>1. CASE j < k
      <4>1. j \in 1..Len(h) /\ up(j) = j
        BY <3>1, <2>1, <2>5
      <4> QED BY <4>1, <2>6, Zenon
    <3>2. CASE j > k
      <4>1. j - 1 \in 1..Len(h) /\ up(j - 1) = j
        BY <3>2, <2>1, <2>5
      <4> QED BY <4>1, <2>6, Zenon
    <3> QED BY <3>1, <3>2, <2>1
  <2>8. Queue(h, S)
    <3>1. \A i, j \in 1..Len(h) : up(i) = up(j) => i = j
      BY <2>1, <2>5
    <3> HIDE DEF up
    <3> QED BY <3>1, <2>1, <2>5, <2>6, Zenon DEF Queue
  <2>9. ToSet(h) = ToSet(g) \ {a}
    <3>1. ToSet(h) = {h[i] : i \in 1..Len(h)} /\ ToSet(g) = {g[i] : i \in 1..Len(g)}
      BY <2>1, <2>5 DEF ToSet
    <3>2. \A i \in 1..Len(g) : g[i] = a <=> i = k
      BY <2>1, Zenon DEF Queue
    <3> HIDE DEF up
    <3>3. ASSUME NEW x \in ToSet(h) PROVE x \in ToSet(g) \ {a}
      BY <3>1, <3>2, <3>3, <2>6, Zenon
    <3>4. ASSUME NEW x \in ToSet(g) \ {a} PROVE x \in ToSet(h)
      BY <3>1, <3>2, <3>4, <2>1, <2>7, Zenon
    <3> QED BY <3>3, <3>4, Zenon
  <2>10. ASSUME NEW x, Holds(g, x), x # a
         PROVE  Holds(h, x)
    <3>1. k # 1 /\ Len(h) > 0 /\ up(1) = 1
      BY <2>10, <2>1, <2>5 DEF Holds
    <3> QED BY <3>1, <2>1, <2>5, <2>6, <2>10 DEF Holds
  <2>11. \A x, y : Behind(h, x, y) => Behind(g, x, y)
    <3> SUFFICES ASSUME NEW x, NEW y, NEW i \in 1..Len(h), NEW j \in 1..Len(h),
                        i < j, h[i] = x, h[j] = y
                 PROVE  Behind(g, x, y)
      BY Zenon DEF Behind
    <3>1. up(i) < up(j)
      BY <2>1, <2>5
    <3> QED BY <3>1, <2>6, Zenon DEF Behind
  <2> QED BY <2>2, <2>8, <2>9, <2>10, <2>11, Zenon
<1> QED BY <1>1, <1>2, Zenon

-----------------------------------------------------------------------------
(* What a step does to the gates. *)

\* A leave that waits for its gate or has it.
Leaver == LeaveHold \cup {"LeaveGate"}

\* a's step keeps its place in a gate, enters the gate or leaves it.
GateStep(g, h, a, hold, wait, may) ==
  \/ /\ h = g
     /\ pc'[a] \in hold => pc[a] \in hold \/ Holds(g, a)
     /\ pc'[a] \in wait => pc[a] \in wait
     /\ pc[a] \in hold \cup wait \cup may => pc'[a] \in hold \cup wait \cup may
  \/ h = Append(g, a) /\ pc[a] \notin hold \cup wait \cup may /\ pc'[a] \in wait \ hold
  \/ h = Without(g, a) /\ pc'[a] \notin hold \cup wait

\* A step of a, as far as its place, its gates and its results are concerned.
Move(a) ==
  /\ pc' = [pc EXCEPT ![a] = pc'[a]]
  /\ pc'[a] \in IF a = Loop THEN LoopPc ELSE CallerPc
  /\ GateStep(hbGate, hbGate', a, HbHold, HbAwait, {"Reopen"})
  /\ GateStep(opGate, opGate', a, OpHold, OpAwait, {})
  /\ pc'[a] = "StopGate" => opGate' = Append(opGate, a)
  /\ pc'[a] \in Leaver => pc[a] \in Leaver \/ (Serialised => ~Is("shutdown"))
  /\ health' \in Health /\ live' \subseteq Caller
  /\ result' \in [Caller -> {"done", "timedout"}]
  /\ seen' \in [Caller -> 0..MaxGeneration]
  /\ \A c \in Caller \ {a} : seen'[c] = seen[c]

\* A disciplined gate stays so.
LEMMA GateStepKeepsDiscipline ==
  ASSUME NEW S, NEW g, NEW h, NEW hold, NEW wait, NEW may,
         Discipline(g, pc, S, hold, wait, may),
         NEW a, GateStep(g, h, a, hold, wait, may),
         \A x \in S \ {a} : pc'[x] = pc[x],
         a \in S \/ h = g
  PROVE  Discipline(h, pc', S, hold, wait, may)
<1> USE DEF Discipline
<1>1. CASE a \in S
  <2>1. CASE /\ h = g
             /\ pc'[a] \in hold => pc[a] \in hold \/ Holds(g, a)
             /\ pc'[a] \in wait => pc[a] \in wait
             /\ pc[a] \in hold \cup wait \cup may => pc'[a] \in hold \cup wait \cup may
    BY <1>1, <2>1, Zenon
  <2>2. CASE h = Append(g, a) /\ pc[a] \notin hold \cup wait \cup may /\ pc'[a] \in wait \ hold
    BY <1>1, <2>2, JoinGate
  <2>3. CASE h = Without(g, a) /\ pc'[a] \notin hold \cup wait
    BY <1>1, <2>3, QuitGate
  <2> QED BY <2>1, <2>2, <2>3, Zenon DEF GateStep
<1>2. CASE a \notin S
  BY <1>2, Zenon
<1> QED BY <1>1, <1>2, Zenon

\* Every step keeps the gates disciplined and the places known; no leaver gets
\* behind a shutdown.
LEMMA MoveKeepsGates ==
  ASSUME IInv, NEW a \in Actor, Move(a)
  PROVE  /\ HbGate' /\ OpGate'
         /\ pc' \in [Actor -> LoopPc \cup CallerPc]
         /\ pc'[Loop] \in LoopPc
         /\ \A c \in Caller : pc'[c] \in CallerPc
         /\ Serialised => NoLeaverBehind'
<1>1. /\ pc' = [pc EXCEPT ![a] = pc'[a]] /\ pc \in [Actor -> LoopPc \cup CallerPc]
      /\ pc'[a] \in IF a = Loop THEN LoopPc ELSE CallerPc
      /\ GateStep(hbGate, hbGate', a, HbHold, HbAwait, {"Reopen"})
      /\ GateStep(opGate, opGate', a, OpHold, OpAwait, {})
  BY Zenon DEF IInv, Typed, Move
<1>2. /\ pc' \in [Actor -> LoopPc \cup CallerPc] /\ pc'[Loop] \in LoopPc
      /\ \A c \in Caller : pc'[c] \in CallerPc
  BY <1>1, LoopAssumption, Zenon DEF IInv, Typed, Actor
<1>3. \A x \in Actor \ {a} : pc'[x] = pc[x]
  BY <1>1, Zenon
<1>4. HbGate'
  BY <1>1, <1>3, GateStepKeepsDiscipline, Zenon DEF IInv, HbGate
<1>5. a \in Caller \/ opGate' = opGate
  <2> SUFFICES ASSUME a = Loop PROVE opGate' = opGate
    BY Zenon DEF Actor
  <2>1. opGate \in Seq(Caller) /\ Loop \notin ToSet(opGate)
    BY LoopAssumption DEF IInv, OpGate, Discipline, Queue, ToSet
  <2>2. pc'[a] \notin OpAwait
    BY <1>1, Zenon DEF LoopPc, OpAwait, Resuming
  <2>3. Without(opGate, Loop) = opGate
    BY <2>1, Zenon DEF Without, Places, ToSet
  <2> QED BY <1>1, <2>2, <2>3, Zenon DEF GateStep
<1>6. OpGate'
  BY <1>1, <1>3, <1>5, GateStepKeepsDiscipline, Zenon DEF IInv, OpGate, Actor
<1>7. ASSUME Serialised PROVE NoLeaverBehind'
  <2> SUFFICES ASSUME NEW c \in Caller, NEW d \in Caller, pc'[c] = "StopGate", pc'[d] \in Leaver,
                      Behind(opGate', c, d)
               PROVE  FALSE
    BY Zenon DEF NoLeaverBehind, At, Leaver
  <2>1. Queue(opGate, Caller) /\ NoLeaverBehind
    BY <1>7, Zenon DEF IInv, OpGate, Discipline
  <2>2. /\ pc'[a] = "StopGate" => opGate' = Append(opGate, a)
        /\ pc'[a] \in Leaver => pc[a] \in Leaver \/ ~Is("shutdown")
    BY <1>7, Zenon DEF Move
  <2>3. Leaver \subseteq OpHold \cup OpAwait /\ "StopGate" \in OpAwait /\ "StopGate" \notin Leaver
    BY Zenon DEF Leaver, OpHold, OpAwait, LeaveHold, LeaveOpen, LeaveTail
  <2>4. c # a
    <3> SUFFICES ASSUME c = a PROVE FALSE
      BY Zenon
    <3>1. opGate' = Append(opGate, a) /\ Append(opGate, a) # opGate
      BY <2>1, <2>2 DEF Queue
    <3>2. pc[a] \notin OpHold \cup OpAwait
      BY <1>1, <2>3, <3>1, Zenon DEF GateStep
    <3>3. a \notin ToSet(opGate)
      BY <3>2, Zenon DEF IInv, OpGate, Discipline
    <3> QED BY <2>1, <2>3, <3>1, <3>3, JoinGate, HeadOfGate, Zenon
  <2>5. pc[c] = "StopGate"
    BY <1>3, <2>4, Zenon DEF Actor
  <2>6. pc[d] \in Leaver
    BY <1>3, <2>2, <2>5, Zenon DEF IInv, Draining, StopPc, StopDrained, Actor
  <2>7. Behind(opGate, c, d)
    <3>1. CASE opGate' = Append(opGate, a) /\ pc[a] \notin OpHold \cup OpAwait /\ a \in Caller
      <4>1. a \notin ToSet(opGate)
        BY <3>1, Zenon DEF IInv, OpGate, Discipline
      <4>2. d # a
        BY <2>3, <2>6, <3>1, Zenon
      <4> QED BY <2>1, <3>1, <4>1, <4>2, JoinGate, Zenon
    <3>2. CASE opGate' = Without(opGate, a)
      BY <2>1, <3>2, QuitGate, Zenon
    <3> QED BY <1>1, <1>5, <3>1, <3>2, Zenon DEF GateStep
  <2> QED BY <2>1, <2>5, <2>6, <2>7, Zenon DEF NoLeaverBehind, At, Leaver
<1> QED BY <1>2, <1>4, <1>6, <1>7, Zenon

\* The holder of a gate is alone at the places that need it.
LEMMA OneHolder ==
  ASSUME IInv
  PROVE  /\ \A a, b \in Actor : Holds(hbGate, a) /\ pc[b] \in HbHold => a = b
         /\ \A a, b \in Actor : pc[a] \in HbHold /\ pc[b] \in HbHold => a = b
         /\ \A c, d \in Caller : Holds(opGate, c) /\ pc[d] \in OpHold => c = d
         /\ \A c, d \in Caller : pc[c] \in OpHold /\ pc[d] \in OpHold => c = d
BY HeadOfGate, Zenon DEF IInv, HbGate, OpGate, Discipline

-----------------------------------------------------------------------------
(* The invariant's parts, and the steps that keep them. *)

\* Owned tasks are sends, reports and leaves.
LEMMA OwnedPlaces == Owned = SendPc \cup ReportPc \cup Leaver
BY Zenon DEF Owned, SendPc, ReportPc, Leaver, LeaveHold, LeaveOpen, LeaveTail, Resuming

\* A step of one actor leaves the others where they are.
LEMMA OthersStay ==
  ASSUME IInv, NEW a \in Actor, Move(a)
  PROVE  \A x \in Actor \ {a} : pc'[x] = pc[x]
BY Zenon DEF Move, IInv, Typed

\* It keeps the types if its new place is one of its own.
LEMMA TypedKept ==
  ASSUME IInv, NEW a \in Actor, Move(a),
         lifecycle' \in Lifecycle, generation' \in 0..MaxGeneration, disk' \in 0..MaxGeneration,
         flags' \subseteq Flag,
         sendsOpen' \in BOOLEAN, accepting' \in BOOLEAN, reportsOpen' \in BOOLEAN,
         readsOpen' \in BOOLEAN, held' \in BOOLEAN, orphan' \in BOOLEAN
  PROVE  Typed'
<1>1. /\ HbGate' /\ OpGate'
      /\ pc' \in [Actor -> LoopPc \cup CallerPc]
      /\ pc'[Loop] \in LoopPc
      /\ \A c \in Caller : pc'[c] \in CallerPc
  BY MoveKeepsGates, Zenon
<1> QED BY <1>1, Zenon DEF Typed, TypeOK, Move, HbGate, OpGate, Discipline, Queue

\* a joins no shutdown that has drained what it is.
CalmPc(a) ==
  /\ UNCHANGED held
  /\ readsOpen' => readsOpen \/ ~Is("shutdown")
  /\ live' \subseteq live \/ readsOpen \/ ~Is("shutdown")
  /\ pc[a] # "Done"
  /\ pc'[a] \in StopPc => pc[a] \in StopPc
  /\ pc'[a] = "StopSends" => \A d \in Caller : pc[d] \notin ReportPc
  /\ pc'[a] \in StopDrained => pc[a] \in StopDrained
  /\ a \in Caller => /\ pc'[a] \in ReportPc => pc[a] \in ReportPc \/ ~Is("shutdown")
                     /\ pc'[a] \in SendPc => pc[a] \in SendPc \/ ~Is("shutdown")
                     /\ pc'[a] \in Owned \cup {"Idle"} \/ ~Is("dropped")
  /\ pc[a] \in Reap => pc'[a] \in Reap \/ At(Loop, "Done")

\* Such a step raises no flag either.
Calm(a) == UNCHANGED flags /\ CalmPc(a)

\* Flags may be set on the way; the scheduler's handle is taken to be waited for.
LEMMA RaisingKept ==
  ASSUME IInv, NEW a \in Actor, Move(a), CalmPc(a),
         NEW F \in SUBSET {"cancel", "operations", "taken", "aborted"}, flags' = flags \cup F,
         "taken" \in F => Is("taken") \/ pc'[a] \in Reap
  PROVE  Draining' /\ (Serialised => Drained')
<1>1. \A x \in Actor \ {a} : pc'[x] = pc[x]
  BY OthersStay, Zenon
<1>2. /\ Serialised => \A c, d \in Caller : pc'[c] \in StopPc /\ pc'[d] \in StopPc => c = d
      /\ \A c \in Caller : pc'[c] \in StopPc => Is("shutdown")
  BY <1>1, Zenon DEF IInv, Draining, CalmPc, Actor
<1>3. ASSUME NEW c \in Caller, pc'[c] \in StopPc \ {"Stop"}, NEW d \in Caller
      PROVE  pc'[d] \notin ReportPc
  BY <1>1, <1>2, <1>3, Zenon DEF IInv, Draining, CalmPc, Actor, StopPc, StopDrained, ReportPc, Resuming
<1>4. ASSUME NEW c \in Caller, pc'[c] \in StopDrained
      PROVE  /\ \A d \in Caller : pc'[d] \notin SendPc
             /\ ~readsOpen' /\ live' = {} /\ Is("operations") /\ Is("taken")
  BY <1>1, <1>2, <1>4, Zenon DEF IInv, Draining, CalmPc, Actor, StopPc, StopDrained, SendPc
<1>5. \/ pc'[Loop] = "Done" \/ Is("dropped") \/ ~Is("taken")
      \/ \E c \in Caller : pc'[c] \in Reap
  BY <1>1, Zenon DEF IInv, Draining, CalmPc, Actor, At, Reap
<1>6. /\ \A f \in {"shutdown", "dropped", "ended"} : f \in flags' <=> f \in flags
      /\ \A f \in {"operations", "taken"} : f \in flags => f \in flags'
      /\ "taken" \in flags' => Is("taken") \/ pc'[a] \in Reap
  BY Zenon DEF Is
<1>7. pc'[a] \in Reap => a \in Caller
  BY Zenon DEF Move, IInv, Typed, Actor, LoopPc, Reap, Resuming
<1>8. Draining'
  BY <1>1, <1>2, <1>3, <1>4, <1>5, <1>6, <1>7, Zenon DEF IInv, Draining, CalmPc, Is, At, Actor
<1>9. Serialised => Drained'
  BY <1>1, OwnedPlaces, Zenon DEF IInv, Draining, Drained, CalmPc, Move, Is, At, Actor
<1> QED BY <1>8, <1>9, Zenon

\* A calm step keeps what a shutdown has drained.
LEMMA DrainingKept ==
  ASSUME IInv, NEW a \in Actor, Move(a), Calm(a)
  PROVE  Draining' /\ (Serialised => Drained')
<1>1. flags' = flags \cup {} /\ CalmPc(a)
  BY Zenon DEF Calm
<1> QED BY <1>1, RaisingKept, Zenon

\* No resume is begun or ended, and none is under way when the lifecycle moves.
LEMMA RotationKept ==
  ASSUME IInv, NEW a \in Actor, Move(a), UNCHANGED <<generation, disk, orphan>>,
         flags \subseteq flags',
         pc[a] \notin Resuming, pc'[a] \notin Resuming,
         pc'[a] = "Expired" => generation < MaxGeneration,
         pc'[a] = "Sending" => seen'[a] = generation /\ lifecycle' # "Recovering",
         \/ lifecycle' = lifecycle
         \/ /\ lifecycle # "Recovering" /\ lifecycle' # "Recovering"
            /\ lifecycle' \in {"Ready", "Leaving"} => lifecycle \in {"Ready", "Leaving"}
  PROVE  Rotation'
BY OthersStay DEF IInv, Rotation, Move, Is, Actor, Resuming

\* Why the heartbeat task may end.
MayEnd == lifecycle \notin {"Ready", "Leaving", "Recovering"} \/ Is("cancel") \/ Is("aborted")

\* The loop ends when it may, and a session does not come back from an end.
LEMMA BeatsKept ==
  ASSUME IInv, NEW a \in Actor, Move(a), flags \subseteq flags',
         pc'[a] = "Done" => MayEnd,
         \/ lifecycle' = lifecycle
         \/ pc'[a] # "Done" /\ lifecycle \in {"Ready", "Leaving", "Recovering"}
  PROVE  BeatsWhileBound'
<1>1. pc'[Loop] = "Done" => MayEnd
  BY OthersStay, Zenon DEF IInv, BeatsWhileBound, MayEnd, At, Actor
<1> QED BY <1>1, OthersStay, Zenon DEF IInv, BeatsWhileBound, MayEnd, At, Is, Actor

\* Steps that change neither lifecycle nor generations, flags, admissions or
\* lock keep the invariant when a is entitled to its next place.
Quiet(a) ==
  /\ Calm(a)
  /\ UNCHANGED <<lifecycle, generation, disk, admissionVars, orphan>>
  /\ live' \subseteq live \/ readsOpen \/ reportsOpen
  /\ pc[a] \notin Resuming /\ pc'[a] \notin Resuming
  /\ pc'[a] = "Expired" => generation < MaxGeneration
  /\ pc'[a] = "Sending" => seen'[a] = generation /\ lifecycle # "Recovering"
  /\ pc'[a] = "Done" => MayEnd
  /\ pc'[a] \in LeaveOpen => pc[a] \in LeaveOpen
  /\ pc'[a] = "BeginLeave" => pc[a] = "DrainReports"
  /\ pc'[a] \notin {"DrainReports", "Reopen"}

\* A step that touches gates and places only keeps the invariant.
LEMMA QuietKeepsIInv ==
  ASSUME IInv, NEW a \in Actor, Move(a), Quiet(a)
  PROVE  IInv'
<1>1. HbGate' /\ OpGate' /\ (Serialised => NoLeaverBehind')
  BY MoveKeepsGates, Zenon
<1>2. Typed'
  BY TypedKept, Zenon DEF IInv, Typed, TypeOK, Quiet, Calm, CalmPc, admissionVars
<1>3. Rotation'
  BY RotationKept, Zenon DEF Quiet, Calm, CalmPc
<1>4. Closing'
  BY OthersStay, Zenon DEF IInv, Closing, Quiet, Calm, CalmPc, Is, admissionVars, Actor
<1>5. BeatsWhileBound'
  BY BeatsKept, Zenon DEF Quiet, Calm, CalmPc
<1>6. Draining' /\ (Serialised => Drained')
  BY DrainingKept, Zenon DEF Quiet
<1> QED BY <1>1, <1>2, <1>3, <1>4, <1>5, <1>6, Zenon DEF IInv

\* A step that moves nobody and changes nothing but a result.
LEMMA SamePlaces ==
  ASSUME IInv, result' \in [Caller -> {"done", "timedout"}],
         UNCHANGED <<coreVars, pc, seen, hbGate, opGate, live, flags, admissionVars, lockVars>>
  PROVE  IInv'
<1> USE DEF coreVars, admissionVars, lockVars
<1>1. Typed' /\ HbGate' /\ OpGate'
  BY Zenon DEF IInv, Typed, TypeOK, HbGate, OpGate, Discipline, Queue, Holds
<1>2. Rotation' /\ Closing' /\ BeatsWhileBound'
  BY Zenon DEF IInv, Rotation, Closing, BeatsWhileBound, At, Is
<1>3. Draining' /\ (Serialised => NoLeaverBehind' /\ Drained')
  BY DEF IInv, Draining, NoLeaverBehind, Drained, At, Is, Behind
<1> QED BY <1>1, <1>2, <1>3, Zenon DEF IInv

\* The end of a call, as a step.
LEMMA EndedMoves ==
  ASSUME IInv, NEW c \in Caller, NEW r \in {"done", "timedout"}, Ended(c, r),
         health' \in Health, live' \subseteq Caller
  PROVE  Move(c) /\ pc'[c] = "Idle"
<1>1. pc'[c] = "Idle" /\ pc' = [pc EXCEPT ![c] = "Idle"] /\ c # Loop
  BY LoopAssumption, Zenon DEF Ended, Goto, IInv, Typed, Actor
<1>2. "Idle" \notin HbHold \cup HbAwait \cup OpHold \cup OpAwait \cup Leaver
  BY Zenon DEF HbHold, HbAwait, OpHold, OpAwait, LeaveTail, LeaveOpen, LeaveHold, Leaver, Resuming
<1>3. "Idle" \in CallerPc /\ "Idle" # "StopGate"
  BY Zenon DEF CallerPc
<1>4. 0 \in 0..MaxGeneration
  BY GenerationAssumption
<1> QED BY <1>1, <1>2, <1>3, <1>4 DEF Ended, Move, GateStep, IInv, Typed, TypeOK

\* A call that ends, at a place where nothing hangs on it.
LEMMA EndedKeepsIInv ==
  ASSUME IInv, NEW c \in Caller, NEW r \in {"done", "timedout"}, Ended(c, r),
         UNCHANGED <<coreVars, live, flags, admissionVars, lockVars>>,
         pc[c] \notin Resuming, pc[c] \in Reap => At(Loop, "Done")
  PROVE  IInv'
<1>1. Move(c) /\ pc'[c] = "Idle"
  BY EndedMoves, Zenon DEF coreVars, IInv, Typed, TypeOK
<1>2. pc[c] # "Done"
  BY Zenon DEF IInv, Typed, CallerPc, Resuming, OpAwait, OpHold, StopPc, StopDrained, LeaveHold,
         LeaveOpen, LeaveTail
<1>3. Quiet(c)
  BY <1>1, <1>2, Zenon DEF Quiet, Calm, CalmPc, lockVars, admissionVars, coreVars, Resuming, LeaveOpen, StopPc, StopDrained, ReportPc, SendPc
<1> QED BY <1>1, <1>3, QuietKeepsIInv, Zenon DEF Actor

-----------------------------------------------------------------------------
(* Sends, reads and mutations. *)

\* What the type invariant says of one caller.
LEMMA CallerTypes ==
  ASSUME IInv, NEW c \in Caller
  PROVE  /\ c \in Actor /\ c # Loop /\ pc \in [Actor -> LoopPc \cup CallerPc]
         /\ pc[c] \in CallerPc /\ pc[c] # "Done"
         /\ health \in Health /\ live \subseteq Caller
         /\ result \in [Caller -> {"done", "timedout"}] /\ seen \in [Caller -> 0..MaxGeneration]
         /\ generation \in 0..MaxGeneration
         /\ pc[c] \notin Owned \cup {"Idle"} => ~Is("dropped")
<1>1. \A d \in Caller : pc[d] \in CallerPc
  BY Zenon DEF IInv, Typed
<1>2. "Done" \notin CallerPc
  BY Zenon DEF CallerPc, Resuming, OpAwait, OpHold, StopPc, StopDrained, LeaveHold, LeaveOpen, LeaveTail
<1> QED BY <1>1, <1>2, LoopAssumption, Zenon DEF IInv, Typed, TypeOK, Actor, Draining

\* Steps of a call, and what they do to the gates: it needs none or has the one it
\* needs, is given it, or waits for it.
CallStep(c, p, s) ==
  \/ /\ <<p, s>> \in {<<"Idle", "SendCheck">>, <<"SendCheck", "Reserve">>, <<"Idle", "Epoch">>,
                      <<"Epoch", "ReadCheck">>, <<"ReadCheck", "ReadReady">>,
                      <<"ReadReady", "Reading">>, <<"MutateCheck", "MutateReady">>,
                      <<"MutateReady", "Mutating">>, <<"Reporting", "Expired">>}
     /\ UNCHANGED <<hbGate, opGate>>
  \/ /\ <<p, s>> \in {<<"SendGate", "Sending">>, <<"ReportGate", "Reporting">>}
     /\ Holds(hbGate, c) /\ UNCHANGED <<hbGate, opGate>>
  \/ p = "MutateGate" /\ s = "MutateCheck" /\ Holds(opGate, c) /\ UNCHANGED <<hbGate, opGate>>
  \/ /\ <<p, s>> \in {<<"Reserve", "SendGate">>, <<"Idle", "ReportGate">>} /\ ~Is("shutdown")
     /\ hbGate' = Append(hbGate, c) /\ UNCHANGED opGate
  \/ /\ p = "Idle" /\ s \in {"MutateGate", "LeaveGate"}
     /\ opGate' = Append(opGate, c) /\ UNCHANGED hbGate

\* They keep the invariant when the call is entitled to what comes next.
LEMMA CallKeepsIInv ==
  ASSUME IInv, NEW c \in Caller, NEW s, Goto(c, s), CallStep(c, pc[c], s),
         UNCHANGED <<coreVars, result, flags, admissionVars, lockVars>>,
         seen' \in [Caller -> 0..MaxGeneration], \A d \in Caller \ {c} : seen'[d] = seen[d],
         live' \subseteq Caller,
         live' \subseteq live \/ readsOpen \/ (reportsOpen /\ ~Is("shutdown")),
         pc[c] = "Idle" => ~Is("dropped"),
         s = "LeaveGate" /\ Serialised => ~Is("shutdown"),
         s = "Sending" => seen'[c] = generation /\ lifecycle # "Recovering",
         s = "Expired" => generation < MaxGeneration
  PROVE  IInv'
<1>1. pc'[c] = s /\ pc' = [pc EXCEPT ![c] = pc'[c]]
  BY CallerTypes, Zenon DEF Goto
<1>2. /\ s \in CallerPc \ (LeaveHold \cup Resuming \cup StopPc \cup {"Done"})
      /\ s \in ReportPc => pc[c] \in ReportPc \/ ~Is("shutdown")
      /\ s \in SendPc => pc[c] \in SendPc \/ ~Is("shutdown")
      /\ pc[c] \notin Resuming \cup Reap
  BY Zenon DEF CallStep, CallerPc, LeaveHold, LeaveOpen, LeaveTail, Resuming, StopPc, StopDrained, Reap,
     ReportPc, SendPc, OpAwait, OpHold
<1>3. GateStep(hbGate, hbGate', c, HbHold, HbAwait, {"Reopen"})
  BY <1>1, Zenon DEF CallStep, GateStep, HbHold, HbAwait, LeaveTail, Resuming
<1>4. GateStep(opGate, opGate', c, OpHold, OpAwait, {})
  BY <1>1, Zenon DEF CallStep, GateStep, OpHold, OpAwait, LeaveTail, LeaveOpen, LeaveHold
<1>5. Move(c)
  BY <1>1, <1>2, <1>3, <1>4, CallerTypes, Zenon DEF Move, Leaver, coreVars, StopPc, StopDrained
<1>6. s \in Owned \cup {"Idle"} \/ ~Is("dropped")
  BY CallerTypes, Zenon DEF CallStep, Owned, Resuming
<1>7. Quiet(c)
  BY <1>1, <1>2, <1>6, CallerTypes, Zenon
     DEF Quiet, Calm, CalmPc, lockVars, admissionVars, coreVars, LeaveHold, StopPc
<1> QED BY <1>5, <1>7, CallerTypes, QuietKeepsIInv, Zenon

\* A send: authority, a place in the ledger, and the request from the gate.
LEMMA SendKeepsIInv ==
  ASSUME IInv, NEW c \in Caller, Send(c) \/ Sending(c)
  PROVE  IInv'
<1> USE DEF At, Resuming, Reap
<1>1. CASE Return(c) /\ pc[c] \notin Resuming \cup Reap
           /\ UNCHANGED <<coreVars, live, flags, admissionVars, lockVars>>
  BY <1>1, EndedKeepsIInv, Zenon DEF Return
<1>2. CASE Send(c)
  BY <1>1, <1>2, CallerTypes, CallKeepsIInv, Zenon DEF Send, Authority, CallStep
<1>3. CASE StillReady(c)
  BY <1>1, <1>3, CallerTypes, CallKeepsIInv DEF StillReady, CallStep
<1>4. CASE Reserve(c)
  BY <1>1, <1>4, CallerTypes, CallKeepsIInv, Zenon DEF Reserve, CallStep
<1>5. CASE SendGate(c)
  BY <1>1, <1>5, CallerTypes, CallKeepsIInv, Zenon DEF SendGate, CallStep
<1>6. CASE SendDone(c)
  BY <1>1, <1>6, Zenon DEF SendDone
<1> QED BY <1>2, <1>3, <1>4, <1>5, <1>6, Zenon DEF Sending

\* Reads and mutations, and a leave's wait for its turn.
LEMMA UnownedKeepsIInv ==
  ASSUME IInv, NEW c \in Caller, Read(c) \/ Mutate(c) \/ Unowned(c) \/ Leave(c)
  PROVE  IInv'
<1> USE DEF At, Resuming, Reap
<1>1. CASE Return(c) /\ pc[c] \notin Resuming \cup Reap
           /\ UNCHANGED <<coreVars, live, flags, admissionVars, lockVars>>
  BY <1>1, EndedKeepsIInv, Zenon DEF Return
<1>2. CASE Read(c)
  BY <1>2, CallerTypes, CallKeepsIInv, Zenon DEF Read, CallStep
<1>3. CASE ReadAuthority(c)
  BY <1>1, <1>3, CallerTypes, CallKeepsIInv, Zenon DEF ReadAuthority, Authority, CallStep
<1>4. CASE ReadDispatch(c)
  BY <1>1, <1>4, CallerTypes, CallKeepsIInv, Zenon DEF ReadDispatch, CallStep
<1>5. CASE MutateDispatch(c)
  BY <1>1, <1>5, CallerTypes, CallKeepsIInv, Zenon DEF MutateDispatch, CallStep
<1>6. CASE UnownedEnds(c)
  BY <1>1, <1>6, Zenon DEF UnownedEnds
<1>7. CASE Mutate(c)
  BY <1>1, <1>7, CallerTypes, CallKeepsIInv, Zenon DEF Mutate, CallStep
<1>8. CASE MutateAuthority(c)
  BY <1>1, <1>8, CallerTypes, CallKeepsIInv, Zenon DEF MutateAuthority, Authority, CallStep
<1>9. CASE Leave(c)
  BY <1>9, CallerTypes, CallKeepsIInv, Zenon DEF Leave, CallStep
<1> QED BY <1>2, <1>3, <1>4, <1>5, <1>6, <1>7, <1>8, <1>9, Zenon DEF Unowned

-----------------------------------------------------------------------------
(* Reports and the heartbeat loop. *)

\* A report's task that gives up the heartbeat gate and ends.
LEMMA ReleaseKeepsIInv ==
  ASSUME IInv, NEW c \in Caller, pc[c] \in {"ReportGate", "Reporting", "Expired"},
         Release(c, "Idle"), health' \in Health,
         UNCHANGED <<lifecycle, generation, disk, seen, live, opGate, flags, admissionVars, lockVars>>
  PROVE  IInv'
<1>1. /\ pc'[c] = "Idle" /\ pc' = [pc EXCEPT ![c] = pc'[c]]
      /\ hbGate' = Without(hbGate, c) /\ result' \in [Caller -> {"done", "timedout"}]
  BY CallerTypes, Zenon DEF Release, Goto
<1>2. Move(c)
  BY <1>1, CallerTypes, Zenon DEF Move, GateStep, CallerPc, OpHold, OpAwait, HbHold,
     HbAwait, LeaveTail, LeaveOpen, LeaveHold, Leaver, Resuming
<1>3. Quiet(c)
  BY <1>1, CallerTypes, Zenon DEF Quiet, Calm, CalmPc, lockVars, admissionVars, LeaveOpen, StopPc, StopDrained, ReportPc, SendPc, Resuming, Reap
<1> QED BY <1>2, <1>3, CallerTypes, QuietKeepsIInv, Zenon

\* A report: the same, and LeaseExpired may be its answer.
LEMMA ReportKeepsIInv ==
  ASSUME IInv, NEW c \in Caller, Report(c) \/ Reporting(c)
  PROVE  IInv'
<1> USE DEF At
<1>1. CASE /\ Release(c, "Idle") /\ pc[c] \in {"ReportGate", "Reporting"} /\ health' \in Health
           /\ UNCHANGED <<lifecycle, generation, disk, seen, live, opGate, flags,
                          admissionVars, lockVars>>
  BY <1>1, ReleaseKeepsIInv, Zenon
<1>2. CASE Report(c) /\ ~Is("shutdown") /\ reportsOpen
  BY <1>2, CallerTypes, CallKeepsIInv, Zenon DEF Report, CallStep
<1>3. CASE Report(c) /\ (Is("shutdown") \/ ~reportsOpen)
  <2>1. /\ UNCHANGED <<coreVars, pc, seen, hbGate, opGate, live, flags, admissionVars, lockVars>>
        /\ result' \in [Caller -> {"done", "timedout"}]
    BY <1>3, CallerTypes, Zenon DEF Report
  <2> QED BY <2>1, SamePlaces, Zenon
<1>4. CASE ReportCancelled(c)
  BY <1>1, <1>4, CallerTypes, Zenon DEF ReportCancelled, coreVars
<1>5. CASE ReportGate(c)
  BY <1>1, <1>5, CallerTypes, CallKeepsIInv, Zenon DEF ReportGate, coreVars, CallStep
<1>6. CASE ReportReply(c) /\ Release(c, "Idle")
  BY <1>1, <1>6, CallerTypes, Zenon DEF ReportReply, Health
<1>7. CASE ReportReply(c) /\ ~Release(c, "Idle")
  BY <1>7, CallerTypes, CallKeepsIInv, Zenon DEF ReportReply, coreVars, CallStep
<1> QED BY <1>2, <1>3, <1>4, <1>5, <1>6, <1>7, Zenon DEF Reporting

\* What the type invariant says of the loop.
LEMMA LoopTypes ==
  ASSUME IInv
  PROVE  /\ Loop \in Actor /\ Loop \notin Caller /\ pc \in [Actor -> LoopPc \cup CallerPc]
         /\ pc[Loop] \in LoopPc
         /\ health \in Health /\ live \subseteq Caller
         /\ result \in [Caller -> {"done", "timedout"}] /\ seen \in [Caller -> 0..MaxGeneration]
         /\ generation \in 0..MaxGeneration
BY LoopAssumption, Zenon DEF IInv, Typed, TypeOK, Actor

\* Steps of the loop and what they do to its gate.
LoopEffect(p, s) ==
  \/ p = "Sleep" /\ s = "Gate" /\ hbGate' = Append(hbGate, Loop)
  \/ p = "Gate" /\ s = "Beating" /\ hbGate' = hbGate /\ Holds(hbGate, Loop)
  \/ p = "Beating" /\ s \in {"Backoff", "Expired"} /\ hbGate' = hbGate
  \/ s \in {"Sleep", "Done"} /\ hbGate' = Without(hbGate, Loop)

\* A step of the heartbeat task is a move.
LEMMA LoopMoves ==
  ASSUME IInv, NEW s, pc' = [pc EXCEPT ![Loop] = s], LoopEffect(pc[Loop], s), health' \in Health,
         UNCHANGED <<seen, live, result, opGate>>
  PROVE  Move(Loop) /\ pc'[Loop] = s
<1>1. pc'[Loop] = s /\ pc' = [pc EXCEPT ![Loop] = pc'[Loop]]
  BY LoopTypes, Zenon
<1>2. pc[Loop] \notin OpHold \cup OpAwait /\ s \notin OpHold \cup OpAwait \cup Leaver
      /\ s \in LoopPc /\ s # "StopGate"
  BY LoopTypes, Zenon DEF LoopEffect, LoopPc, OpHold, OpAwait, LeaveTail, LeaveOpen, LeaveHold, Leaver,
     Resuming
<1>3. GateStep(hbGate, hbGate', Loop, HbHold, HbAwait, {"Reopen"})
  BY <1>1, Zenon DEF GateStep, LoopEffect, HbHold, HbAwait, LeaveTail, Resuming
<1>4. GateStep(opGate, opGate', Loop, OpHold, OpAwait, {})
  BY <1>1, <1>2, Zenon DEF GateStep
<1> QED BY <1>1, <1>2, <1>3, <1>4, LoopTypes, Zenon DEF Move

\* It keeps the invariant if its new place allows what it finds there.
LEMMA LoopKeepsIInv ==
  ASSUME IInv, NEW s, pc' = [pc EXCEPT ![Loop] = s], LoopEffect(pc[Loop], s), health' \in Health,
         UNCHANGED <<lifecycle, generation, disk, seen, live, result, opGate, flags,
                     admissionVars, lockVars>>,
         pc[Loop] \notin Resuming \cup {"Done"},
         s = "Done" => MayEnd, s = "Expired" => generation < MaxGeneration
  PROVE  IInv'
<1>1. Move(Loop) /\ pc'[Loop] = s
  BY LoopMoves, Zenon
<1>2. s \in {"Gate", "Beating", "Backoff", "Expired", "Sleep", "Done"}
  BY Zenon DEF LoopEffect
<1>3. Quiet(Loop)
  BY <1>1, <1>2, LoopTypes, Zenon
     DEF Quiet, Calm, CalmPc, lockVars, admissionVars, LeaveOpen, StopPc, StopDrained, Resuming, Reap, LoopPc
<1> QED BY <1>1, <1>3, LoopTypes, QuietKeepsIInv, Zenon

\* With the gate in the loop's hands nobody resumes: a session that still
\* recovers was aborted.
LEMMA LoopMayEnd ==
  ASSUME IInv, Holds(hbGate, Loop) \/ At(Loop, "Beating"), pc[Loop] \notin Resuming,
         Is("cancel") \/ lifecycle \notin {"Ready", "Leaving"}
  PROVE  MayEnd
<1>1. \A b \in Actor : pc[b] \in HbHold => b = Loop
  BY OneHolder, LoopTypes, Zenon DEF At, HbHold
<1>2. \A b \in Actor : pc[b] \notin Resuming
  BY <1>1, Zenon DEF HbHold
<1> QED BY <1>2, Zenon DEF IInv, Rotation, MayEnd

\* The steps of the heartbeat task outside a resume (run_heartbeat).
LEMMA LoopStepsKeepIInv ==
  ASSUME IInv, LoopWake \/ LoopGate \/ LoopReply \/ LoopBackoff
  PROVE  IInv'
<1> USE DEF At, Goto, Release
<1>1. CASE LoopWake
  <2>1. /\ LoopEffect(pc[Loop], "Gate") /\ pc[Loop] \notin Resuming \cup {"Done"}
        /\ pc' = [pc EXCEPT ![Loop] = "Gate"]
    BY <1>1, Zenon DEF LoopWake, LoopEffect, Resuming
  <2> QED BY <1>1, <2>1, LoopTypes, LoopKeepsIInv, Zenon DEF LoopWake, coreVars
<1>2. CASE LoopBackoff
  <2>1. /\ LoopEffect(pc[Loop], "Sleep") /\ pc[Loop] \notin Resuming \cup {"Done"}
        /\ pc' = [pc EXCEPT ![Loop] = "Sleep"]
    BY <1>2, Zenon DEF LoopBackoff, LoopEffect, Resuming
  <2> QED BY <1>2, <2>1, LoopTypes, LoopKeepsIInv, Zenon DEF LoopBackoff, coreVars
<1>3. CASE LoopGate
  <2>1. pc[Loop] \notin Resuming \cup {"Done"}
    BY <1>3, Zenon DEF LoopGate, Resuming
  <2>2. Is("cancel") \/ lifecycle \notin {"Ready", "Leaving"} => MayEnd
    BY <1>3, <2>1, LoopMayEnd, Zenon DEF LoopGate
  <2> QED BY <1>3, <2>1, <2>2, LoopTypes, LoopKeepsIInv, Zenon DEF LoopGate, LoopEffect, coreVars
<1>4. CASE LoopReply
  <2>1. pc[Loop] \notin Resuming \cup {"Done"}
    BY <1>4, Zenon DEF LoopReply, Resuming
  <2>2. Is("cancel") \/ lifecycle \notin {"Ready", "Leaving"} => MayEnd
    BY <1>4, <2>1, LoopMayEnd, Zenon DEF LoopReply
  <2> QED BY <1>4, <2>1, <2>2, LoopTypes, LoopKeepsIInv, Zenon DEF LoopReply, LoopEffect, Health
<1> QED BY <1>1, <1>2, <1>3, <1>4, Zenon

\* A step of the holder of the heartbeat gate, who alone resumes.
LEMMA RotationAlone ==
  ASSUME NEW a \in Actor, \A b \in Actor \ {a} : pc'[b] \notin HbHold,
         generation' <= disk',
         lifecycle' \in {"Ready", "Leaving"} => disk' = generation',
         orphan' => lifecycle' = "Recovering" /\ generation' < MaxGeneration,
         lifecycle' = "Recovering" => "aborted" \in flags' \/ pc'[a] \in Resuming,
         pc'[a] \notin {"Expired", "Sending"},
         pc'[a] \in Resuming => lifecycle' = "Recovering" /\ ~orphan',
         pc'[a] \in {"Resuming", "Publish"} => generation' < MaxGeneration,
         pc'[a] \in {"Resuming", "PublishReady"} => disk' = generation',
         pc'[a] = "Publish" => disk' = generation' + 1
  PROVE  Rotation'
<1>1. \A b \in Actor \ {a} : pc'[b] \notin Resuming \cup {"Expired", "Sending"}
  BY Zenon DEF HbHold
<1>2. {"Resuming", "Publish", "PublishReady"} = Resuming /\ Caller \subseteq Actor
  BY Zenon DEF Resuming, Actor
<1> QED BY <1>1, <1>2, Zenon DEF Rotation, Is

\* An abort of the loop: with the resume it may have been carrying out, which
\* goes on detached.
LEMMA LoopCancelledKeepsIInv ==
  ASSUME IInv, LoopCancelled
  PROVE  IInv'
<1>1. /\ pc[Loop] # "Done" /\ MayEnd /\ pc' = [pc EXCEPT ![Loop] = "Done"]
      /\ hbGate' = Without(hbGate, Loop) /\ LoopEffect(pc[Loop], "Done")
      /\ orphan' = (orphan \/ pc[Loop] = "Resuming")
      /\ UNCHANGED <<lifecycle, health, generation, disk, seen, live, result, opGate, flags,
                     admissionVars, held>>
  BY Zenon DEF LoopCancelled, MayEnd, Goto, At, coreVars, LoopEffect
<1>2. Move(Loop) /\ pc'[Loop] = "Done"
  BY <1>1, LoopMoves, LoopTypes, Zenon
<1>3. CASE pc[Loop] \notin Resuming
  <2>1. orphan' = orphan
    BY <1>1, <1>3, Zenon DEF Resuming, IInv, Typed
  <2> QED BY <1>1, <1>3, <2>1, LoopTypes, LoopKeepsIInv, Zenon DEF lockVars
<1>4. CASE pc[Loop] \in Resuming
  <2>1. \A b \in Actor : pc[b] \in HbHold => b = Loop
    BY <1>4, OneHolder, LoopTypes, Zenon DEF HbHold
  <2>2. \A b \in Actor \ {Loop} : pc'[b] \notin HbHold
    BY <1>2, <2>1, OthersStay, LoopTypes, Zenon
  <2>3. lifecycle = "Recovering" /\ "aborted" \in flags /\ ~orphan
        /\ generation <= disk /\ (pc[Loop] = "Resuming" => generation < MaxGeneration)
    BY <1>4, LoopTypes, Zenon DEF LoopCancelled, IInv, Rotation, Is, Resuming
  <2>4. Rotation'
    BY <1>1, <1>2, <2>2, <2>3, LoopTypes, RotationAlone, Zenon DEF Resuming
  <2>5. Typed'
    BY <1>1, <1>2, <2>3, LoopTypes, TypedKept, Zenon DEF IInv, Typed, TypeOK, admissionVars
  <2>6. Closing'
    BY <1>1, <1>2, OthersStay, LoopTypes, Zenon DEF IInv, Closing, admissionVars, Actor, Is
  <2>7. BeatsWhileBound'
    BY <1>1, <1>2, BeatsKept, LoopTypes, Zenon
  <2>8. Calm(Loop)
    BY <1>1, <1>2, <1>4, LoopTypes, Zenon DEF Calm, CalmPc, admissionVars, StopPc, StopDrained, Reap, Resuming
  <2> QED BY <1>2, <2>4, <2>5, <2>6, <2>7, <2>8, DrainingKept, MoveKeepsGates, LoopTypes, Zenon DEF IInv
<1> QED BY <1>3, <1>4, Zenon

-----------------------------------------------------------------------------
(* The resume transaction. *)

\* What its steps have in common: whoever takes one is alone with the heartbeat
\* gate.
LEMMA ResumeMoves ==
  ASSUME IInv, NEW a \in Actor, pc[a] \in {"Expired"} \cup Resuming, NEW s,
         \/ Goto(a, s) /\ s \in Resuming /\ UNCHANGED <<hbGate, result>>
         \/ Release(a, s) /\ s \in {"Sleep", "Done"},
         health' \in Health, UNCHANGED <<seen, live, opGate, flags, admissionVars, lockVars>>
  PROVE  /\ Move(a) /\ Calm(a)
         /\ \A b \in Actor \ {a} : pc'[b] \notin HbHold
         /\ pc'[a] = IF s \in Resuming \/ a = Loop THEN s ELSE "Idle"
<1>1. /\ pc' = [pc EXCEPT ![a] = pc'[a]]
      /\ pc'[a] = IF s \in Resuming \/ a = Loop THEN s ELSE "Idle"
      /\ \/ s \in Resuming /\ hbGate' = hbGate
         \/ s \in {"Sleep", "Done"} /\ hbGate' = Without(hbGate, a)
      /\ result' \in [Caller -> {"done", "timedout"}]
  BY LoopTypes, Zenon DEF Goto, Release, Actor, Resuming
<1>2. Move(a)
  BY <1>1, LoopTypes, Zenon DEF Move, GateStep, LoopPc, CallerPc, OpHold, OpAwait, HbHold,
     HbAwait, LeaveTail, LeaveOpen, LeaveHold, Leaver, Resuming
<1>3. Calm(a)
  BY <1>1, LoopTypes, Zenon DEF Calm, CalmPc, lockVars, admissionVars, StopPc, StopDrained, ReportPc,
     SendPc, Resuming, Reap, Owned
<1>4. \A b \in Actor \ {a} : pc'[b] \notin HbHold
  BY <1>2, OneHolder, OthersStay, Zenon DEF HbHold
<1> QED BY <1>1, <1>2, <1>3, <1>4, Zenon

\* The rest of the invariant when the lifecycle is Recovering before or after.
LEMMA ResumeKeepsIInv ==
  ASSUME IInv, NEW a \in Actor, Move(a), Calm(a), Rotation',
         UNCHANGED <<admissionVars, live, orphan>>,
         pc[a] \in {"Expired"} \cup Resuming,
         pc'[a] \in Resuming \cup {"Sleep", "Done", "Idle"}, pc'[a] = "Done" => Is("cancel"),
         \/ lifecycle = "Ready" /\ lifecycle' = "Recovering"
         \/ lifecycle = "Recovering"
            /\ lifecycle' \in {"Recovering", "Ready", "OutcomeUnknown", "RotationFailed"},
         generation' \in 0..MaxGeneration, disk' \in 0..MaxGeneration
  PROVE  IInv'
<1>1. Typed'
  BY TypedKept, Zenon DEF IInv, Typed, TypeOK, Calm, CalmPc, admissionVars, Lifecycle
<1>2. \A c \in Caller : pc'[c] \notin LeaveOpen \cup {"Reopen"}
  <2>1. pc'[a] \notin LeaveOpen \cup {"Reopen"}
    BY Zenon DEF LeaveOpen, Resuming
  <2>2. \A c \in Caller : pc[c] \notin LeaveOpen \cup {"Reopen"}
    BY Zenon DEF IInv, Closing
  <2> QED BY <2>1, <2>2, OthersStay, Zenon DEF Actor
<1>3. pc'[a] \notin {"DrainReports", "BeginLeave"}
  BY Zenon DEF Resuming
<1>4. Closing'
  BY <1>2, <1>3, OthersStay, Zenon DEF IInv, Closing, Actor, admissionVars
<1>5. BeatsWhileBound'
  BY BeatsKept, Zenon DEF Calm, CalmPc, MayEnd, BeatsWhileBound, IInv, At, Is, Actor
<1> QED BY <1>1, <1>4, <1>5, MoveKeepsGates, DrainingKept, Zenon DEF IInv

\* A step of a resume: generations and lifecycle as its next place needs them.
LEMMA ResumeStepKeepsIInv ==
  ASSUME IInv, NEW a \in Actor, NEW s,
         \/ pc[a] = "Expired" /\ lifecycle = "Ready" /\ s \in Resuming
         \/ pc[a] \in Resuming,
         \/ Goto(a, s) /\ s \in Resuming /\ lifecycle' = "Recovering" /\ UNCHANGED <<hbGate, result>>
         \/ /\ Release(a, s) /\ s \in {"Sleep", "Done"}
            /\ lifecycle' \in {"Ready", "OutcomeUnknown", "RotationFailed"},
         s = "Done" => Is("cancel"), health' \in Health,
         UNCHANGED <<seen, live, opGate, flags, admissionVars, lockVars>>,
         generation' \in 0..MaxGeneration, disk' \in 0..MaxGeneration, generation' <= disk',
         lifecycle' = "Ready" => disk' = generation',
         s \in {"Resuming", "Publish"} => generation' < MaxGeneration,
         s \in {"Resuming", "PublishReady"} => disk' = generation',
         s = "Publish" => disk' = generation' + 1
  PROVE  IInv'
<1>1. /\ pc[a] \in {"Expired"} \cup Resuming /\ ~orphan
      /\ lifecycle = "Recovering" \/ (lifecycle = "Ready" /\ lifecycle' = "Recovering")
  <2>1. (pc[a] \in Resuming => lifecycle = "Recovering" /\ ~orphan)
        /\ (orphan => lifecycle = "Recovering")
    BY Zenon DEF IInv, Rotation
  <2>2. s \in Resuming => s \notin {"Sleep", "Done"}
    BY Zenon DEF Resuming
  <2> QED BY <2>1, <2>2, Zenon
<1>2. /\ Move(a) /\ Calm(a) /\ \A b \in Actor \ {a} : pc'[b] \notin HbHold
      /\ pc'[a] = IF s \in Resuming \/ a = Loop THEN s ELSE "Idle"
  BY <1>1, ResumeMoves, Zenon
<1>3. /\ pc'[a] \in Resuming \cup {"Sleep", "Done", "Idle"} /\ (pc'[a] = "Done" => Is("cancel"))
      /\ pc'[a] \in Resuming => pc'[a] = s /\ lifecycle' = "Recovering"
      /\ lifecycle' = "Recovering" => pc'[a] \in Resuming
  BY <1>2, Zenon DEF Resuming
<1>4. Rotation'
  BY <1>1, <1>2, <1>3, RotationAlone, Zenon DEF lockVars, Resuming
<1> QED BY <1>1, <1>2, <1>3, <1>4, ResumeKeepsIInv, Zenon DEF lockVars

\* LeaseExpired is found, a replacement granted, stored and published; or the
\* resume fails.
LEMMA ResumeStepsKeepIInv ==
  ASSUME IInv, NEW a \in Actor, Resume(a)
  PROVE  IInv'
<1> USE DEF At
<1>1. /\ generation \in 0..MaxGeneration /\ disk \in 0..MaxGeneration /\ health \in Health
      /\ MaxGeneration \in Nat /\ generation <= disk
      /\ lifecycle = "Ready" => disk = generation
      /\ pc[a] \in Resuming => lifecycle = "Recovering"
      /\ pc[a] \in {"Expired", "Resuming", "Publish"} => generation < MaxGeneration
      /\ pc[a] \in {"Resuming", "PublishReady"} => disk = generation
      /\ pc[a] = "Publish" => disk = generation + 1
      /\ Resuming = {"Resuming", "Publish", "PublishReady"}
  BY GenerationAssumption, Zenon DEF IInv, Typed, TypeOK, Rotation, Resuming
<1>2. generation < MaxGeneration => generation + 1 \in 0..MaxGeneration
  BY <1>1
<1>3. CASE Recover(a) /\ lifecycle = "Ready"
  <2>1. Goto(a, "Resuming") /\ lifecycle' = "Recovering" /\ pc[a] = "Expired"
        /\ UNCHANGED <<health, generation, disk, seen, live, result, hbGate, opGate, flags,
                       admissionVars, lockVars>>
    BY <1>3, Zenon DEF Recover
  <2> QED BY <1>1, <1>3, <2>1, ResumeStepKeepsIInv
<1>4. CASE Recover(a) /\ lifecycle # "Ready"
  <2>1. Release(a, "Sleep") /\ pc[a] = "Expired"
        /\ UNCHANGED <<coreVars, seen, live, opGate, flags, admissionVars, lockVars>>
    BY <1>4, Zenon DEF Recover, coreVars
  <2>2. CASE a = Loop
    <3>1. LoopEffect(pc[Loop], "Sleep") /\ pc' = [pc EXCEPT ![Loop] = "Sleep"]
          /\ result' = result
      BY <2>1, <2>2, Zenon DEF Release, Goto, LoopEffect
    <3> QED BY <1>1, <2>1, <2>2, <3>1, LoopKeepsIInv, Zenon DEF coreVars
  <2>3. CASE a # Loop
    BY <1>1, <2>1, <2>3, ReleaseKeepsIInv, Zenon DEF Release, coreVars, Actor
  <2> QED BY <2>2, <2>3, Zenon
<1>5. CASE Resumed(a)
  <2>1. Goto(a, "Publish") /\ disk' = generation + 1 /\ pc[a] = "Resuming"
        /\ UNCHANGED <<lifecycle, health, generation, seen, live, result, hbGate, opGate, flags,
                       admissionVars, lockVars>>
    BY <1>5, Zenon DEF Resumed
  <2> QED BY <1>1, <1>2, <2>1, ResumeStepKeepsIInv
<1>6. CASE ResumeFailed(a)
  <2> DEFINE s == IF Is("cancel") THEN "Done" ELSE "Sleep"
  <2>1. /\ Release(a, s) /\ pc[a] = "Resuming" /\ health' \in Health
        /\ lifecycle' \in {"OutcomeUnknown", "Ready", "RotationFailed"}
        /\ disk' \in {disk, generation + 1} /\ (lifecycle' = "Ready" => disk' = disk)
        /\ UNCHANGED <<generation, seen, live, opGate, flags, admissionVars, lockVars>>
    BY <1>6, Zenon DEF ResumeFailed, Health
  <2>2. s \in {"Sleep", "Done"} /\ (s = "Done" => Is("cancel"))
    BY Zenon
  <2> HIDE DEF s
  <2> QED BY <1>1, <1>2, <2>1, <2>2, ResumeStepKeepsIInv
<1>7. CASE Publish(a)
  <2>1. Goto(a, "PublishReady") /\ generation' = generation + 1 /\ pc[a] = "Publish"
        /\ health' \in Health
        /\ UNCHANGED <<lifecycle, disk, seen, live, result, hbGate, opGate, flags,
                       admissionVars, lockVars>>
    BY <1>7, Zenon DEF Publish, Health
  <2> QED BY <1>1, <1>2, <2>1, ResumeStepKeepsIInv
<1>8. CASE PublishReady(a)
  <2> DEFINE s == IF Is("cancel") THEN "Done" ELSE "Sleep"
  <2>1. /\ Release(a, s) /\ pc[a] = "PublishReady" /\ lifecycle' = "Ready"
        /\ UNCHANGED <<health, generation, disk, seen, live, opGate, flags, admissionVars, lockVars>>
    BY <1>1, <1>8, Zenon DEF PublishReady
  <2>2. s \in {"Sleep", "Done"} /\ (s = "Done" => Is("cancel"))
    BY Zenon
  <2> HIDE DEF s
  <2> QED BY <1>1, <2>1, <2>2, ResumeStepKeepsIInv, Zenon
<1> QED BY <1>3, <1>4, <1>5, <1>6, <1>7, <1>8, Zenon DEF Resume

\* A detached resume ends: perhaps its credential reached the disk.
LEMMA OrphanKeepsIInv ==
  ASSUME IInv, OrphanEnds
  PROVE  IInv'
<1>1. /\ orphan /\ disk' \in {disk, generation + 1} /\ orphan' = FALSE
      /\ UNCHANGED <<lifecycle, health, generation, pc, seen, live, result, hbGate, opGate,
                     flags, admissionVars, held>>
  BY Zenon DEF OrphanEnds
<1>2. /\ lifecycle = "Recovering" /\ generation < MaxGeneration /\ generation <= disk
      /\ generation \in 0..MaxGeneration /\ disk \in 0..MaxGeneration
      /\ \A a \in Actor : pc[a] \notin Resuming
  BY <1>1, Zenon DEF IInv, Typed, TypeOK, Rotation
<1>3. disk' \in 0..MaxGeneration /\ generation <= disk'
  BY <1>1, <1>2, GenerationAssumption
<1>4. Rotation'
  BY <1>1, <1>2, <1>3, Zenon DEF IInv, Rotation, Resuming, Is
<1>5. Typed'
  BY <1>1, <1>3, Zenon DEF IInv, Typed, TypeOK, admissionVars
<1>6. HbGate' /\ OpGate' /\ (NoLeaverBehind => NoLeaverBehind')
  BY <1>1 DEF IInv, HbGate, OpGate, Discipline, NoLeaverBehind, At, Queue, Holds, Behind
<1>7. Closing' /\ BeatsWhileBound'
  BY <1>1, Zenon DEF IInv, Closing, BeatsWhileBound, At, Is, admissionVars
<1>8. Draining' /\ (Drained => Drained')
  BY <1>1, Zenon DEF IInv, Draining, Drained, At, Is, admissionVars
<1> QED BY <1>4, <1>5, <1>6, <1>7, <1>8, Zenon DEF IInv

-----------------------------------------------------------------------------
(* What goes out, and the end. *)

\* Where an actor has a request on the wire.
WirePc == {"Sending", "Beating", "Reporting", "Reading", "Mutating", "Resuming", "LeaveRequest"}

\* Where a request may go out from, and what the code has looked at by then.
MayDispatch(a) ==
  \/ pc[a] = "Gate" /\ a = Loop /\ lifecycle = "Ready"
  \/ pc[a] = "SendGate" /\ lifecycle \in {"Ready", "Leaving"}
  \/ pc[a] \in {"ReportGate", "Expired"} /\ lifecycle = "Ready"
  \/ pc[a] = "ReadReady" /\ a \in live
  \/ pc[a] = "MutateReady" /\ ~Is("operations")
  \/ pc[a] = "LeaveHeartbeat"

\* Every request goes out from one of those places.
LEMMA Dispatch ==
  ASSUME IInv, Next, NEW a \in Actor, pc'[a] \in WirePc
  PROVE  pc[a] \in WirePc \/ MayDispatch(a)
<1> USE DEF At
<1> DEFINE Goal == pc[a] \in WirePc \/ MayDispatch(a)
<1>1. ASSUME NEW x \in Actor, NEW s, Goto(x, s),
             s \in WirePc => pc[x] \in WirePc \/ MayDispatch(x)
      PROVE  Goal
  BY <1>1, LoopTypes, Zenon DEF Goto
<1> SUFFICES Goal
  BY Zenon
<1> HIDE DEF Goal
<1>2. ASSUME NEW x \in Actor, NEW s, Goto(x, s), s \notin WirePc
      PROVE  Goal
  BY <1>1, <1>2, Zenon
<1>3. {"Idle", "Sleep", "Done", "Gate", "Backoff", "Expired", "Publish", "PublishReady",
       "SendCheck", "Reserve", "SendGate", "ReportGate", "Epoch", "ReadCheck", "ReadReady",
       "MutateGate", "MutateCheck", "MutateReady", "LeaveGate", "DrainReports", "BeginLeave",
       "StopAdmission", "DrainSends", "LeaveHeartbeat", "Reopen", "Cleanup", "LeaveReap",
       "LeaveAborting", "LeaveEnds", "Stop", "StopSends", "StopReap", "StopAborting", "StopGate"}
      \cap WirePc = {}
  BY Zenon DEF WirePc
<1>4. ASSUME NEW x \in Actor, NEW s, Release(x, s), s \in {"Idle", "Sleep", "Done"} PROVE Goal
  BY <1>2, <1>3, <1>4, Zenon DEF Release
<1>5. ASSUME NEW c \in Caller, Return(c) \/ ReturnTimedOut(c) PROVE Goal
  BY <1>2, <1>3, <1>5, Zenon DEF Return, ReturnTimedOut, Ended, Actor
<1> USE <1>1, <1>2, <1>3, <1>4, <1>5 DEF Actor
<1>6. CASE UNCHANGED pc
  BY <1>6, Zenon DEF Goal
<1>7. CASE OrphanEnds \/ Signal \/ Drop \/ Gone
  BY <1>6, <1>7, Zenon DEF OrphanEnds, Signal, Drop, Gone, vars
<1>8. CASE LoopWake \/ LoopCancelled \/ LoopBackoff
  BY <1>8, LoopTypes, Zenon DEF LoopWake, LoopCancelled, LoopBackoff
<1>9. CASE LoopGate
  BY <1>9, LoopTypes, Zenon DEF LoopGate, MayDispatch
<1>10. CASE LoopReply
  BY <1>10, LoopTypes, Zenon DEF LoopReply
<1>11. ASSUME NEW x \in Actor, Resume(x) PROVE Goal
  <2>1. CASE Recover(x)
    BY <2>1, Zenon DEF Recover, MayDispatch
  <2>2. CASE Resumed(x) \/ Publish(x)
    BY <2>2, Zenon DEF Resumed, Publish
  <2>3. CASE ResumeFailed(x)
    BY <2>3, Zenon DEF ResumeFailed
  <2>4. CASE PublishReady(x)
    BY <2>4, Zenon DEF PublishReady
  <2> QED BY <1>11, <2>1, <2>2, <2>3, <2>4, Zenon DEF Resume
<1>12. ASSUME NEW c \in Caller, Calling(c) PROVE Goal
  BY <1>6, <1>12, Zenon
     DEF Calling, Send, Authority, Report, Read, Mutate, Leave, Shutdown
<1>13. ASSUME NEW c \in Caller, Sending(c) \/ Reporting(c) PROVE Goal
  <2>1. CASE StillReady(c) \/ Reserve(c) \/ SendDone(c) \/ ReportCancelled(c)
    BY <2>1 DEF StillReady, Reserve, SendDone, ReportCancelled
  <2>2. CASE SendGate(c)
    BY <2>2, Zenon DEF SendGate, MayDispatch
  <2>3. CASE ReportGate(c)
    BY <2>3, Zenon DEF ReportGate, MayDispatch
  <2>4. CASE ReportReply(c)
    BY <2>4, Zenon DEF ReportReply
  <2> QED BY <1>13, <2>1, <2>2, <2>3, <2>4, Zenon DEF Sending, Reporting
<1>14. ASSUME NEW c \in Caller, Unowned(c) PROVE Goal
  <2>1. CASE ReadAuthority(c) \/ MutateAuthority(c) \/ UnownedEnds(c)
    BY <2>1, Zenon DEF ReadAuthority, MutateAuthority, Authority, UnownedEnds
  <2>2. CASE ReadDispatch(c) \/ MutateDispatch(c)
    BY <2>2, Zenon DEF ReadDispatch, MutateDispatch, MayDispatch
  <2> QED BY <1>14, <2>1, <2>2, Zenon DEF Unowned
<1>15. ASSUME NEW c \in Caller, Leaving(c) PROVE Goal
  <2>1. CASE LeaveGate(c) \/ DrainReports(c) \/ BeginLeave(c) \/ StopAdmission(c) \/ Reopen(c)
    BY <2>1, Zenon
       DEF LeaveGate, DrainReports, BeginLeave, StopAdmission, Reopen
  <2>2. CASE Rollback(c)
    BY <2>2, Zenon DEF Rollback
  <2>3. CASE DrainSends(c) \/ LeaveReply(c) \/ Cleanup(c)
    BY <2>2, <2>3, Zenon DEF DrainSends, LeaveReply, Cleanup
  <2>4. CASE StoreIntent(c)
    BY <2>2, <2>4, Zenon DEF StoreIntent, MayDispatch
  <2>5. CASE LeaveReap(c) \/ LeaveEnds(c)
    BY <2>5, Zenon DEF LeaveReap, LeaveEnds
  <2> QED BY <1>15, <2>1, <2>3, <2>4, <2>5, Zenon DEF Leaving
<1>16. ASSUME NEW c \in Caller, Stopping(c) PROVE Goal
  BY <1>16, Zenon DEF Stopping, StopReports, StopSends, StopReap, StopGate
<1> QED BY <1>7, <1>8, <1>9, <1>10, <1>11, <1>12, <1>13, <1>14, <1>15, <1>16, Zenon DEF Next, LoopSteps

\* After a successful shutdown, or a leave, nobody is at such a place.
LEMMA NothingGoesOut ==
  ASSUME IInv, Serialised, Next, Is("ended") \/ lifecycle = "Left"
  PROVE  Wire' \subseteq Wire
<1>1. /\ Is("ended") => /\ At(Loop, "Done") /\ \A c \in Caller : pc[c] \notin Owned
                        /\ Is("operations") /\ live = {}
      /\ lifecycle = "Left" => Is("operations") /\ live = {}
      /\ \A c \in Caller : pc[c] = "LeaveHeartbeat" => lifecycle = "Leaving"
  BY Zenon DEF IInv, Draining, Drained, Closing, LeaveOpen
<1>2. {"SendGate", "ReportGate", "Expired", "LeaveHeartbeat"} \subseteq Owned
      /\ "LeaveHeartbeat" \notin LoopPc
  BY Zenon DEF Owned, LoopPc, Resuming
<1>3. ASSUME NEW a \in Actor, MayDispatch(a) PROVE FALSE
  BY <1>1, <1>2, <1>3, LoopTypes, Zenon DEF MayDispatch, Actor, At
<1>4. \A a \in Actor : pc'[a] \in WirePc => pc[a] \in WirePc
  BY <1>3, Dispatch, Zenon
<1> QED BY <1>4, Zenon DEF Wire, WirePc

\* Left, outcome unknown and rotation failed are final.
LEMMA EndStays ==
  ASSUME IInv, Next, lifecycle \in {"Left", "OutcomeUnknown", "RotationFailed"}
  PROVE  UNCHANGED lifecycle
<1> USE DEF At
<1>1. /\ \A a \in Actor : pc[a] \notin Resuming
      /\ \A c \in Caller : pc[c] \notin {"LeaveRequest", "Cleanup", "Reopen"}
  BY Zenon DEF IInv, Rotation, Closing, LeaveOpen
<1>2. CASE LoopWake \/ LoopSteps \/ OrphanEnds \/ Signal \/ Drop \/ Gone
  BY <1>2, Zenon DEF LoopWake, LoopSteps, LoopCancelled, LoopGate, LoopReply, LoopBackoff, OrphanEnds,
     Signal, Drop, Gone, coreVars, vars
<1>3. ASSUME NEW a \in Actor, Resume(a) PROVE UNCHANGED lifecycle
  BY <1>1, <1>3, Zenon DEF Resume, Recover, Resumed, ResumeFailed, Publish, PublishReady, Resuming
<1>4. ASSUME NEW c \in Caller, Calling(c) PROVE UNCHANGED lifecycle
  BY <1>4, Zenon DEF Calling, Send, Report, Read, Mutate, Leave, Shutdown, coreVars
<1>5. ASSUME NEW c \in Caller, Sending(c) \/ Reporting(c) PROVE UNCHANGED lifecycle
  BY <1>5, Zenon DEF Sending, StillReady, Reserve, SendGate, SendDone, Reporting, ReportCancelled,
     ReportGate, ReportReply, coreVars
<1>6. ASSUME NEW c \in Caller, Unowned(c) \/ Stopping(c) PROVE UNCHANGED lifecycle
  BY <1>6, Zenon DEF Unowned, ReadAuthority, ReadDispatch, MutateAuthority, MutateDispatch, UnownedEnds,
     Stopping, StopReports, StopSends, StopReap, StopGate, coreVars
<1>7. ASSUME NEW c \in Caller, Leaving(c) PROVE UNCHANGED lifecycle
  BY <1>1, <1>7, Zenon DEF Leaving, LeaveGate, DrainReports, BeginLeave, StopAdmission, DrainSends,
     Rollback, Reopen, StoreIntent, LeaveReply, Cleanup, LeaveReap, LeaveEnds, coreVars
<1> QED BY <1>2, <1>3, <1>4, <1>5, <1>6, <1>7, Zenon DEF Next

-----------------------------------------------------------------------------
(* Shutdown, its signal, and the drop of the runtime. *)

\* A step of a shutdown, or its return, and what it does to the operation gate.
StopStep(c, s) ==
  \/ /\ Goto(c, s) /\ s \in StopPc /\ pc[c] \in (StopPc \ {"StopGate"}) \cup {"Idle"}
     /\ opGate' = IF s = "StopGate" THEN Append(opGate, c) ELSE opGate
     /\ UNCHANGED <<seen, result, hbGate>>
  \/ s = "Idle" /\ pc[c] \in StopPc /\ (Return(c) \/ ReturnTimedOut(c))

\* What it must find, and leave behind, at its next place.
StopFits(c, s) ==
  /\ flags \subseteq flags' /\ flags' \subseteq Flag /\ "dropped" \notin flags'
  /\ s \in StopPc => "shutdown" \in flags'
  /\ Serialised /\ s \in StopPc => \A d \in Caller : pc[d] \in StopPc => d = c
  /\ s \in StopPc \ {"Stop"} => \A d \in Caller : pc[d] \notin ReportPc
  /\ s \in StopDrained => /\ \A d \in Caller : pc[d] \notin SendPc
                          /\ ~readsOpen' /\ live' = {}
                          /\ "operations" \in flags' /\ "taken" \in flags'
  /\ "taken" \in flags' => \/ pc[Loop] = "Done" \/ s \in Reap
                           \/ "taken" \in flags /\ pc[c] \notin Reap
  /\ "ended" \in flags' => ~held'
  /\ ~held' => "shutdown" \in flags' /\ "operations" \in flags' /\ ~readsOpen' /\ live' = {}
  /\ Serialised /\ ~held' => pc[Loop] = "Done" /\ \A d \in Caller : pc[d] \notin Owned

\* Its places are in no gate but the operation gate, at its end.
LEMMA StopMoves ==
  ASSUME IInv, NEW c \in Caller, NEW s, StopStep(c, s), health' \in Health, live' \subseteq live
  PROVE  Move(c) /\ pc'[c] = s /\ s \in StopPc \cup {"Idle"} /\ pc[c] \in StopPc \cup {"Idle"}
<1>1. live' \subseteq Caller
  BY CallerTypes, Zenon
<1>2. CASE s = "Idle"
  BY <1>1, <1>2, EndedMoves, Zenon DEF StopStep, Return, ReturnTimedOut, StopPc, StopDrained
<1>3. CASE s # "Idle"
  <2>1. pc'[c] = s /\ pc' = [pc EXCEPT ![c] = pc'[c]] /\ s \in StopPc
    BY <1>3, CallerTypes, Zenon DEF StopStep, Goto
  <2>2. /\ s \in CallerPc /\ s \notin OpHold \cup Leaver /\ pc[c] \notin OpHold \cup OpAwait
        /\ s \in OpAwait <=> s = "StopGate"
        /\ s \notin HbHold \cup HbAwait /\ pc[c] \notin HbHold \cup HbAwait \cup {"Reopen"}
    BY <1>3, Zenon DEF StopStep, CallerPc, StopPc, StopDrained, OpHold, OpAwait, HbHold, HbAwait,
       LeaveTail, LeaveOpen, LeaveHold, Leaver, Resuming
  <2>3. GateStep(hbGate, hbGate', c, HbHold, HbAwait, {"Reopen"})
        /\ GateStep(opGate, opGate', c, OpHold, OpAwait, {})
    BY <1>3, <2>1, <2>2, Zenon DEF StopStep, GateStep
  <2> QED BY <1>1, <1>3, <2>1, <2>2, <2>3, CallerTypes, Zenon DEF Move, StopStep
<1> QED BY <1>2, <1>3, Zenon

\* They keep the invariant.
LEMMA StopKeepsIInv ==
  ASSUME IInv, NEW c \in Caller, NEW s, StopStep(c, s), StopFits(c, s), health' \in Health,
         UNCHANGED <<lifecycle, generation, disk, orphan>>, held' \in BOOLEAN,
         sendsOpen' \in BOOLEAN, accepting' \in BOOLEAN, reportsOpen' \in BOOLEAN,
         readsOpen' \in BOOLEAN, reportsOpen' => reportsOpen, readsOpen' => readsOpen,
         live' \subseteq live
  PROVE  IInv'
<1>1. Move(c) /\ pc'[c] = s /\ pc[c] \in StopPc \cup {"Idle"} /\ s \in StopPc \cup {"Idle"}
      /\ flags \subseteq flags' /\ flags' \subseteq Flag
  BY StopMoves, Zenon DEF StopFits
<1>2. \A x \in Actor \ {c} : pc'[x] = pc[x]
  BY <1>1, CallerTypes, OthersStay, Zenon
<1>3. /\ pc[c] \notin Resuming /\ s \notin Resuming
      /\ s \notin {"Done", "Expired", "Sending"}
      /\ s \notin LeaveOpen \cup {"DrainReports", "BeginLeave", "Reopen"}
      /\ s \notin ReportPc \cup SendPc \cup Owned /\ "Idle" \notin StopPc
      /\ StopDrained \subseteq StopPc \ {"Stop"}
  BY <1>1, Zenon DEF LeaveOpen, Resuming, StopPc, StopDrained, ReportPc, SendPc, Owned
<1>4. Typed'
  BY <1>1, CallerTypes, TypedKept, Zenon DEF IInv, Typed, TypeOK
<1>5. Rotation' /\ BeatsWhileBound'
  BY <1>1, <1>3, CallerTypes, RotationKept, BeatsKept, Zenon
<1>6. Closing'
  BY <1>1, <1>2, <1>3, Zenon DEF IInv, Closing, Is, Actor
<1>7. Draining'
  <2>1. ASSUME Serialised, NEW d \in Caller, NEW e \in Caller, pc'[d] \in StopPc, pc'[e] \in StopPc
        PROVE  d = e
    BY <1>1, <1>2, <1>3, <2>1, Zenon DEF StopFits, IInv, Draining, Actor
  <2>2. ASSUME NEW d \in Caller, pc'[d] \in StopPc
        PROVE  /\ "shutdown" \in flags'
               /\ pc'[d] # "Stop" => \A e \in Caller : pc'[e] \notin ReportPc
               /\ pc'[d] \in StopDrained => /\ \A e \in Caller : pc'[e] \notin SendPc
                                            /\ ~readsOpen' /\ live' = {}
                                            /\ "operations" \in flags' /\ "taken" \in flags'
    <3>1. CASE d = c
      BY <1>1, <1>2, <1>3, <2>2, <3>1, Zenon DEF StopFits, Actor
    <3>2. CASE d # c
      <4>1. pc'[d] = pc[d]
        BY <1>2, <3>2, Zenon DEF Actor
      <4>2. /\ Is("shutdown")
            /\ pc[d] # "Stop" => \A e \in Caller : pc[e] \notin ReportPc
            /\ pc[d] \in StopDrained => /\ \A e \in Caller : pc[e] \notin SendPc
                                        /\ ~readsOpen /\ live = {} /\ Is("operations") /\ Is("taken")
        BY <2>2, <4>1, Zenon DEF IInv, Draining
      <4>3. live = {} => live' = {}
        OBVIOUS
      <4> QED BY <1>1, <1>2, <1>3, <4>1, <4>2, <4>3, Zenon DEF Is, Actor
    <3> QED BY <3>1, <3>2
  <2>3. "taken" \in flags' => pc'[Loop] = "Done" \/ \E d \in Caller : pc'[d] \in Reap
    <3>1. "dropped" \notin flags
      BY Zenon DEF StopFits
    <3> QED BY <1>1, <1>2, <3>1, CallerTypes, Zenon DEF StopFits, IInv, Draining, Actor, At, Is
  <2> QED BY <1>1, <1>3, <2>1, <2>3, <2>2, Zenon DEF StopFits, Draining, At, Is
<1>8. Serialised => Drained'
  BY <1>1, <1>2, <1>3, CallerTypes, Zenon DEF StopFits, Drained, At, Actor
<1> QED BY <1>1, <1>4, <1>5, <1>6, <1>7, <1>8, CallerTypes, MoveKeepsGates, Zenon DEF IInv

\* What a shutdown finds.
LEMMA StopFinds ==
  ASSUME IInv, NEW c \in Caller
  PROVE  /\ flags \subseteq Flag /\ held \in BOOLEAN /\ sendsOpen \in BOOLEAN
         /\ accepting \in BOOLEAN /\ reportsOpen \in BOOLEAN /\ readsOpen \in BOOLEAN
         /\ pc[c] \in StopPc =>
              /\ "shutdown" \in flags /\ "dropped" \notin flags
              /\ Serialised => \A d \in Caller : pc[d] \in StopPc => d = c
         /\ pc[c] \in StopPc \ {"Stop"} => \A d \in Caller : pc[d] \notin ReportPc
         /\ pc[c] \in StopDrained => /\ \A d \in Caller : pc[d] \notin SendPc
                                     /\ ~readsOpen /\ live = {}
                                     /\ "operations" \in flags /\ "taken" \in flags
         /\ "taken" \in flags /\ "dropped" \notin flags =>
              pc[Loop] = "Done" \/ \E d \in Caller : pc[d] \in Reap
         /\ "ended" \in flags => ~held
         /\ ~held => "shutdown" \in flags /\ "operations" \in flags /\ ~readsOpen /\ live = {}
         /\ Serialised /\ ~held => pc[Loop] = "Done" /\ \A d \in Caller : pc[d] \notin Owned
<1>1. "Idle" \notin StopPc /\ StopPc \cap Owned = {}
  BY Zenon DEF StopPc, StopDrained, Owned, Resuming
<1> QED BY <1>1, Zenon DEF IInv, Typed, TypeOK, Draining, Drained, At, Is

\* Where its places lie.
LEMMA StopPlaces ==
  /\ "Stop" \in StopPc /\ "Stop" \notin StopDrained /\ "Stop" \notin Reap
  /\ "StopSends" \in StopPc /\ "StopSends" \notin StopDrained /\ "StopSends" \notin Reap
  /\ "StopReap" \in StopPc /\ "StopReap" \in StopDrained /\ "StopReap" \in Reap
  /\ "StopAborting" \in StopPc /\ "StopAborting" \in StopDrained /\ "StopAborting" \in Reap
  /\ "StopGate" \in StopPc /\ "StopGate" \in StopDrained /\ "StopGate" \notin Reap
  /\ "Idle" \notin StopPc /\ "Idle" \notin StopDrained /\ "Idle" \notin Reap
BY Zenon DEF StopPc, StopDrained, Reap

\* shutdown() is called.
LEMMA ShutdownKeepsIInv ==
  ASSUME IInv, NEW c \in Caller, Shutdown(c)
  PROVE  IInv'
<1>1. /\ StopStep(c, "Stop") /\ pc[c] = "Idle" /\ "dropped" \notin flags
      /\ Serialised => \A d \in Caller : pc[d] \notin StopPc
      /\ flags' = flags \cup {"shutdown"} /\ live' \subseteq live
      /\ sendsOpen' = FALSE /\ reportsOpen' = FALSE
      /\ UNCHANGED <<coreVars, accepting, readsOpen, lockVars>>
  BY StopPlaces, Zenon DEF Shutdown, StopStep, At, Is, StopPc, StopDrained
<1>2. StopFits(c, "Stop")
  BY <1>1, StopFinds, StopPlaces, Zenon DEF StopFits, lockVars, Flag
<1> QED BY <1>1, <1>2, StopFinds, StopKeepsIInv, CallerTypes, Zenon DEF coreVars, lockVars

\* Reports drained, sends drained; the reads' token and the operations' set, the
\* scheduler's handle taken.
LEMMA StopDrainsKeepIInv ==
  ASSUME IInv, NEW c \in Caller, StopReports(c) \/ StopSends(c)
  PROVE  IInv'
<1>1. CASE (StopReports(c) /\ Reports # {}) \/ (StopSends(c) /\ Inflight # {})
  <2>1. /\ StopStep(c, "Idle") /\ pc[c] \in StopPc \ Reap /\ accepting' \in {accepting, FALSE}
        /\ UNCHANGED <<coreVars, live, flags, sendsOpen, reportsOpen, readsOpen, lockVars>>
    BY <1>1, StopPlaces, Zenon DEF StopReports, StopSends, StopStep, At, admissionVars
  <2>2. StopFits(c, "Idle")
    BY <2>1, StopFinds, StopPlaces, Zenon DEF StopFits, lockVars
  <2> QED BY <2>1, <2>2, StopFinds, StopKeepsIInv, CallerTypes, Zenon DEF coreVars, lockVars
<1>2. CASE StopReports(c) /\ Reports = {}
  <2>1. /\ StopStep(c, "StopSends") /\ pc[c] = "Stop"
        /\ UNCHANGED <<coreVars, live, flags, admissionVars, lockVars>>
        /\ \A d \in Caller : pc[d] \notin ReportPc
    BY <1>2, StopPlaces, Zenon DEF StopReports, StopStep, At, Reports, ReportPc
  <2>2. StopFits(c, "StopSends")
    BY <2>1, StopFinds, StopPlaces, Zenon DEF StopFits, lockVars, admissionVars
  <2> QED BY <2>1, <2>2, StopFinds, StopKeepsIInv, CallerTypes, Zenon
          DEF coreVars, lockVars, admissionVars
<1>3. CASE StopSends(c) /\ Inflight = {}
  <2> DEFINE s == IF Is("taken") THEN "StopGate" ELSE "StopReap"
  <2>1. /\ StopStep(c, s) /\ pc[c] = "StopSends" /\ accepting' = FALSE /\ readsOpen' = FALSE
        /\ live' = {} /\ flags' = flags \cup {"operations", "cancel", "taken"}
        /\ UNCHANGED <<coreVars, sendsOpen, reportsOpen, lockVars>>
        /\ \A d \in Caller : pc[d] \notin SendPc
    BY <1>3, StopPlaces, Zenon DEF StopSends, StopStep, At, Inflight, SendPc
  <2>2. s \in {"StopReap", "StopGate"} /\ (s = "StopGate" => "taken" \in flags)
    BY Zenon DEF Is
  <2> HIDE DEF s
  <2>3. StopFits(c, s)
    BY <2>1, <2>2, StopFinds, StopPlaces, Zenon DEF StopFits, lockVars, Flag
  <2> QED BY <2>1, <2>3, StopFinds, StopKeepsIInv, CallerTypes, Zenon DEF coreVars, lockVars
<1> QED BY <1>1, <1>2, <1>3, Zenon

\* The scheduler is waited for, or aborted and waited for.
LEMMA StopReapKeepsIInv ==
  ASSUME IInv, NEW c \in Caller, StopReap(c)
  PROVE  IInv'
<1>1. UNCHANGED <<coreVars, live, admissionVars, lockVars>>
  BY Zenon DEF StopReap
<1>2. PICK s \in {"StopGate", "StopAborting", "Idle"} :
        /\ StopStep(c, s) /\ pc[c] \in {"StopReap", "StopAborting"} /\ flags \subseteq flags'
        /\ flags' \subseteq flags \cup {"aborted"} /\ (s \in Reap \/ pc[Loop] = "Done")
  BY StopPlaces, Zenon DEF StopReap, StopStep, At
<1>3. StopFits(c, s)
  BY <1>1, <1>2, StopFinds, StopPlaces, Zenon DEF StopFits, lockVars, admissionVars, Flag
<1> QED BY <1>1, <1>2, <1>3, StopFinds, StopKeepsIInv, CallerTypes, Zenon
        DEF coreVars, lockVars, admissionVars

\* A shutdown that has the operation gate finds no leave and nothing undone.
LEMMA NothingLeft ==
  ASSUME IInv, Serialised, NEW c \in Caller, pc[c] = "StopGate", Holds(opGate, c)
  PROVE  pc[Loop] = "Done" /\ \A d \in Caller : pc[d] \notin Owned
<1>1. "StopGate" \in StopDrained /\ "StopGate" \in StopPc \ {"Stop"}
      /\ "StopGate" \notin Leaver \cup Reap \cup Owned \cup {"Idle"}
      /\ Reap \subseteq Leaver \cup StopPc /\ Leaver \subseteq OpHold \cup OpAwait
  BY Zenon DEF StopDrained, StopPc, Leaver, Reap, Owned, Resuming, LeaveHold, LeaveOpen, LeaveTail,
     OpHold, OpAwait
<1>2. ASSUME NEW d \in Caller, pc[d] \in Leaver PROVE FALSE
  <2>1. Queue(opGate, Caller) /\ d \in ToSet(opGate)
    BY <1>1, <1>2, HeadOfGate, Zenon DEF IInv, OpGate, Discipline
  <2>2. d # c
    BY <1>1, <1>2, Zenon
  <2>3. Behind(opGate, c, d)
    BY <2>1, <2>2, HeadOfGate, Zenon
  <2> QED BY <1>2, <2>3, Zenon DEF IInv, NoLeaverBehind, Leaver, At
<1>3. /\ \A d \in Caller : pc[d] \notin ReportPc \cup SendPc
      /\ Is("taken") /\ ~Is("dropped") /\ \A d \in Caller : pc[d] \in StopPc => d = c
  BY <1>1, Zenon DEF IInv, Draining
<1>4. \A d \in Caller : pc[d] \notin Reap
  BY <1>1, <1>2, <1>3, Zenon
<1> QED BY <1>2, <1>3, <1>4, OwnedPlaces, Zenon DEF IInv, Draining, At

\* It gives up the lock; one that has not gives up itself.
LEMMA StopGateKeepsIInv ==
  ASSUME IInv, NEW c \in Caller, StopGate(c)
  PROVE  IInv'
<1>1. /\ StopStep(c, "Idle") /\ pc[c] = "StopGate" /\ health' \in {health, "Stopped"}
      /\ flags \subseteq flags' /\ flags' \subseteq flags \cup {"ended"}
      /\ UNCHANGED <<lifecycle, generation, disk, live, admissionVars, orphan>>
      /\ \/ held' = FALSE /\ Holds(opGate, c)
         \/ held' = held /\ flags' = flags
  BY StopPlaces, Zenon DEF StopGate, StopStep, At
<1>2. held' \in BOOLEAN /\ ("ended" \in flags' => ~held')
  <2>1. CASE held' = FALSE
    BY <2>1, Zenon
  <2>2. CASE held' = held /\ flags' = flags
    BY <2>2, StopFinds, Zenon
  <2> QED BY <1>1, <2>1, <2>2, Zenon
<1>3. ASSUME Serialised, ~held'
      PROVE  pc[Loop] = "Done" /\ \A d \in Caller : pc[d] \notin Owned
  <2>1. CASE Holds(opGate, c)
    BY <1>1, <1>3, <2>1, NothingLeft, Zenon
  <2>2. CASE held' = held
    BY <1>3, <2>2, StopFinds, Zenon
  <2> QED BY <1>1, <2>1, <2>2, Zenon
<1>4. StopFits(c, "Idle")
  BY <1>1, <1>2, <1>3, StopFinds, StopPlaces, Zenon DEF StopFits, admissionVars, Flag
<1> QED BY <1>1, <1>2, <1>4, StopFinds, StopKeepsIInv, CallerTypes, Zenon DEF admissionVars, Health

\* The signal and the drop close everything and move nobody.
LEMMA SignalKeepsIInv ==
  ASSUME IInv, Signal \/ Drop
  PROVE  IInv'
<1>1. /\ sendsOpen' = FALSE /\ reportsOpen' = FALSE /\ readsOpen' = FALSE /\ live' = {}
      /\ UNCHANGED <<coreVars, pc, seen, result, hbGate, opGate, accepting, lockVars>>
  BY Zenon DEF Signal, Drop
<1>2. /\ flags \subseteq flags' /\ flags' \subseteq Flag /\ {"shutdown", "operations"} \subseteq flags'
      /\ "ended" \in flags' => Is("ended")
      /\ "taken" \in flags' => Is("taken") \/ "dropped" \in flags'
      /\ "dropped" \in flags' => \A c \in Caller : pc[c] \in Owned \cup {"Idle"}
  BY Zenon DEF Signal, Drop, Signalled, Flag, IInv, Typed, TypeOK, Is
<1>3. Typed'
  BY <1>1, <1>2, Zenon DEF IInv, Typed, TypeOK, coreVars, lockVars
<1>4. HbGate' /\ OpGate' /\ (NoLeaverBehind => NoLeaverBehind')
  BY <1>1 DEF IInv, HbGate, OpGate, Discipline, NoLeaverBehind, At, Queue, Holds, Behind
<1>5. Rotation'
  BY <1>1, <1>2, Zenon DEF IInv, Rotation, coreVars, lockVars, Is
<1>6. Closing' /\ BeatsWhileBound'
  BY <1>1, <1>2, Zenon DEF IInv, Closing, BeatsWhileBound, coreVars, At, Is
<1>7. Draining'
  BY <1>1, <1>2, Zenon DEF IInv, Draining, lockVars, At, Is
<1>8. Drained => Drained'
  BY <1>1, Zenon DEF Drained, lockVars, At
<1> QED BY <1>3, <1>4, <1>5, <1>6, <1>7, <1>8, Zenon DEF IInv

-----------------------------------------------------------------------------
(* Leave. *)

\* Steps of a leave and what they do to the heartbeat gate.
LeaveEffect(c, p, s) ==
  \/ p = "LeaveGate" /\ s = "DrainReports" /\ Holds(opGate, c) /\ hbGate' = hbGate
  \/ <<p, s>> \in {<<"DrainReports", "BeginLeave">>, <<"BeginLeave", "StopAdmission">>,
                   <<"StopAdmission", "DrainSends">>, <<"DrainSends", "Reopen">>,
                   <<"LeaveHeartbeat", "Reopen">>, <<"LeaveRequest", "Reopen">>,
                   <<"LeaveRequest", "Cleanup">>, <<"Cleanup", "LeaveReap">>,
                   <<"Cleanup", "LeaveEnds">>, <<"LeaveReap", "LeaveEnds">>,
                   <<"LeaveReap", "LeaveAborting">>}
     /\ hbGate' = hbGate
  \/ p = "DrainSends" /\ s = "LeaveHeartbeat" /\ hbGate' = Append(hbGate, c)
  \/ p = "LeaveHeartbeat" /\ s = "LeaveRequest" /\ Holds(hbGate, c) /\ hbGate' = hbGate

\* They respect both gates.
LEMMA LeaverMoves ==
  ASSUME IInv, NEW c \in Caller, NEW s, Goto(c, s), LeaveEffect(c, pc[c], s), health' \in Health,
         live' \subseteq live, UNCHANGED <<seen, result, opGate>>
  PROVE  /\ Move(c) /\ pc'[c] = s /\ s \in LeaveHold
         /\ pc[c] \in LeaveHold \/ (pc[c] = "LeaveGate" /\ Holds(opGate, c))
<1>1. pc'[c] = s /\ pc' = [pc EXCEPT ![c] = pc'[c]]
  BY CallerTypes, Zenon DEF Goto
<1>2. /\ s \in LeaveHold /\ (s \in OpHold /\ s \notin OpAwait /\ s \in CallerPc /\ s # "StopGate")
      /\ pc[c] \in OpHold \/ Holds(opGate, c)
      /\ pc[c] \in LeaveHold \/ (pc[c] = "LeaveGate" /\ Holds(opGate, c))
  BY Zenon DEF LeaveEffect, OpHold, OpAwait, LeaveHold, LeaveOpen, LeaveTail, CallerPc
<1>3. GateStep(hbGate, hbGate', c, HbHold, HbAwait, {"Reopen"})
  BY <1>1, Zenon DEF GateStep, LeaveEffect, HbHold, HbAwait, LeaveTail, Resuming
<1>4. GateStep(opGate, opGate', c, OpHold, OpAwait, {})
  BY <1>1, <1>2, Zenon DEF GateStep
<1> QED BY <1>1, <1>2, <1>3, <1>4, CallerTypes, Zenon DEF Move, Leaver

\* A step of a leave, or its return.
LeaverStep(c, s) ==
  \/ Goto(c, s) /\ LeaveEffect(c, pc[c], s) /\ UNCHANGED <<seen, result, opGate>>
  \/ Return(c) /\ s = "Idle" /\ pc[c] \in LeaveHold

\* What it must find, and leave behind, at its next place.
LeaverFits(c, s) ==
  /\ live' \subseteq live /\ (readsOpen' => readsOpen \/ ~Is("shutdown"))
  /\ pc[c] \in Reap => s \in Reap \/ pc[Loop] = "Done"
  /\ flags \subseteq flags' /\ flags' \subseteq flags \cup {"cancel", "operations", "taken", "aborted"}
  /\ "taken" \in flags' => "taken" \in flags \/ s \in Reap
  /\ \/ lifecycle' = lifecycle
     \/ /\ lifecycle \in {"Ready", "Leaving"}
        /\ lifecycle' \in {"Ready", "Leaving", "OutcomeUnknown", "Left"}
  /\ s \in LeaveOpen \cup {"Reopen"} => lifecycle' = "Leaving"
  /\ s \in LeaveOpen \cup {"DrainReports", "BeginLeave", "Reopen"} => ~reportsOpen'
  /\ s \in LeaveOpen => ~readsOpen' /\ live' = {}
  /\ lifecycle' = "Left" => ~readsOpen' /\ ~reportsOpen' /\ live' = {} /\ "operations" \in flags'

\* The four admissions are Booleans.
Doors == /\ sendsOpen \in BOOLEAN /\ accepting \in BOOLEAN
         /\ reportsOpen \in BOOLEAN /\ readsOpen \in BOOLEAN

\* A leaver is alone with the operation gate; such a step keeps the invariant.
LEMMA LeaverKeepsIInv ==
  ASSUME IInv, NEW c \in Caller, NEW s, LeaverStep(c, s), LeaverFits(c, s), Doors',
         health' \in Health, UNCHANGED <<generation, disk, lockVars>>
  PROVE  IInv'
<1>0. /\ Move(c) /\ pc'[c] = s /\ s \in LeaveHold \cup {"Idle"}
      /\ pc[c] \in LeaveHold \/ (pc[c] = "LeaveGate" /\ Holds(opGate, c))
  <2>1. live' \subseteq live /\ live' \subseteq Caller
    BY CallerTypes, Zenon DEF LeaverFits
  <2>2. CASE Goto(c, s) /\ LeaveEffect(c, pc[c], s) /\ UNCHANGED <<seen, result, opGate>>
    BY <2>1, <2>2, LeaverMoves, Zenon
  <2>3. CASE Return(c) /\ s = "Idle" /\ pc[c] \in LeaveHold
    BY <2>1, <2>3, EndedMoves, Zenon DEF Return
  <2> QED BY <2>2, <2>3, Zenon DEF LeaverStep
<1>1. /\ pc[c] \notin Resuming /\ s \notin Resuming
      /\ s \notin {"Done", "Expired", "Sending"}
      /\ s \notin StopPc \cup ReportPc \cup SendPc
  BY <1>0, Zenon DEF LeaveHold, LeaveOpen, LeaveTail, Resuming, StopPc, StopDrained, ReportPc, SendPc
<1>2. flags \subseteq flags' /\ flags' \subseteq Flag /\ lifecycle' \in Lifecycle
  BY Zenon DEF IInv, Typed, TypeOK, Flag, Lifecycle, LeaverFits
<1>3. Typed'
  BY <1>0, <1>2, CallerTypes, TypedKept, Zenon DEF IInv, Typed, TypeOK, lockVars, Doors
<1>4. Rotation' /\ BeatsWhileBound'
  BY <1>0, <1>1, <1>2, CallerTypes, RotationKept, BeatsKept, Zenon DEF lockVars, LeaverFits
<1>5. Draining' /\ (Serialised => Drained')
  <2>1. CalmPc(c)
    BY <1>0, <1>1, CallerTypes, OwnedPlaces, Zenon DEF CalmPc, lockVars, Leaver, StopDrained, StopPc,
       LeaverFits, At
  <2> DEFINE F == flags' \ flags
  <2>2. /\ F \in SUBSET {"cancel", "operations", "taken", "aborted"} /\ flags' = flags \cup F
        /\ "taken" \in F => Is("taken") \/ s \in Reap
    BY Zenon DEF LeaverFits
  <2> QED BY <1>0, <2>1, <2>2, CallerTypes, RaisingKept, Zenon
<1>6. Closing'
  <2>1. LeaveOpen \cup {"DrainReports", "BeginLeave", "Reopen"} \subseteq LeaveHold
    BY Zenon DEF LeaveHold
  <2>2. \A d \in Caller \ {c} : pc'[d] \notin LeaveHold
    BY <1>0, CallerTypes, OthersStay, OneHolder, Zenon DEF Actor, OpHold
  <2> QED BY <1>0, <2>1, <2>2, Zenon DEF Closing, Is, LeaverFits
<1> QED BY <1>0, <1>3, <1>4, <1>5, <1>6, CallerTypes, MoveKeepsGates, Zenon DEF IInv

\* What a leaver finds.
LEMMA LeaverFinds ==
  ASSUME IInv, NEW c \in Caller
  PROVE  /\ Doors /\ health \in Health
         /\ pc[c] \in LeaveOpen => lifecycle = "Leaving" /\ ~reportsOpen /\ ~readsOpen /\ live = {}
         /\ pc[c] = "Reopen" => lifecycle = "Leaving"
         /\ pc[c] \in {"DrainReports", "BeginLeave"} => ~reportsOpen
         /\ lifecycle = "Left" => ~readsOpen /\ ~reportsOpen /\ live = {} /\ "operations" \in flags
BY Zenon DEF IInv, Typed, TypeOK, Closing, Is, Doors

\* Where its places lie.
LEMMA LeaverPlaces ==
  /\ "StopAdmission" \in LeaveOpen /\ "StopAdmission" \in LeaveHold
  /\ "StopAdmission" \notin Reap /\ "StopAdmission" \notin Resuming
  /\ "DrainSends" \in LeaveOpen /\ "DrainSends" \in LeaveHold
  /\ "DrainSends" \notin Reap /\ "DrainSends" \notin Resuming
  /\ "LeaveHeartbeat" \in LeaveOpen /\ "LeaveHeartbeat" \in LeaveHold
  /\ "LeaveHeartbeat" \notin Reap /\ "LeaveHeartbeat" \notin Resuming
  /\ "LeaveRequest" \in LeaveOpen /\ "LeaveRequest" \in LeaveHold
  /\ "LeaveRequest" \notin Reap /\ "LeaveRequest" \notin Resuming
  /\ "Cleanup" \in LeaveOpen /\ "Cleanup" \in LeaveHold
  /\ "Cleanup" \notin Reap /\ "Cleanup" \notin Resuming
  /\ "DrainReports" \notin LeaveOpen /\ "DrainReports" \in LeaveHold
  /\ "DrainReports" \notin Reap /\ "DrainReports" \notin Resuming
  /\ "BeginLeave" \notin LeaveOpen /\ "BeginLeave" \in LeaveHold
  /\ "BeginLeave" \notin Reap /\ "BeginLeave" \notin Resuming
  /\ "Reopen" \notin LeaveOpen /\ "Reopen" \in LeaveHold
  /\ "Reopen" \notin Reap /\ "Reopen" \notin Resuming
  /\ "LeaveReap" \notin LeaveOpen /\ "LeaveReap" \in LeaveHold
  /\ "LeaveReap" \in Reap /\ "LeaveReap" \notin Resuming
  /\ "LeaveAborting" \notin LeaveOpen /\ "LeaveAborting" \in LeaveHold
  /\ "LeaveAborting" \in Reap /\ "LeaveAborting" \notin Resuming
  /\ "LeaveEnds" \notin LeaveOpen /\ "LeaveEnds" \in LeaveHold
  /\ "LeaveEnds" \notin Reap /\ "LeaveEnds" \notin Resuming
  /\ "Idle" \notin LeaveOpen /\ "Idle" \notin Reap
  /\ "LeaveGate" \notin LeaveOpen /\ "LeaveGate" \notin Reap
BY Zenon DEF LeaveOpen, LeaveHold, LeaveTail, Reap, Resuming

\* The failed leave gives up, or reopens the reads.
LEMMA RollbackKeepsIInv ==
  ASSUME IInv, NEW c \in Caller, pc[c] \in {"DrainSends", "LeaveHeartbeat", "LeaveRequest"},
         Rollback(c)
  PROVE  IInv'
<1>1. CASE Is("shutdown")
  BY <1>1, EndedKeepsIInv, LeaverPlaces, Zenon DEF Rollback, Return, admissionVars
<1>2. CASE ~Is("shutdown")
  <2>1. /\ LeaverStep(c, "Reopen") /\ readsOpen' = TRUE
        /\ UNCHANGED <<coreVars, live, flags, sendsOpen, accepting, reportsOpen, lockVars>>
    BY <1>2, Zenon DEF Rollback, LeaveEffect, LeaverStep
  <2>2. LeaverFits(c, "Reopen")
    BY <1>2, <2>1, LeaverFinds, LeaverPlaces, Zenon DEF LeaverFits, coreVars
  <2> QED BY <2>1, <2>2, LeaverFinds, LeaverKeepsIInv, Zenon DEF coreVars, Doors
<1> QED BY <1>1, <1>2, Zenon

\* Up to the request: reports and sends drained, reads cancelled.
LEMMA LeaveOpensKeepIInv ==
  ASSUME IInv, NEW c \in Caller,
         LeaveGate(c) \/ DrainReports(c) \/ BeginLeave(c) \/ StopAdmission(c) \/ DrainSends(c)
  PROVE  IInv'
<1> USE DEF At
<1>1. CASE LeaveGate(c)
  <2>1. /\ LeaverStep(c, "DrainReports") /\ pc[c] = "LeaveGate" /\ reportsOpen' = FALSE
        /\ live' \subseteq live
        /\ UNCHANGED <<coreVars, flags, sendsOpen, accepting, readsOpen, lockVars>>
    BY <1>1, Zenon DEF LeaveGate, LeaveEffect, LeaverStep
  <2>2. LeaverFits(c, "DrainReports")
    BY <2>1, LeaverFinds, LeaverPlaces, Zenon DEF LeaverFits, coreVars
  <2> QED BY <2>1, <2>2, LeaverFinds, LeaverKeepsIInv, Zenon DEF coreVars, Doors
<1>2. CASE DrainReports(c) /\ Reports = {}
  <2>1. /\ LeaverStep(c, "BeginLeave") /\ pc[c] = "DrainReports"
        /\ UNCHANGED <<coreVars, live, flags, admissionVars, lockVars>>
    BY <1>2, Zenon DEF DrainReports, LeaveEffect, LeaverStep, admissionVars
  <2>2. LeaverFits(c, "BeginLeave")
    BY <2>1, LeaverFinds, LeaverPlaces, Zenon DEF LeaverFits, coreVars, admissionVars
  <2> QED BY <2>1, <2>2, LeaverFinds, LeaverKeepsIInv, Zenon DEF coreVars, admissionVars, Doors
<1>3. CASE DrainReports(c) /\ Reports # {}
  <2>1. /\ LeaverStep(c, "Idle") /\ pc[c] = "DrainReports"
        /\ reportsOpen' = (reportsOpen \/ (~Is("shutdown") /\ lifecycle = "Ready"))
        /\ UNCHANGED <<coreVars, live, flags, sendsOpen, accepting, readsOpen, lockVars>>
    BY <1>3, LeaverPlaces, Zenon DEF DrainReports, LeaverStep
  <2>2. LeaverFits(c, "Idle")
    BY <2>1, LeaverFinds, LeaverPlaces, Zenon DEF LeaverFits, coreVars
  <2> QED BY <2>1, <2>2, LeaverFinds, LeaverKeepsIInv, Zenon DEF coreVars, Doors
<1>4. CASE BeginLeave(c) /\ lifecycle = "Ready"
  <2>1. /\ LeaverStep(c, "StopAdmission") /\ pc[c] = "BeginLeave"
        /\ lifecycle' = "Leaving" /\ readsOpen' = FALSE /\ live' = {}
        /\ UNCHANGED <<health, generation, disk, flags, sendsOpen, accepting, reportsOpen,
                       lockVars>>
    BY <1>4, Zenon DEF BeginLeave, LeaveEffect, LeaverStep
  <2>2. LeaverFits(c, "StopAdmission")
    BY <1>4, <2>1, LeaverFinds, LeaverPlaces, Zenon DEF LeaverFits
  <2> QED BY <2>1, <2>2, LeaverFinds, LeaverKeepsIInv, Zenon DEF Doors
<1>5. CASE BeginLeave(c) /\ lifecycle # "Ready"
  BY <1>5, EndedKeepsIInv, LeaverPlaces, Zenon DEF BeginLeave, Return, coreVars, admissionVars
<1>6. CASE StopAdmission(c)
  <2>1. /\ LeaverStep(c, "DrainSends") /\ pc[c] = "StopAdmission" /\ sendsOpen' = FALSE
        /\ accepting' = FALSE
        /\ UNCHANGED <<coreVars, live, flags, reportsOpen, readsOpen, lockVars>>
    BY <1>6, Zenon DEF StopAdmission, LeaveEffect, LeaverStep
  <2>2. LeaverFits(c, "DrainSends")
    BY <2>1, LeaverFinds, LeaverPlaces, Zenon DEF LeaverFits, coreVars
  <2> QED BY <2>1, <2>2, LeaverFinds, LeaverKeepsIInv, Zenon DEF coreVars, Doors
<1>7. CASE DrainSends(c) /\ Inflight = {}
  <2>1. /\ LeaverStep(c, "LeaveHeartbeat") /\ pc[c] = "DrainSends"
        /\ UNCHANGED <<coreVars, live, flags, admissionVars, lockVars>>
    BY <1>7, Zenon DEF DrainSends, LeaveEffect, LeaverStep
  <2>2. LeaverFits(c, "LeaveHeartbeat")
    BY <2>1, LeaverFinds, LeaverPlaces, Zenon DEF LeaverFits, coreVars, admissionVars
  <2> QED BY <2>1, <2>2, LeaverFinds, LeaverKeepsIInv, Zenon DEF coreVars, admissionVars, Doors
<1>8. CASE DrainSends(c) /\ Inflight # {}
  BY <1>8, RollbackKeepsIInv, Zenon DEF DrainSends
<1> QED BY <1>1, <1>2, <1>3, <1>4, <1>5, <1>6, <1>7, <1>8, Zenon

\* The request, its outcome, and what follows it.
LEMMA LeaveClosesKeepIInv ==
  ASSUME IInv, NEW c \in Caller,
         StoreIntent(c) \/ LeaveReply(c) \/ Reopen(c) \/ Cleanup(c) \/ LeaveReap(c) \/ LeaveEnds(c)
  PROVE  IInv'
<1> USE DEF At
<1>1. CASE (StoreIntent(c) \/ LeaveReply(c)) /\ Rollback(c)
  BY <1>1, RollbackKeepsIInv, Zenon DEF StoreIntent, LeaveReply
<1>2. CASE (StoreIntent(c) \/ (LeaveReply(c) /\ ~Return(c))) /\ ~Rollback(c)
  <2>1. PICK s \in {"LeaveRequest", "Cleanup"} :
          /\ LeaverStep(c, s) /\ pc[c] \in {"LeaveHeartbeat", "LeaveRequest"}
          /\ UNCHANGED <<coreVars, live, flags, admissionVars, lockVars>>
    BY <1>2, Zenon DEF StoreIntent, LeaveReply, LeaveEffect, LeaverStep
  <2>2. LeaverFits(c, s)
    BY <2>1, LeaverFinds, LeaverPlaces, Zenon DEF LeaverFits, coreVars, admissionVars
  <2> QED BY <2>1, <2>2, LeaverFinds, LeaverKeepsIInv, Zenon DEF coreVars, admissionVars, Doors
<1>3. CASE ((LeaveReply(c) /\ ~Rollback(c)) \/ Cleanup(c)) /\ Return(c)
  <2>1. pc'[c] = "Idle"
    BY <1>3, CallerTypes, Zenon DEF Return, Ended, Goto
  <2>2. /\ LeaverStep(c, "Idle") /\ pc[c] \in {"LeaveRequest", "Cleanup"}
        /\ lifecycle' = "OutcomeUnknown" /\ health' = "OutcomeUnknown"
        /\ UNCHANGED <<generation, disk, live, flags, admissionVars, lockVars>>
    BY <1>3, <2>1, CallerTypes, LeaverPlaces, Zenon DEF LeaveReply, Cleanup, Goto, LeaverStep
  <2>3. LeaverFits(c, "Idle")
    BY <2>2, LeaverFinds, LeaverPlaces, Zenon DEF LeaverFits, admissionVars
  <2> QED BY <2>2, <2>3, LeaverFinds, LeaverKeepsIInv, Zenon DEF admissionVars, Doors, Health
<1>4. CASE Reopen(c)
  <2>1. /\ LeaverStep(c, "Idle") /\ pc[c] = "Reopen" /\ lifecycle' \in {lifecycle, "Ready"}
        /\ UNCHANGED <<health, generation, disk, live, flags, readsOpen, lockVars>>
    BY <1>4, LeaverPlaces, Zenon DEF Reopen, LeaverStep
  <2>2. Doors'
    BY <1>4, LeaverFinds, Zenon DEF Reopen, Doors
  <2>3. LeaverFits(c, "Idle")
    BY <2>1, LeaverFinds, LeaverPlaces, Zenon DEF LeaverFits
  <2> QED BY <2>1, <2>2, <2>3, LeaverFinds, LeaverKeepsIInv, Zenon
<1>5. CASE Cleanup(c) /\ ~Return(c)
  <2> DEFINE s == IF Is("taken") THEN "LeaveEnds" ELSE "LeaveReap"
  <2>1. /\ LeaverStep(c, s) /\ pc[c] = "Cleanup"
        /\ flags' = flags \cup {"cancel", "operations", "taken"}
        /\ lifecycle' = "Left" /\ health' = "Stopped"
        /\ UNCHANGED <<generation, disk, live, admissionVars, lockVars>>
    BY <1>5, Zenon DEF Cleanup, LeaveEffect, LeaverStep
  <2>2. s \in {"LeaveEnds", "LeaveReap"} /\ ("taken" \in flags \/ s \in Reap)
    BY LeaverPlaces, Zenon DEF Is
  <2> HIDE DEF s
  <2>3. LeaverFits(c, s)
    BY <2>1, <2>2, LeaverFinds, LeaverPlaces, Zenon DEF LeaverFits, admissionVars
  <2> QED BY <2>1, <2>3, LeaverFinds, LeaverKeepsIInv, Zenon DEF admissionVars, Doors, Health
<1>6. CASE LeaveReap(c) /\ ~Return(c)
  <2>1. PICK s \in {"LeaveEnds", "LeaveAborting"} :
          /\ LeaverStep(c, s) /\ pc[c] = "LeaveReap" /\ (s \in Reap \/ pc[Loop] = "Done")
          /\ flags \subseteq flags' /\ flags' \subseteq flags \cup {"aborted"}
    BY <1>6, LeaverPlaces, Zenon DEF LeaveReap, LeaveEffect, LeaverStep
  <2>2. UNCHANGED <<coreVars, live, admissionVars, lockVars>>
    BY <1>6, Zenon DEF LeaveReap
  <2>3. LeaverFits(c, s)
    BY <2>1, <2>2, LeaverFinds, LeaverPlaces, Zenon DEF LeaverFits, coreVars, admissionVars
  <2> QED BY <2>1, <2>2, <2>3, LeaverFinds, LeaverKeepsIInv, Zenon DEF coreVars, admissionVars, Doors
<1>7. CASE (LeaveReap(c) /\ Return(c)) \/ LeaveEnds(c)
  <2>1. Return(c) /\ UNCHANGED <<coreVars, live, flags, admissionVars, lockVars>>
        /\ pc[c] \in {"LeaveAborting", "LeaveEnds"} /\ (pc[c] \in Reap => pc[Loop] = "Done")
    BY <1>7, CallerTypes, LeaverPlaces, Zenon DEF LeaveReap, LeaveEnds, Return, Ended, Goto
  <2> QED BY <2>1, EndedKeepsIInv, LeaverPlaces, Zenon DEF Return
<1> QED BY <1>1, <1>2, <1>3, <1>4, <1>5, <1>6, <1>7, Zenon

-----------------------------------------------------------------------------
(* The invariant. *)

\* A session starts with nobody in a gate and everything open.
LEMMA InitIInv == Init => IInv
<1> SUFFICES ASSUME Init PROVE IInv
  BY Zenon
<1>1. /\ pc \in [Actor -> {"Sleep", "Idle"}] /\ pc[Loop] = "Sleep"
      /\ \A c \in Caller : pc[c] = "Idle"
  BY LoopAssumption, Zenon DEF Init, Actor
<1>2. /\ {"Sleep", "Idle"} \cap (HbHold \cup HbAwait \cup OpHold \cup OpAwait \cup Resuming) = {}
      /\ {"Sleep", "Idle"} \subseteq LoopPc \cup CallerPc /\ "Sleep" \in LoopPc /\ "Idle" \in CallerPc
      /\ "Idle" \notin LeaveOpen \cup {"DrainReports", "BeginLeave", "Reopen"} \cup StopPc
  BY Zenon DEF HbHold, HbAwait, OpHold, OpAwait, LeaveTail, LeaveOpen, LeaveHold, Resuming, LoopPc,
     CallerPc, StopPc, StopDrained
<1>3. Typed
  <2>1. lifecycle \in Lifecycle /\ health \in Health /\ live \subseteq Caller /\ flags \subseteq Flag
    BY Zenon DEF Init, Lifecycle, Health
  <2>2. generation \in 0..MaxGeneration /\ disk \in 0..MaxGeneration
        /\ seen \in [Caller -> 0..MaxGeneration] /\ result \in [Caller -> {"done", "timedout"}]
    BY GenerationAssumption DEF Init
  <2>3. hbGate \in Seq(Actor) /\ opGate \in Seq(Caller)
    BY DEF Init
  <2>4. /\ sendsOpen \in BOOLEAN /\ accepting \in BOOLEAN /\ reportsOpen \in BOOLEAN
        /\ readsOpen \in BOOLEAN /\ held \in BOOLEAN /\ orphan \in BOOLEAN
    BY Zenon DEF Init
  <2>5. pc \in [Actor -> LoopPc \cup CallerPc]
    BY <1>1, <1>2, Zenon
  <2> QED BY <1>1, <1>2, <2>1, <2>2, <2>3, <2>4, <2>5, Zenon DEF Typed, TypeOK
<1>4. HbGate /\ OpGate
  <2>1. /\ hbGate \in Seq(Actor) /\ opGate \in Seq(Caller) /\ Len(hbGate) = 0 /\ Len(opGate) = 0
        /\ ToSet(hbGate) = {} /\ ToSet(opGate) = {}
    BY DEF Init, ToSet
  <2>2. Queue(hbGate, Actor) /\ Queue(opGate, Caller)
    BY <2>1 DEF Queue
  <2>3. /\ \A a \in Actor : pc[a] \notin HbHold \cup HbAwait
        /\ \A c \in Caller : pc[c] \notin OpHold \cup OpAwait
    BY <1>1, <1>2, Zenon DEF Actor
  <2> QED BY <2>1, <2>2, <2>3, Zenon DEF HbGate, OpGate, Discipline
<1>5. Rotation /\ Closing /\ BeatsWhileBound
  <2>1. lifecycle = "Ready" /\ generation = 0 /\ disk = 0 /\ ~orphan
    BY Zenon DEF Init
  <2>2. \A a \in Actor : pc[a] \notin Resuming \cup {"Expired", "Publish", "PublishReady", "Sending"}
    BY <1>1, Zenon DEF Resuming
  <2>3. Rotation
    BY <2>1, <2>2 DEF Rotation, Resuming, Actor
  <2>4. Closing
    BY <1>1, <1>2, <2>1, Zenon DEF Closing
  <2>5. BeatsWhileBound
    BY <1>1, Zenon DEF BeatsWhileBound, At
  <2> QED BY <2>3, <2>4, <2>5, Zenon
<1>6. Draining /\ NoLeaverBehind /\ Drained
  BY <1>1, <1>2, Zenon DEF Init, Draining, NoLeaverBehind, Drained, At, Is, StopPc, StopDrained
<1> QED BY <1>3, <1>4, <1>5, <1>6, Zenon DEF IInv

\* Every step keeps the invariant.
LEMMA NextKeepsIInv == IInv /\ [Next]_vars => IInv'
<1> SUFFICES ASSUME IInv, [Next]_vars PROVE IInv'
  BY Zenon
<1>1. CASE Gone \/ UNCHANGED vars
  <2>1. /\ UNCHANGED <<coreVars, pc, seen, hbGate, opGate, live, flags, admissionVars, lockVars>>
        /\ result' \in [Caller -> {"done", "timedout"}]
    BY <1>1, LoopTypes, Zenon DEF Gone, vars, coreVars, admissionVars, lockVars
  <2> QED BY <2>1, SamePlaces, Zenon
<1>2. CASE LoopWake \/ LoopSteps
  BY <1>2, LoopStepsKeepIInv, LoopCancelledKeepsIInv, Zenon DEF LoopSteps
<1>3. CASE OrphanEnds \/ Signal \/ Drop
  BY <1>3, OrphanKeepsIInv, SignalKeepsIInv, Zenon
<1>4. ASSUME NEW a \in Actor, Resume(a) PROVE IInv'
  BY <1>4, ResumeStepsKeepIInv, Zenon
<1>5. ASSUME NEW c \in Caller, Calling(c) PROVE IInv'
  BY <1>5, SendKeepsIInv, ReportKeepsIInv, UnownedKeepsIInv, ShutdownKeepsIInv, Zenon
     DEF Calling
<1>6. ASSUME NEW c \in Caller, Sending(c) \/ Reporting(c) \/ Unowned(c) PROVE IInv'
  BY <1>6, SendKeepsIInv, ReportKeepsIInv, UnownedKeepsIInv, Zenon
<1>7. ASSUME NEW c \in Caller, Leaving(c) PROVE IInv'
  BY <1>7, LeaveOpensKeepIInv, LeaveClosesKeepIInv, Zenon DEF Leaving
<1>8. ASSUME NEW c \in Caller, Stopping(c) PROVE IInv'
  BY <1>8, StopDrainsKeepIInv, StopReapKeepsIInv, StopGateKeepsIInv, Zenon DEF Stopping
<1> QED BY <1>1, <1>2, <1>3, <1>4, <1>5, <1>6, <1>7, <1>8, Zenon DEF Next

\* The invariant always holds.
LEMMA AlwaysIInv == Spec => []IInv
BY InitIInv, NextKeepsIInv, PTL DEF Spec

\* The properties that need no assumption about who calls what when.
Bound == TypeOK /\ OneResume /\ PersistedBeforeVisible /\ WireUsesCurrentCredential
         /\ LeaveIsAlone /\ BeatsWhileBound

\* They follow from the invariant.
LEMMA IInvBound == IInv => Bound
<1> SUFFICES ASSUME IInv PROVE Bound
  BY Zenon
<1>1. TypeOK /\ BeatsWhileBound
  BY Zenon DEF IInv, Typed
<1>2. OneResume
  <2>1. \A a, b \in Actor : pc[a] \in Resuming /\ pc[b] \in Resuming => a = b
    BY OneHolder, Zenon DEF HbHold
  <2> QED BY <2>1, Zenon DEF IInv, Rotation, OneResume
<1>3. PersistedBeforeVisible /\ WireUsesCurrentCredential
  BY Zenon DEF IInv, Rotation, PersistedBeforeVisible, WireUsesCurrentCredential, At
<1>4. LeaveIsAlone
  <2> SUFFICES ASSUME NEW c \in Caller, pc[c] \in {"LeaveRequest", "Cleanup"}
               PROVE  /\ \A a \in Actor \ {c} : pc[a] \notin {"Sending", "Beating", "Reporting",
                                                              "Mutating", "Resuming"}
                      /\ live = {}
    BY Zenon DEF LeaveIsAlone
  <2>1. {"LeaveRequest", "Cleanup"} \subseteq HbHold \cap OpHold \cap LeaveOpen
        /\ {"Sending", "Beating", "Reporting", "Resuming"} \subseteq HbHold
        /\ "Mutating" \in OpHold \ LoopPc
    BY Zenon DEF HbHold, OpHold, LeaveHold, LeaveOpen, LeaveTail, Resuming, LoopPc
  <2>2. live = {}
    BY <2>1, Zenon DEF IInv, Closing
  <2>3. \A a \in Actor \ {c} : pc[a] \notin HbHold
    BY <2>1, OneHolder, Zenon DEF Actor
  <2>4. \A a \in Actor \ {c} : pc[a] # "Mutating"
    BY <2>1, OneHolder, LoopTypes, Zenon DEF Actor
  <2> QED BY <2>1, <2>2, <2>3, <2>4, Zenon
<1> QED BY <1>1, <1>2, <1>3, <1>4, Zenon DEF Bound

\* The ones about the lock: a leave called behind a shutdown could outlive it, and
\* a second shutdown does not wait for the heartbeat task the first one has taken.
LEMMA IInvSession ==
  ASSUME Serialised
  PROVE  IInv => SessionInvariant
<1> SUFFICES ASSUME IInv PROVE SessionInvariant
  BY Zenon
<1>1. Bound
  BY IInvBound, Zenon
<1>2. ~held => At(Loop, "Done") /\ \A c \in Caller : pc[c] \notin Owned
  BY Zenon DEF IInv, Drained
<1>3. WritersHoldLock
  BY <1>2, Zenon DEF WritersHoldLock, Writing, Locked, At, Owned
<1>4. ReleasedMeansDrained
  BY <1>2, Zenon DEF ReleasedMeansDrained, Reports, Inflight, Owned
<1> QED BY <1>1, <1>3, <1>4, Zenon DEF Bound, SessionInvariant

-----------------------------------------------------------------------------
(* The theorems. *)

\* Whatever calls are made, and in whatever order: one resume runs at a time and
\* its credential is on disk before anybody uses it (resume_transaction); a send
\* goes out with the credential in use; the request to leave goes out with no
\* other request on the wire and no read alive (leave); and the heartbeat task
\* ends only when the session does (run_heartbeat).
THEOREM SessionIsAlwaysBound ==
  Spec => [](/\ TypeOK /\ OneResume /\ PersistedBeforeVisible /\ WireUsesCurrentCredential
             /\ LeaveIsAlone /\ BeatsWhileBound)
BY AlwaysIInv, IInvBound, PTL DEF Bound

\* If no leave is called once a shutdown was, and no two shutdowns overlap, the
\* profile's files are moreover written under its lock only, and the lock is given up with no owned task left
\* (shutdown).
THEOREM SessionIsAlwaysSound ==
  ASSUME Serialised
  PROVE  Spec => []SessionInvariant
<1>1. IInv => SessionInvariant
  BY IInvSession, Zenon
<1> QED BY <1>1, AlwaysIInv, PTL

\* Under the same assumption no request goes out after a successful shutdown or a
\* completed leave (read_with_epoch, the operation gate, the owned sends).
THEOREM NothingGoesOutAfterEnd ==
  ASSUME Serialised
  PROVE  Spec => NothingAfterEnd
<1>1. IInv /\ [Next]_vars => [Is("ended") \/ lifecycle = "Left" => Wire' \subseteq Wire]_vars
  BY NothingGoesOut, Zenon
<1> QED BY <1>1, AlwaysIInv, PTL DEF Spec, NothingAfterEnd

\* A session that was left, whose leave has an unknown outcome, or whose rotation
\* failed stays so: no rollback_leave, resume_transaction or second leave revives it.
THEOREM EndIsAlwaysFinal == Spec => EndIsFinal
<1>1. IInv /\ [Next]_vars =>
        [(lifecycle \in {"Left", "OutcomeUnknown", "RotationFailed"}) => UNCHANGED lifecycle]_vars
  BY EndStays, Zenon
<1> QED BY <1>1, AlwaysIInv, PTL DEF Spec, EndIsFinal

================================================================================
