------------------------------ MODULE Binding ------------------------------
(***************************************************************************)
(* The life of one local profile across processes, crashes and an         *)
(* unreliable relay connection: join_and_bind, start, the heartbeat loop's *)
(* resume, leave with its journal, the cleanup of a confirmed leave and    *)
(* recover_orphaned_leave.                                                 *)
(*                                                                         *)
(* On disk there are three records: the credential, the profile metadata   *)
(* and the leave journal.  Each is replaced or removed in one step (module *)
(* Replace), but a step may fail, and a failed one may have taken effect.  *)
(* A credential is the instance it names; the relay is reduced to what it  *)
(* answers for an instance.  What runs inside one live session is the      *)
(* subject of module Session.                                              *)
(***************************************************************************)
EXTENDS Naturals, FiniteSets

CONSTANTS Process,     \* processes that use the profile: psst, psst-mcp, ...
          Membership,  \* memberships the relay can issue
          Instance,    \* instances it can issue
          None,        \* no record, no request, no owner
          MaxTrouble   \* how often the environment misbehaves in a behaviour

TroubleAssumption == MaxTrouble \in Nat

VARIABLES
  credential,  \* the instance the credential record names
  metadata,    \* the membership the profile record names
  journal,     \* the leave journal
  lock,        \* the process that holds the profile lock
  squad,       \* "active" or "archived"
  left,        \* memberships that ended
  instances,   \* the relay's instances: whose, and whether closed or expired
  pc,          \* where each process is
  bound,       \* the membership it works for
  cred,        \* the credential it holds in memory
  request,     \* its relay call
  reply,       \* the relay's answer to it
  late,        \* calls nobody waits for that the relay may still execute
  trouble      \* misbehaviours so far

diskVars == <<credential, metadata, journal>>
relayVars == <<squad, left, instances>>
callVars == <<request, reply>>
vars == <<diskVars, lock, relayVars, pc, bound, cred, callVars, late, trouble>>

Intent(m) == [phase |-> "Intent", membership |-> m]
Confirmed(m) == [phase |-> "Confirmed", membership |-> m]
ConfirmedRecord == {Confirmed(m) : m \in Membership}
Journal == {Intent(m) : m \in Membership} \cup ConfirmedRecord

Op == {"Join", "Heartbeat", "Resume", "Leave"}
Call(op, i) == [op |-> op, instance |-> i]
Calls == {Call(op, i) : op \in Op, i \in Instance \cup {None}}
Refusal == {"LeaseExpired", "NotMember", "SquadArchived", "NotFound",
            "NameInUse", "Busy", "OutcomeUnknown"}
Answers == {"Ok"} \cup Refusal \cup Instance

\* None stands for absence only, and an answer that is an instance for nothing else.
NoneAssumption ==
  /\ None \notin Process /\ None \notin Membership /\ None \notin Journal
  /\ None \notin Calls /\ None \notin Answers
  /\ Instance \cap ({"Ok"} \cup Refusal) = {}

NoInstance == [membership |-> None, closed |-> TRUE, expired |-> TRUE]

Init ==
  /\ credential = None /\ metadata = None /\ journal = None /\ lock = None
  /\ squad = "active"
  /\ left = {}
  /\ instances = [i \in Instance |-> NoInstance]
  /\ pc = [p \in Process |-> "Idle"]
  /\ bound = [p \in Process |-> None]
  /\ cred = [p \in Process |-> None]
  /\ request = [p \in Process |-> None]
  /\ reply = [p \in Process |-> None]
  /\ late = {}
  /\ trouble = 0

-----------------------------------------------------------------------------
(* The relay, as far as one member's credential can tell. *)

Owner(i) == instances[i].membership
Fresh == {i \in Instance : Owner(i) = None}
Issued == {Owner(i) : i \in Instance \ Fresh}
Live(m) == {i \in Instance : /\ Owner(i) = m
                             /\ ~instances[i].closed
                             /\ ~instances[i].expired}
Ended(m) == m \in left \/ squad = "archived"

\* Expiry is reported before the membership is looked at.
Authorize(i) ==
  IF instances[i].expired THEN "LeaseExpired"
  ELSE IF squad = "archived" THEN "SquadArchived"
  ELSE IF instances[i].closed \/ Owner(i) \in left THEN "NotMember"
  ELSE "Ok"

\* A membership that was left is not found; a live owner is not displaced.
ResumeVerdict(i) ==
  IF Owner(i) \in left THEN "NotFound"
  ELSE IF squad = "archived" THEN "SquadArchived"
  ELSE IF Live(Owner(i)) # {} THEN "NameInUse"
  ELSE "Ok"

Opened(j, m) == [membership |-> m, closed |-> FALSE, expired |-> FALSE]

\* What executing a call changes and answers.  A join or a resume that the
\* bounded ids cannot serve is refused.
Executed(call, answer) ==
  CASE call.op = "Heartbeat" ->
         answer = Authorize(call.instance) /\ UNCHANGED relayVars
    [] call.op = "Leave" ->
         /\ answer = Authorize(call.instance)
         /\ left' = IF answer = "Ok" THEN left \cup {Owner(call.instance)} ELSE left
         /\ instances' = IF answer = "Ok"
                         THEN [instances EXCEPT ![call.instance].closed = TRUE]
                         ELSE instances
         /\ UNCHANGED squad
    [] call.op = "Resume" ->
         \/ /\ ResumeVerdict(call.instance) # "Ok" \/ Fresh = {}
            /\ answer = IF ResumeVerdict(call.instance) = "Ok" THEN "Busy"
                        ELSE ResumeVerdict(call.instance)
            /\ UNCHANGED relayVars
         \/ \E j \in Fresh :
              /\ ResumeVerdict(call.instance) = "Ok"
              /\ answer = j
              /\ instances' = [i \in Instance |->
                   IF i = j THEN Opened(j, Owner(call.instance))
                   ELSE IF Owner(i) = Owner(call.instance)
                        THEN [instances[i] EXCEPT !.closed = TRUE]
                   ELSE instances[i]]
              /\ UNCHANGED <<squad, left>>
    [] call.op = "Join" ->
         \/ /\ answer = IF squad = "archived" THEN "SquadArchived" ELSE "NameInUse"
            /\ UNCHANGED relayVars
         \/ \E j \in Fresh, m \in Membership \ Issued :
              /\ squad = "active"
              /\ answer = j
              /\ instances' = [instances EXCEPT ![j] = Opened(j, m)]
              /\ UNCHANGED <<squad, left>>

Execute(p) ==
  /\ request[p] # None
  /\ reply[p] = None
  /\ \E answer \in Answers :
       /\ Executed(request[p], answer)
       /\ reply' = [reply EXCEPT ![p] = answer]
  /\ UNCHANGED <<diskVars, lock, pc, bound, cred, request, late, trouble>>

ExecuteLate ==
  /\ \E call \in late :
       /\ \E answer \in Answers : Executed(call, answer)
       /\ late' = late \ {call}
  /\ UNCHANGED <<diskVars, lock, pc, bound, cred, callVars, trouble>>

\* A request that p no longer waits for may be executed afterwards.
Abandoned(p) ==
  IF request[p] # None /\ reply[p] = None
  THEN {late, late \cup {request[p]}} ELSE {late}

Misbehave == trouble < MaxTrouble /\ trouble' = trouble + 1

\* The client's timeout or a broken connection: the outcome is unknown, also
\* when the call was executed.
GiveUp(p) ==
  /\ request[p] # None
  /\ reply[p] # "OutcomeUnknown"
  /\ Misbehave
  /\ late' \in Abandoned(p)
  /\ reply' = [reply EXCEPT ![p] = "OutcomeUnknown"]
  /\ UNCHANGED <<diskVars, lock, relayVars, pc, bound, cred, request>>

\* DatabaseBusy: refused by the channel, or a dispatch that timed out.
AnswerBusy(p) ==
  /\ request[p] # None
  /\ reply[p] = None
  /\ Misbehave
  /\ late' \in Abandoned(p)
  /\ reply' = [reply EXCEPT ![p] = "Busy"]
  /\ UNCHANGED <<diskVars, lock, relayVars, pc, bound, cred, request>>

\* Leases end only while instances are left to resume with, also when the
\* replies of some resumes are still to be lost: a bound of the model.  Nobody
\* resumes a membership that was left.
Expire(i) ==
  /\ i \notin Fresh
  /\ Cardinality(Fresh) > MaxTrouble - trouble + Cardinality(late) \/ Owner(i) \in left
  /\ ~instances[i].expired
  /\ instances' = [instances EXCEPT ![i].expired = TRUE]
  /\ UNCHANGED <<diskVars, lock, squad, left, pc, bound, cred, callVars, late, trouble>>

\* Another member archives the squad.
Archive ==
  /\ squad = "active"
  /\ squad' = "archived"
  /\ UNCHANGED <<diskVars, lock, left, instances, pc, bound, cred, callVars, late, trouble>>

-----------------------------------------------------------------------------
(* Steps of a process. *)

At(p, s) == pc[p] = s
Goto(p, s) == pc' = [pc EXCEPT ![p] = s]

\* The process gives the profile up: the lock goes with it.
Exit(p) ==
  /\ Goto(p, "Idle")
  /\ lock' = IF lock = p THEN None ELSE lock
  /\ bound' = [bound EXCEPT ![p] = None]
  /\ cred' = [cred EXCEPT ![p] = None]
  /\ request' = [request EXCEPT ![p] = None]
  /\ reply' = [reply EXCEPT ![p] = None]

Stay == UNCHANGED <<lock, bound, cred, callVars>>

Send(p, op, i, s) ==
  /\ Goto(p, s)
  /\ request' = [request EXCEPT ![p] = Call(op, i)]
  /\ reply' = [reply EXCEPT ![p] = None]

\* The reply is taken and the call forgotten.
Take(p, s) ==
  /\ Goto(p, s)
  /\ request' = [request EXCEPT ![p] = None]
  /\ reply' = [reply EXCEPT ![p] = None]

\* A write that succeeds goes to s.  One that fails is an error to the caller
\* although the record may have been replaced, and goes to bad.
Written(p, record, new, s, bad) ==
  \/ record' = new /\ Goto(p, s) /\ Stay /\ UNCHANGED trouble
  \/ record' \in {record, new} /\ Misbehave
     /\ IF bad = "Idle" THEN Exit(p) ELSE Goto(p, bad) /\ Stay

\* Commands.  open_session and from_environment read the profile before they
\* have its lock, and choose start or recover_orphaned_leave by it.
Open(p) ==
  /\ At(p, "Idle")
  /\ Goto(p, IF metadata = None THEN "Recover" ELSE "Start")
  /\ bound' = [bound EXCEPT ![p] = metadata]
  /\ UNCHANGED <<diskVars, lock, relayVars, cred, callVars, late, trouble>>

\* psst squad join, which does not look for a journal first.
JoinCommand(p) ==
  /\ At(p, "Idle")
  /\ Goto(p, "Join")
  /\ UNCHANGED <<diskVars, lock, relayVars, bound, cred, callVars, late, trouble>>

\* ProfileLock::acquire refuses at once when another process has it.
LockTaken(p) ==
  /\ pc[p] \in {"Start", "Recover", "Join"}
  /\ lock # None
  /\ Exit(p)
  /\ UNCHANGED <<diskVars, relayVars, late, trouble>>

\* start: the profile is read again under the lock.
Start(p) ==
  /\ At(p, "Start") /\ lock = None
  /\ \/ metadata # bound[p] /\ Exit(p)
     \/ metadata = bound[p] /\ lock' = p /\ Goto(p, "Load")
        /\ UNCHANGED <<bound, cred, callVars>>
  /\ UNCHANGED <<diskVars, relayVars, late, trouble>>

RecoverOrphanedLeave(p) ==
  /\ At(p, "Recover") /\ lock = None
  /\ \/ /\ metadata # None \/ journal \notin ConfirmedRecord
        /\ Exit(p)
     \/ /\ metadata = None /\ journal \in ConfirmedRecord
        /\ lock' = p
        /\ Goto(p, "ClearCredential")
        /\ UNCHANGED <<bound, cred, callVars>>
  /\ UNCHANGED <<diskVars, relayVars, late, trouble>>

\* start_locked_with up to its heartbeat: a journal of another membership and
\* an absent or foreign credential are errors.
Load(p) ==
  /\ At(p, "Load")
  /\ \/ /\ journal \notin {None, Intent(bound[p]), Confirmed(bound[p])}
        /\ Exit(p)
     \/ /\ journal = Confirmed(bound[p])
        /\ Goto(p, "ClearCredential")
        /\ Stay
     \/ /\ journal \in {None, Intent(bound[p])}
        /\ IF credential # None /\ Owner(credential) = bound[p]
           THEN /\ cred' = [cred EXCEPT ![p] = credential]
                /\ Send(p, "Heartbeat", credential, "FirstHeartbeat")
                /\ UNCHANGED <<lock, bound>>
           ELSE Exit(p)
  /\ UNCHANGED <<diskVars, relayVars, late, trouble>>

\* Ready, once a pending Intent is removed.
Publish(p) == Take(p, IF journal = None THEN "Running" ELSE "RemoveIntent")

\* Faulty: only the relay's Ok and LeaseExpired are told apart.
FirstHeartbeatPlain(p) ==
  /\ At(p, "FirstHeartbeat") /\ reply[p] # None
  /\ \/ reply[p] = "Ok" /\ Publish(p) /\ UNCHANGED <<lock, bound, cred>>
     \/ reply[p] = "LeaseExpired" /\ Send(p, "Resume", cred[p], "FirstResume")
        /\ UNCHANGED <<lock, bound, cred>>
     \/ reply[p] \notin {"Ok", "LeaseExpired"} /\ Exit(p)
  /\ UNCHANGED <<diskVars, relayVars, late, trouble>>

\* Faulty: an expired lease ends the start.
FirstHeartbeatOnly(p) ==
  /\ At(p, "FirstHeartbeat") /\ reply[p] # None
  /\ \/ reply[p] = "Ok" /\ Publish(p) /\ UNCHANGED <<lock, bound, cred>>
     \/ /\ reply[p] \in {"NotMember", "SquadArchived"} /\ journal # None
        /\ Take(p, "ConfirmRecovered") /\ UNCHANGED <<lock, bound, cred>>
     \/ /\ reply[p] # "Ok"
        /\ ~(reply[p] \in {"NotMember", "SquadArchived"} /\ journal # None)
        /\ Exit(p)
  /\ UNCHANGED <<diskVars, relayVars, late, trouble>>

FirstHeartbeat(p) ==
  /\ At(p, "FirstHeartbeat") /\ reply[p] # None
  /\ \/ reply[p] = "Ok" /\ Publish(p) /\ UNCHANGED <<lock, bound, cred>>
     \/ reply[p] = "LeaseExpired" /\ Send(p, "Resume", cred[p], "FirstResume")
        /\ UNCHANGED <<lock, bound, cred>>
     \/ /\ reply[p] \in {"NotMember", "SquadArchived"} /\ journal # None
        /\ Take(p, "ConfirmRecovered") /\ UNCHANGED <<lock, bound, cred>>
     \/ /\ reply[p] \notin {"Ok", "LeaseExpired"}
        /\ ~(reply[p] \in {"NotMember", "SquadArchived"} /\ journal # None)
        /\ Exit(p)
  /\ UNCHANGED <<diskVars, relayVars, late, trouble>>

\* resume_transaction of a start: any failure ends it.
FirstResume(p) ==
  /\ At(p, "FirstResume") /\ reply[p] # None
  /\ \/ reply[p] \in Instance /\ Take(p, "PersistFirst")
        /\ cred' = [cred EXCEPT ![p] = reply[p]] /\ UNCHANGED <<lock, bound>>
     \/ reply[p] \notin Instance /\ Exit(p)
  /\ UNCHANGED <<diskVars, relayVars, late, trouble>>

PersistFirst(p) ==
  /\ At(p, "PersistFirst")
  /\ Written(p, credential, cred[p],
             IF journal = None THEN "Running" ELSE "RemoveIntent", "Idle")
  /\ UNCHANGED <<metadata, journal, relayVars, late>>

\* The relay answered for the credential: the pending leave did not happen.
RemoveIntent(p) ==
  /\ At(p, "RemoveIntent")
  /\ Written(p, journal, None, "Running", "Idle")
  /\ UNCHANGED <<credential, metadata, relayVars, late>>

ConfirmRecovered(p) ==
  /\ At(p, "ConfirmRecovered")
  /\ Written(p, journal, Confirmed(bound[p]), "ClearCredential", "Idle")
  /\ UNCHANGED <<credential, metadata, relayVars, late>>

-----------------------------------------------------------------------------
(* join_and_bind_owned *)

Join(p) ==
  /\ At(p, "Join") /\ lock = None
  /\ \/ /\ metadata # None \/ credential # None
        /\ Exit(p)
     \/ /\ metadata = None /\ credential = None
        /\ lock' = p
        /\ Send(p, "Join", None, "JoinReply")
        /\ UNCHANGED <<bound, cred>>
  /\ UNCHANGED <<diskVars, relayVars, late, trouble>>

JoinReply(p) ==
  /\ At(p, "JoinReply") /\ reply[p] # None
  /\ \/ /\ reply[p] \in Instance
        /\ bound' = [bound EXCEPT ![p] = Owner(reply[p])]
        /\ cred' = [cred EXCEPT ![p] = reply[p]]
        /\ Take(p, "StoreCredential")
        /\ UNCHANGED lock
     \/ reply[p] \notin Instance /\ Exit(p)
  /\ UNCHANGED <<diskVars, relayVars, late, trouble>>

\* A failing store that replaced the record anyway makes a partial join.
StoreCredential(p) ==
  /\ At(p, "StoreCredential")
  /\ Written(p, credential, cred[p], "StoreProfile", "Idle")
  /\ UNCHANGED <<metadata, journal, relayVars, late>>

StoreProfile(p) ==
  /\ At(p, "StoreProfile")
  /\ Written(p, metadata, bound[p], "Load", "ClearNew")
  /\ UNCHANGED <<credential, journal, relayVars, late>>

\* store_profile failed: the new credential is removed again.
ClearNew(p) ==
  /\ At(p, "ClearNew")
  /\ \/ credential' = None /\ UNCHANGED trouble
     \/ credential' \in {credential, None} /\ Misbehave
  /\ Exit(p)
  /\ UNCHANGED <<metadata, journal, relayVars, late>>

-----------------------------------------------------------------------------
(* A running session: its heartbeat loop and leave. *)

Heartbeat(p) ==
  /\ At(p, "Running")
  /\ Send(p, "Heartbeat", cred[p], "Beat")
  /\ UNCHANGED <<diskVars, lock, relayVars, bound, cred, late, trouble>>

\* Everything but an expired lease leaves the session running, if degraded.
Beat(p) ==
  /\ At(p, "Beat") /\ reply[p] # None
  /\ \/ reply[p] = "LeaseExpired" /\ Send(p, "Resume", cred[p], "Recovering")
     \/ reply[p] # "LeaseExpired" /\ Take(p, "Running")
  /\ UNCHANGED <<diskVars, lock, relayVars, bound, cred, late, trouble>>

\* Fenced: lifecycle OutcomeUnknown or RotationFailed.
Recovering(p) ==
  /\ At(p, "Recovering") /\ reply[p] # None
  /\ \/ reply[p] \in Instance /\ Goto(p, "Persist")
        /\ request' = [request EXCEPT ![p] = None] /\ UNCHANGED reply
     \/ reply[p] = "OutcomeUnknown" /\ Take(p, "Fenced")
     \/ reply[p] \notin Instance \cup {"OutcomeUnknown"} /\ Take(p, "Running")
  /\ UNCHANGED <<diskVars, lock, relayVars, bound, cred, late, trouble>>

\* The replacement is stored before the session uses it.
Persist(p) ==
  /\ At(p, "Persist")
  /\ \/ /\ credential' = reply[p]
        /\ cred' = [cred EXCEPT ![p] = reply[p]]
        /\ Take(p, "Running")
        /\ UNCHANGED trouble
     \/ /\ credential' \in {credential, reply[p]}
        /\ Misbehave
        /\ Take(p, "Fenced")
        /\ UNCHANGED cred
  /\ UNCHANGED <<metadata, journal, lock, bound, relayVars, late>>

\* leave, once sends and reports have drained and the heartbeat gate is held.
\* Without a stored Intent it is rolled back.
LeaveCommand(p) ==
  /\ At(p, "Running")
  /\ Goto(p, "StoreIntent")
  /\ UNCHANGED <<diskVars, lock, relayVars, bound, cred, callVars, late, trouble>>

StoreIntent(p) ==
  /\ At(p, "StoreIntent")
  /\ Written(p, journal, Intent(bound[p]), "SendLeave", "Running")
  /\ UNCHANGED <<credential, metadata, relayVars, late>>

SendLeave(p) ==
  /\ At(p, "SendLeave")
  /\ Send(p, "Leave", cred[p], "LeaveReply")
  /\ UNCHANGED <<diskVars, lock, relayVars, bound, cred, late, trouble>>

\* Faulty: an unknown outcome counts as done.
LeaveReplyHopeful(p) ==
  /\ At(p, "LeaveReply") /\ reply[p] # None
  /\ \/ /\ reply[p] \in {"Ok", "NotMember", "SquadArchived", "OutcomeUnknown"}
        /\ Take(p, "Confirm")
     \/ /\ reply[p] \notin {"Ok", "NotMember", "SquadArchived", "OutcomeUnknown"}
        /\ Take(p, "Retract")
  /\ UNCHANGED <<diskVars, lock, relayVars, bound, cred, late, trouble>>

\* NotMember and SquadArchived are as good as a success; any other answer of
\* the relay is taken for a refusal; no answer keeps the Intent.
LeaveReply(p) ==
  /\ At(p, "LeaveReply") /\ reply[p] # None
  /\ \/ reply[p] \in {"Ok", "NotMember", "SquadArchived"} /\ Take(p, "Confirm")
     \/ reply[p] = "OutcomeUnknown" /\ Take(p, "Fenced")
     \/ /\ reply[p] \notin {"Ok", "NotMember", "SquadArchived", "OutcomeUnknown"}
        /\ Take(p, "Retract")
  /\ UNCHANGED <<diskVars, lock, relayVars, bound, cred, late, trouble>>

Retract(p) ==
  /\ At(p, "Retract")
  /\ Written(p, journal, None, "Running", "Fenced")
  /\ UNCHANGED <<credential, metadata, relayVars, late>>

Confirm(p) ==
  /\ At(p, "Confirm")
  /\ Written(p, journal, Confirmed(bound[p]), "LeaveCredential", "Fenced")
  /\ UNCHANGED <<credential, metadata, relayVars, late>>

\* cleanup_confirmed_leave, in a leave (Left: lifecycle Left, the lock still
\* held) and in a start or a recovery.
LeaveCredential(p) ==
  /\ At(p, "LeaveCredential")
  /\ Written(p, credential, None, "LeaveProfile", "Left")
  /\ UNCHANGED <<metadata, journal, relayVars, late>>

LeaveProfile(p) ==
  /\ At(p, "LeaveProfile")
  /\ Written(p, metadata, None, "LeaveJournal", "Left")
  /\ UNCHANGED <<credential, journal, relayVars, late>>

LeaveJournal(p) ==
  /\ At(p, "LeaveJournal")
  /\ Written(p, journal, None, "Left", "Left")
  /\ UNCHANGED <<credential, metadata, relayVars, late>>

\* A second leave() of a session that has left repeats the cleanup.
LeaveAgain(p) ==
  /\ At(p, "Left")
  /\ Goto(p, "LeaveCredential")
  /\ UNCHANGED <<diskVars, lock, relayVars, bound, cred, callVars, late, trouble>>

ClearCredential(p) ==
  /\ At(p, "ClearCredential")
  /\ Written(p, credential, None, "ClearProfile", "Idle")
  /\ UNCHANGED <<metadata, journal, relayVars, late>>

ClearProfile(p) ==
  /\ At(p, "ClearProfile")
  /\ Written(p, metadata, None, "ClearJournal", "Idle")
  /\ UNCHANGED <<credential, journal, relayVars, late>>

ClearJournal(p) ==
  /\ At(p, "ClearJournal")
  /\ journal' = None
  /\ Exit(p)
  /\ UNCHANGED <<credential, metadata, relayVars, late, trouble>>

\* Shutdown, or the end of a command.
Stop(p) ==
  /\ pc[p] \in {"Running", "Fenced", "Left"}
  /\ Exit(p)
  /\ UNCHANGED <<diskVars, relayVars, late, trouble>>

Crash(p) ==
  /\ ~At(p, "Idle")
  /\ Misbehave
  /\ late' \in Abandoned(p)
  /\ Exit(p)
  /\ UNCHANGED <<diskVars, relayVars>>

-----------------------------------------------------------------------------
Command(p) == Open(p) \/ JoinCommand(p) \/ LockTaken(p) \/ Start(p)
              \/ RecoverOrphanedLeave(p) \/ Join(p)
Opening(p) == Load(p) \/ FirstHeartbeat(p) \/ FirstResume(p) \/ PersistFirst(p)
              \/ RemoveIntent(p) \/ ConfirmRecovered(p)
Joining(p) == JoinReply(p) \/ StoreCredential(p) \/ StoreProfile(p) \/ ClearNew(p)
Running(p) == Heartbeat(p) \/ Beat(p) \/ Recovering(p) \/ Persist(p)
Leaving(p) == StoreIntent(p) \/ SendLeave(p) \/ LeaveReply(p)
              \/ Retract(p) \/ Confirm(p)
Clearing(p) == LeaveCredential(p) \/ LeaveProfile(p) \/ LeaveJournal(p)
               \/ ClearCredential(p) \/ ClearProfile(p) \/ ClearJournal(p)

Next ==
  \/ \E p \in Process : \/ Command(p) \/ Opening(p) \/ Joining(p) \/ Running(p)
                        \/ LeaveCommand(p) \/ Leaving(p) \/ LeaveAgain(p)
                        \/ Clearing(p) \/ Stop(p) \/ Crash(p)
                        \/ Execute(p) \/ GiveUp(p) \/ AnswerBusy(p)
  \/ ExecuteLate
  \/ \E i \in Instance : Expire(i)
  \/ Archive

Spec == Init /\ [][Next]_vars

\* A process takes its next step, the relay answers a waiting call, somebody
\* keeps opening the profile (SF: joins that are refused in between do not
\* count), a fenced or left session ends, and so does a lease whose credential
\* nobody holds.  Nothing is assumed of joins, leaves, other expiry or late
\* calls.
Unattended(i) == i # credential /\ \A p \in Process : cred[p] # i

Fairness ==
  /\ \A p \in Process :
       /\ SF_vars(Open(p))
       /\ WF_vars(LockTaken(p) \/ Start(p) \/ RecoverOrphanedLeave(p) \/ Join(p))
       /\ WF_vars(Opening(p)) /\ WF_vars(Joining(p)) /\ WF_vars(Leaving(p))
       /\ WF_vars(Clearing(p)) /\ WF_vars(Execute(p))
       /\ WF_vars(Beat(p) \/ Recovering(p) \/ Persist(p))
       /\ WF_vars(Stop(p) /\ ~At(p, "Running"))
  /\ \A i \in Instance : WF_vars(Expire(i) /\ Unattended(i))

FairSpec == Spec /\ Fairness

-----------------------------------------------------------------------------
\* The files, the relay's rows and every process's copy of them are well formed.
TypeOK ==
  /\ credential \in Instance \cup {None}
  /\ metadata \in Membership \cup {None}
  /\ journal \in Journal \cup {None}
  /\ lock \in Process \cup {None}
  /\ squad \in {"active", "archived"}
  /\ left \subseteq Membership
  /\ bound \in [Process -> Membership \cup {None}]
  /\ cred \in [Process -> Instance \cup {None}]
  /\ reply \in [Process -> Answers \cup {None}]
  /\ late \subseteq Calls
  /\ trouble \in 0..MaxTrouble

\* session.rs: "clears local authority only after confirmed relay leave".  A
\* Confirmed record names a membership that the relay has ended.
ConfirmedMeansEnded ==
  journal \in ConfirmedRecord => Ended(journal.membership)

\* The profile record, and the credential beside it, disappear only when their
\* membership has ended or the join that wrote them failed.
AuthorityOutlivesMembership ==
  [][/\ metadata # None /\ metadata' # metadata => Ended(metadata)
     /\ metadata # None /\ credential # None /\ credential' = None
          => Ended(metadata) \/ \E p \in Process : At(p, "ClearNew")]_vars

\* A process that runs a session, or is recovering one, holds the lock, works
\* for the profile on disk, and the credential on disk is the one it uses (or
\* the one it is about to use).
RunningMatchesDisk ==
  \A p \in Process :
    pc[p] \in {"Running", "Beat", "Recovering", "StoreIntent", "SendLeave",
               "LeaveReply", "Retract", "Confirm"} =>
      /\ lock = p
      /\ metadata = bound[p]
      /\ credential = cred[p]

\* A leave the relay executed is known to the disk: as long as the records of
\* a membership that was left are there, so is its journal.  A call that is
\* executed late breaks this.
LeftIsJournaled ==
  metadata \in left => journal \in {Intent(metadata), Confirmed(metadata)}

\* Every stored credential can still act: its membership has ended, or the
\* relay will accept it once the present lease (its own, or that of an
\* instance whose credential was lost in a crash) is over.
CredentialCanRecover ==
  credential # None /\ ~Ended(Owner(credential)) =>
    \/ Authorize(credential) = "Ok"
    \/ /\ instances[credential].expired
       /\ ResumeVerdict(credential) \in {"Ok", "NameInUse"}

\* What the disk says of the membership is true: a Confirmed journal names one
\* that has ended, a running session is the one on disk, and a stored
\* credential can still act (start, leave and the cleanups of session.rs).
DiskTellsTruth ==
  TypeOK /\ ConfirmedMeansEnded /\ RunningMatchesDisk /\ CredentialCanRecover

\* The two ways a left membership's records stay for good: the leave that was
\* refused as busy is executed once its Intent is gone, or the lease of an
\* unconfirmed leave ends before a start has asked.
Stranded(m) ==
  journal = None \/ (journal = Intent(m) /\ credential # None /\ instances[credential].expired)

\* A profile that nobody is at work on and whose membership was left is cleared
\* in the end, through crashes, lost replies and failing writes, unless it is
\* stranded.
\* W-303-cooperative-session-runtime.md:50 promises it without the exception:
\* start_locked_with recognises NotMember and SquadArchived, and answers
\* LeaseExpired with a resume that meets NotFound.
LeftProfileIsCleared ==
  \A m \in Membership :
    (lock = None /\ metadata = m /\ m \in left) ~> (metadata # m \/ Stranded(m))

\* Both records are there, nobody is at work on them, and no journal of an
\* earlier membership lies before them.
Intact(m) ==
  /\ lock = None /\ metadata = m
  /\ credential # None /\ Owner(credential) = m
  /\ journal \in {None, Intent(m)}

\* An intact profile opens in the end, unless its membership ended: lost
\* resumes and lost credentials delay a start by a lease, and no more
\* (start_locked_with, resume_transaction).
BoundProfileOpens ==
  \A m \in Membership :
    Intact(m) ~> \/ \E p \in Process : At(p, "Running") /\ bound[p] = m
                 \/ Ended(m)

=============================================================================
