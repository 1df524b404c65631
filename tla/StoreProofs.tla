---------------------------- MODULE StoreProofs ----------------------------
(***************************************************************************)
(* Proofs about Store, for every choice of its constants: ownership and    *)
(* leases first, then history, mail and the log, then the pages of a       *)
(* transcript.                                                             *)
(*                                                                         *)
(* Then about Schema, the opening and migrating of the file the store is   *)
(* in, for any number of processes and any plans: the committed tables are *)
(* those of the committed ledger, nothing recorded is ever lost, an open   *)
(* store has all migrations of its build, and another application's file   *)
(* gets no table.  The invariant adds what the exclusive transaction       *)
(* gives: only the process that holds the lock migrates, and its draft is  *)
(* whole, contains all that is committed, and began from a file that was   *)
(* psst's or nobody's.                                                     *)
(***************************************************************************)
EXTENDS Store, Schema, FiniteSetTheorems, WellFoundedInduction, TLAPS

USE DEF Millis, Null

\* Every operation keeps the tables well formed.
LEMMA TypeStep == TypeOK /\ Ownership /\ [Next]_vars => TypeOK'
<1> SUFFICES ASSUME TypeOK, Ownership, [Next]_vars PROVE TypeOK'
  BY Zenon
<1> USE LeaseAssumption, MillisAssumption, BoundAssumption, NoRowAssumption
<1>1. ASSUME NEW q \in SquadName, CreateSquad(q)
      PROVE  TypeOK'
  BY <1>1, Zenon DEF TypeOK, CreateSquad
<1>2. ASSUME NEW q \in SquadName, NEW mission \in BOOLEAN,
             NEW name \in MemberName, NEW m \in MembershipId,
             NEW i \in InstanceId, NEW now \in Millis,
             JoinAndClaim(q, mission, name, m, i, now)
      PROVE  TypeOK'
  <2>1. NewInstance(m, m, now) \in InstanceRow
    BY <1>2 DEF JoinAndClaim, JoinVerdict, LeaseFits, NewInstance, InstanceRow
  <2>2. [squad |-> q, name |-> name, left |-> FALSE] \in MembershipRow
    BY Zenon DEF MembershipRow
  <2> QED
    BY <1>2, <2>1, <2>2, Zenon DEF TypeOK, JoinAndClaim
<1>3. ASSUME NEW s \in Session, NEW now \in Millis,
             AuthenticatedHeartbeat(s, now)
      PROVE  TypeOK'
  <2> DEFINE at == EffectiveNow(s.instance, now)
             old == instances[s.instance]
  <2>1. old \in InstanceRow
    BY <1>3, Zenon DEF TypeOK, AuthenticatedHeartbeat, HeartbeatVerdict,
                AuthorizeCurrent, AuthenticateHistorical, Session
  <2>2. at \in Millis
    BY <2>1, Zenon DEF Later, EffectiveNow, InstanceRow
  <2>3. at + Lease \in Millis
    BY <1>3, <2>2 DEF AuthenticatedHeartbeat, HeartbeatVerdict, LeaseFits
  <2>4. Later(at + Lease, old.lease_expires_at) \in Millis
    BY <2>1, <2>3, Zenon DEF Later, InstanceRow
  <2> QED
    BY <1>3, <2>1, <2>2, <2>4, Zenon
       DEF TypeOK, AuthenticatedHeartbeat, InstanceRow, Session
<1>4. ASSUME NEW s \in Session, NEW q \in SquadName, NEW now \in Millis,
             AuthenticatedLeave(s, q, now)
      PROVE  TypeOK'
  <2>1. instances[s.instance] \in InstanceRow
    BY <1>4, Zenon DEF TypeOK, AuthenticatedLeave, AuthenticatedLeaveVerdict,
                AuthorizeCurrent, AuthenticateHistorical, Session
  <2>2. /\ MembershipOf(s) \in MembershipId
        /\ memberships[MembershipOf(s)] \in MembershipRow
    BY <2>1, Zenon DEF TypeOK, Ownership, IsMember, MembershipOf, InstanceRow, Session
  <2>3. [instances[s.instance] EXCEPT !.closed = TRUE] \in InstanceRow
    BY <2>1, Zenon DEF InstanceRow
  <2>4. [memberships[MembershipOf(s)] EXCEPT !.left = TRUE] \in MembershipRow
    BY <2>2, Zenon DEF MembershipRow
  <2> QED
    BY <1>4, <2>2, <2>3, <2>4, Zenon DEF TypeOK, AuthenticatedLeave, Session
<1>5. ASSUME NEW s \in Session, NEW q \in SquadName, NEW now \in Millis,
             AuthenticatedArchiveByName(s, q, now)
      PROVE  TypeOK'
  BY <1>5, Zenon DEF TypeOK, AuthenticatedArchiveByName
<1>6. ASSUME NEW s \in Session, NEW q \in SquadName, NEW i \in InstanceId,
             NEW now \in Millis, AuthenticatedResume(s, q, i, now)
      PROVE  TypeOK'
  <2>1. instances[s.instance] \in InstanceRow
    BY <1>6, Zenon DEF TypeOK, AuthenticatedResume, ResumeVerdict,
                AuthenticateHistorical, Session
  <2>2. NewInstance(MembershipOf(s), s.token, now) \in InstanceRow
    BY <1>6, <2>1 DEF AuthenticatedResume, ResumeVerdict, LeaseFits,
                      NewInstance, InstanceRow, MembershipOf, Session
  <2>3. \A j \in Unclosed(MembershipOf(s)) :
           [instances[j] EXCEPT !.closed = TRUE] \in InstanceRow
    BY Zenon DEF TypeOK, Unclosed, InstancesOf, InstanceRow
  <2>4. CloseUnclosed(MembershipOf(s)) \in [InstanceId -> InstanceRow \cup {NoRow}]
    BY <2>3, Zenon DEF TypeOK, CloseUnclosed
  <2> QED
    BY <1>6, <2>2, <2>4, Zenon DEF TypeOK, AuthenticatedResume
<1>7. ASSUME NEW s \in Session, NEW req \in SendRequest, NEW now \in Millis,
             AuthenticatedSendByName(s, req, now)
      PROVE  TypeOK'
  <2>1. instances[s.instance] \in InstanceRow
    BY <1>7, Zenon DEF TypeOK, AuthenticatedSendByName, SendVerdict,
                AuthenticateHistorical, Session
  <2>2. PICK m \in Recipients(s, req) :
           messages' = Append(messages,
              [squad |-> SquadOf(s), sender |-> MembershipOf(s), recipient |-> m,
               payload |-> req.payload, reply_to |-> req.reply_to,
               key |-> req.key, acknowledged_at |-> Null])
    BY <1>7, Zenon DEF AuthenticatedSendByName
  <2>3. m \in MembershipId /\ SquadOf(s) \in SquadName
    BY <2>2, Zenon DEF TypeOK, Recipients, HoldersOf, IsActive, IsMember, MembershipRow
  <2>4. [squad |-> SquadOf(s), sender |-> MembershipOf(s), recipient |-> m,
         payload |-> req.payload, reply_to |-> req.reply_to,
         key |-> req.key, acknowledged_at |-> Null] \in MessageRow
    BY <2>1, <2>3, Zenon DEF MessageRow, SendRequest, MembershipOf, InstanceRow
  <2> QED
    BY <1>7, <2>2, <2>4 DEF TypeOK, AuthenticatedSendByName
<1>8. ASSUME NEW s \in Session, NEW ids \in SUBSET (1 .. MaxMessages),
             NEW now \in Millis, AuthenticatedAcknowledge(s, ids, now)
      PROVE  TypeOK'
  <2>1. ASSUME NEW n \in DOMAIN messages
        PROVE  /\ messages[n] \in MessageRow
               /\ [messages[n] EXCEPT !.acknowledged_at = now] \in MessageRow
    <3>1. messages[n] \in MessageRow
      BY DEF TypeOK
    <3> QED
      BY <3>1, Zenon DEF MessageRow
  <2>2. DOMAIN messages = 1 .. Len(messages) /\ Len(messages) \in Nat
    BY DEF TypeOK
  <2>3. messages' \in [1 .. Len(messages) -> MessageRow]
    BY <1>8, <2>1, <2>2, Zenon DEF AuthenticatedAcknowledge
  <2>4. messages' \in Seq(MessageRow) /\ Len(messages') = Len(messages)
    BY <2>2, <2>3
  <2> QED
    BY <1>8, <2>4, Zenon DEF TypeOK, AuthenticatedAcknowledge
<1>9. CASE UNCHANGED vars
  BY <1>9, Zenon DEF TypeOK, vars
<1> QED
  BY <1>1, <1>2, <1>3, <1>4, <1>5, <1>6, <1>7, <1>8, <1>9, Zenon DEF Next


\* The parts of Ownership.
InstanceFacts ==
    \A i \in InstanceId : instances[i] # NoRow =>
        /\ IsMember(instances[i].membership)
        /\ instances[i].created_at <= instances[i].last_seen_at
        /\ instances[i].lease_expires_at = instances[i].last_seen_at + Lease
\* A membership that was not left still has an owner.
OwnerUnlessLeft ==
    \A m \in MembershipId : IsMember(m) =>
        (memberships[m].left <=> Unclosed(m) = {})

\* Two owners would each have to be newer than the other.
LEMMA SingleOwner ==
    ASSUME TypeOK, OwnerIsNewest, NEW m \in MembershipId,
           NEW i \in Unclosed(m), NEW j \in Unclosed(m)
    PROVE  i = j
<1> USE MillisAssumption
<1>1. instances[i] \in InstanceRow /\ instances[j] \in InstanceRow
  BY Zenon DEF TypeOK, Unclosed, InstancesOf
<1>2. i # j => /\ instances[j].created_at < instances[i].created_at
               /\ instances[i].created_at < instances[j].created_at
  BY Zenon DEF OwnerIsNewest, Unclosed
<1> QED
  BY <1>1, <1>2 DEF InstanceRow

\* Joining gives a fresh membership its first and only instance.
LEMMA JoinKeepsOwnership ==
    ASSUME TypeOK, Ownership,
           NEW q \in SquadName, NEW mission \in BOOLEAN,
           NEW name \in MemberName, NEW m \in MembershipId,
           NEW i \in InstanceId, NEW now \in Millis,
           JoinAndClaim(q, mission, name, m, i, now)
    PROVE  Ownership'
<1> USE LeaseAssumption, MillisAssumption, NoRowAssumption
<1> DEFINE row == NewInstance(m, m, now)
<1>1. /\ row \in InstanceRow
      /\ row = [membership |-> m, token |-> m, created_at |-> now,
                last_seen_at |-> now, lease_expires_at |-> now + Lease,
                closed |-> FALSE]
  BY DEF JoinAndClaim, JoinVerdict, LeaseFits, NewInstance, InstanceRow
<1>2. /\ instances' = [instances EXCEPT ![i] = row]
      /\ memberships' = [memberships EXCEPT
                            ![m] = [squad |-> q, name |-> name, left |-> FALSE]]
      /\ instances[i] = NoRow /\ memberships[m] = NoRow
      /\ row # NoRow
      /\ [squad |-> q, name |-> name, left |-> FALSE] # NoRow
  <2>1. [squad |-> q, name |-> name, left |-> FALSE] \in MembershipRow
    BY Zenon DEF MembershipRow
  <2> QED
    BY <1>1, <2>1, Zenon DEF JoinAndClaim
<1>3. InstancesOf(m) = {}
  BY <1>2, Zenon DEF Ownership, InstancesOf, IsMember
<1>4. InstancesOf(m)' = {i} /\ Unclosed(m)' = {i}
  BY <1>1, <1>2, <1>3 DEF InstancesOf, Unclosed, TypeOK
<1>5. \A p \in MembershipId \ {m} :
         InstancesOf(p)' = InstancesOf(p) /\ Unclosed(p)' = Unclosed(p)
  BY <1>1, <1>2 DEF InstancesOf, Unclosed, TypeOK
<1>6. InstanceFacts'
  BY <1>1, <1>2 DEF Ownership, InstanceFacts, IsMember, TypeOK, InstanceRow
<1>7. OwnerUnlessLeft'
  BY <1>2, <1>4, <1>5, Zenon DEF Ownership, OwnerUnlessLeft, IsMember, TypeOK
<1>8. OwnerIsNewest'
  BY <1>2, <1>4, <1>5 DEF Ownership, OwnerIsNewest, InstancesOf, Unclosed, TypeOK
<1> QED
  BY <1>6, <1>7, <1>8, Zenon DEF Ownership, InstanceFacts, OwnerUnlessLeft

\* Renewing moves last_seen_at and the lease forward together.
LEMMA HeartbeatKeepsOwnership ==
    ASSUME TypeOK, Ownership, NEW s \in Session, NEW now \in Millis,
           AuthenticatedHeartbeat(s, now)
    PROVE  Ownership'
<1> USE LeaseAssumption, MillisAssumption, NoRowAssumption
<1> DEFINE i == s.instance
           old == instances[i]
           at == EffectiveNow(i, now)
<1>1. i \in InstanceId /\ old \in InstanceRow /\ old # NoRow
  BY Zenon DEF TypeOK, AuthenticatedHeartbeat, HeartbeatVerdict, AuthorizeCurrent,
         AuthenticateHistorical, Session
<1>2. at \in Millis /\ at >= old.last_seen_at /\ at + Lease \in Millis
  BY <1>1 DEF AuthenticatedHeartbeat, HeartbeatVerdict, LeaseFits,
              EffectiveNow, Later, InstanceRow
<1>3. old.lease_expires_at = old.last_seen_at + Lease
      /\ old.created_at <= old.last_seen_at /\ IsMember(old.membership)
  BY <1>1, Zenon DEF Ownership
<1>4. Later(at + Lease, old.lease_expires_at) = at + Lease
  BY <1>1, <1>2, <1>3 DEF Later, InstanceRow
<1>5. /\ instances' = [instances EXCEPT ![i] = [old EXCEPT
                          !.last_seen_at = at, !.lease_expires_at = at + Lease]]
      /\ memberships' = memberships
  BY <1>1, <1>4, Zenon DEF AuthenticatedHeartbeat, TypeOK
<1>6. /\ instances'[i] \in InstanceRow /\ instances'[i] # NoRow
      /\ instances'[i].membership = old.membership
      /\ instances'[i].created_at = old.created_at
      /\ instances'[i].closed = old.closed
      /\ instances'[i].last_seen_at = at
      /\ instances'[i].lease_expires_at = at + Lease
      /\ \A j \in InstanceId \ {i} : instances'[j] = instances[j]
  BY <1>1, <1>2, <1>5, Zenon DEF TypeOK, InstanceRow
<1>7. \A p \in MembershipId :
         InstancesOf(p)' = InstancesOf(p) /\ Unclosed(p)' = Unclosed(p)
  BY <1>1, <1>6 DEF InstancesOf, Unclosed
<1>8. InstanceFacts'
  BY <1>1, <1>2, <1>3, <1>5, <1>6
     DEF Ownership, InstanceFacts, IsMember, InstanceRow
<1>9. OwnerUnlessLeft'
  BY <1>5, <1>7, Zenon DEF Ownership, OwnerUnlessLeft, IsMember
<1>10. OwnerIsNewest'
  <2>1. \A j \in InstanceId : instances'[j].created_at = instances[j].created_at
    BY <1>6, Zenon
  <2> QED
    BY <1>7, <2>1, Zenon DEF Ownership, OwnerIsNewest, InstancesOf, Unclosed
<1> QED
  BY <1>8, <1>9, <1>10, Zenon DEF Ownership, InstanceFacts, OwnerUnlessLeft

\* Leaving closes the one unclosed instance, which is the caller's.
LEMMA LeaveKeepsOwnership ==
    ASSUME TypeOK, Ownership, NEW s \in Session, NEW q \in SquadName,
           NEW now \in Millis, AuthenticatedLeave(s, q, now)
    PROVE  Ownership'
<1> USE LeaseAssumption, MillisAssumption, NoRowAssumption
<1> DEFINE i == s.instance
<1>1. /\ i \in InstanceId /\ instances[i] \in InstanceRow /\ instances[i] # NoRow
      /\ ~instances[i].closed
  BY Zenon DEF TypeOK, AuthenticatedLeave, AuthenticatedLeaveVerdict,
         AuthorizeCurrent, AuthenticateHistorical, Session
<1>2. PICK m \in MembershipId : /\ m = instances[i].membership
                                /\ m = MembershipOf(s)
                                /\ memberships[m] \in MembershipRow
  BY <1>1, Zenon DEF TypeOK, Ownership, IsMember, MembershipOf, InstanceRow
<1>3. /\ instances' = [instances EXCEPT ![i] = [instances[i] EXCEPT !.closed = TRUE]]
      /\ memberships' = [memberships EXCEPT ![m] = [memberships[m] EXCEPT !.left = TRUE]]
  BY <1>2, Zenon DEF AuthenticatedLeave
<1>4. /\ instances'[i] \in InstanceRow /\ instances'[i] # NoRow
      /\ instances'[i].closed
      /\ \A j \in InstanceId \ {i} : instances'[j] = instances[j]
      /\ \A f \in {"membership", "created_at", "last_seen_at", "lease_expires_at"} :
            instances'[i][f] = instances[i][f]
  BY <1>1, <1>3, Zenon DEF TypeOK, InstanceRow
<1>5. /\ memberships'[m] \in MembershipRow /\ memberships'[m] # NoRow
      /\ memberships'[m].left
      /\ \A p \in MembershipId \ {m} : memberships'[p] = memberships[p]
  BY <1>2, <1>3, Zenon DEF TypeOK, MembershipRow
<1>6. Unclosed(m) = {i}
  <2>1. i \in Unclosed(m)
    BY <1>1, <1>2, Zenon DEF Unclosed, InstancesOf
  <2>2. \A j \in Unclosed(m) : j = i
    BY <2>1, SingleOwner, Zenon DEF Ownership
  <2> QED
    BY <2>1, <2>2, Zenon
<1>7. /\ \A p \in MembershipId : InstancesOf(p)' = InstancesOf(p)
      /\ \A p \in MembershipId \ {m} : Unclosed(p)' = Unclosed(p)
      /\ Unclosed(m)' = {}
  BY <1>1, <1>2, <1>4, <1>6 DEF InstancesOf, Unclosed
<1>8. InstanceFacts'
  BY <1>1, <1>4, <1>5, SMTT(60) DEF Ownership, InstanceFacts, IsMember, TypeOK, InstanceRow
<1>9. OwnerUnlessLeft'
  BY <1>2, <1>5, <1>7, Zenon DEF Ownership, OwnerUnlessLeft, IsMember
<1>10. OwnerIsNewest'
  BY <1>1, <1>4, <1>7 DEF Ownership, OwnerIsNewest, InstancesOf, Unclosed
<1> QED
  BY <1>8, <1>9, <1>10, Zenon DEF Ownership, InstanceFacts, OwnerUnlessLeft

\* Resuming closes an owner whose lease ran out, so the new instance is newer
\* than that owner and thereby than every other instance.
LEMMA ResumeKeepsOwnership ==
    ASSUME TypeOK, Ownership, NEW s \in Session, NEW q \in SquadName,
           NEW i \in InstanceId, NEW now \in Millis,
           AuthenticatedResume(s, q, i, now)
    PROVE  Ownership'
<1> USE LeaseAssumption, MillisAssumption, NoRowAssumption
<1>1. /\ s.instance \in InstanceId /\ instances[s.instance] \in InstanceRow
      /\ instances[s.instance] # NoRow
  BY Zenon DEF TypeOK, AuthenticatedResume, ResumeVerdict, AuthenticateHistorical, Session
<1>2. PICK m \in MembershipId : m = MembershipOf(s)
  BY <1>1, Zenon DEF MembershipOf, InstanceRow
<1>3. memberships[m] \in MembershipRow /\ memberships[m] # NoRow /\ ~memberships[m].left
  BY <1>1, <1>2, Zenon DEF TypeOK, Ownership, IsMember, MembershipOf,
                    AuthenticatedResume, ResumeVerdict
<1>4. /\ instances[i] = NoRow
      /\ ~HasLiveOwner(m, now)
      /\ LeaseFits(now)
      /\ memberships' = memberships
      /\ instances' = [CloseUnclosed(m) EXCEPT ![i] = NewInstance(m, s.token, now)]
  BY <1>2, Zenon DEF AuthenticatedResume, ResumeVerdict
<1>5. /\ instances'[i] \in InstanceRow /\ instances'[i] # NoRow
      /\ instances'[i].membership = m /\ ~instances'[i].closed
      /\ instances'[i].created_at = now /\ instances'[i].last_seen_at = now
      /\ instances'[i].lease_expires_at = now + Lease
  <2>1. instances'[i] = NewInstance(m, s.token, now)
    BY <1>4, Zenon DEF CloseUnclosed
  <2>2. NewInstance(m, s.token, now) \in InstanceRow
    BY <1>4 DEF NewInstance, InstanceRow, LeaseFits, Session
  <2>3. NewInstance(m, s.token, now) # NoRow
    BY <2>2, Zenon
  <2>4. NewInstance(m, s.token, now) =
           [membership |-> m, token |-> s.token, created_at |-> now,
            last_seen_at |-> now, lease_expires_at |-> now + Lease, closed |-> FALSE]
    BY Zenon DEF NewInstance
  <2> QED
    BY <2>1, <2>2, <2>3, <2>4
<1>6. ASSUME NEW j \in InstanceId, j # i
      PROVE  /\ instances[j] = NoRow => instances'[j] = NoRow
             /\ instances[j] # NoRow =>
                  /\ instances[j] \in InstanceRow
                  /\ instances'[j] \in InstanceRow /\ instances'[j] # NoRow
                  /\ instances'[j].closed <=> instances[j].closed \/ instances[j].membership = m
                  /\ instances'[j].membership = instances[j].membership
                  /\ instances'[j].created_at = instances[j].created_at
                  /\ instances'[j].last_seen_at = instances[j].last_seen_at
                  /\ instances'[j].lease_expires_at = instances[j].lease_expires_at
  <2>1. instances'[j] = IF j \in Unclosed(m) THEN [instances[j] EXCEPT !.closed = TRUE]
                                             ELSE instances[j]
    BY <1>4, <1>6, Zenon DEF CloseUnclosed
  <2>2. instances[j] # NoRow => instances[j] \in InstanceRow
    BY Zenon DEF TypeOK
  <2> QED
    BY <2>1, <2>2, Zenon DEF Unclosed, InstancesOf, InstanceRow
<1>7. PICK o \in Unclosed(m) : now >= instances[o].lease_expires_at
  BY <1>3, <1>4 DEF Ownership, IsMember, HasLiveOwner, TypeOK, Unclosed,
                    InstancesOf, InstanceRow
<1>8. ASSUME NEW j \in InstancesOf(m)
      PROVE  instances[j].created_at < now
  <2>1. /\ instances[o] \in InstanceRow /\ instances[j] \in InstanceRow
        /\ instances[o].created_at < instances[o].lease_expires_at
    BY DEF Ownership, TypeOK, Unclosed, InstancesOf, InstanceRow
  <2>2. instances[j].created_at <= instances[o].created_at
    BY <2>1 DEF Ownership, OwnerIsNewest, InstanceRow
  <2> QED
    BY <1>7, <2>1, <2>2 DEF InstanceRow
<1>9. /\ InstancesOf(m)' = InstancesOf(m) \cup {i} /\ Unclosed(m)' = {i}
      /\ \A p \in MembershipId \ {m} :
            InstancesOf(p)' = InstancesOf(p) /\ Unclosed(p)' = Unclosed(p)
  BY <1>4, <1>5, <1>6 DEF InstancesOf, Unclosed
<1>10. InstanceFacts'
  BY <1>3, <1>4, <1>5, <1>6 DEF Ownership, InstanceFacts, IsMember, InstanceRow
<1>11. OwnerUnlessLeft'
  BY <1>3, <1>4, <1>9, SMTT(60) DEF Ownership, OwnerUnlessLeft, IsMember
<1>12. OwnerIsNewest'
  BY <1>4, <1>5, <1>6, <1>8, <1>9
     DEF Ownership, OwnerIsNewest, InstancesOf, Unclosed
<1> QED
  BY <1>10, <1>11, <1>12, Zenon DEF Ownership, InstanceFacts, OwnerUnlessLeft

\* The operations on squads and messages alone do not touch ownership.
LEMMA OtherStepsKeepOwnership ==
    ASSUME TypeOK, Ownership, UNCHANGED <<memberships, instances>>
    PROVE  Ownership'
  BY Zenon DEF Ownership, OwnerIsNewest, Unclosed, InstancesOf, IsMember

\* Every operation keeps ownership in order.
LEMMA OwnershipStep == TypeOK /\ Ownership /\ [Next]_vars => Ownership'
<1> SUFFICES ASSUME TypeOK, Ownership, [Next]_vars PROVE Ownership'
  BY Zenon
<1>1. ASSUME NEW q \in SquadName, CreateSquad(q)
      PROVE  Ownership'
  BY <1>1, OtherStepsKeepOwnership, Zenon DEF CreateSquad
<1>2. ASSUME NEW q \in SquadName, NEW mission \in BOOLEAN,
             NEW name \in MemberName, NEW m \in MembershipId,
             NEW i \in InstanceId, NEW now \in Millis,
             JoinAndClaim(q, mission, name, m, i, now)
      PROVE  Ownership'
  BY <1>2, JoinKeepsOwnership, Zenon
<1>3. ASSUME NEW s \in Session, NEW now \in Millis,
             AuthenticatedHeartbeat(s, now)
      PROVE  Ownership'
  BY <1>3, HeartbeatKeepsOwnership, Zenon
<1>4. ASSUME NEW s \in Session, NEW q \in SquadName, NEW now \in Millis,
             AuthenticatedLeave(s, q, now)
      PROVE  Ownership'
  BY <1>4, LeaveKeepsOwnership, Zenon
<1>5. ASSUME NEW s \in Session, NEW q \in SquadName, NEW now \in Millis,
             AuthenticatedArchiveByName(s, q, now)
      PROVE  Ownership'
  BY <1>5, OtherStepsKeepOwnership, Zenon DEF AuthenticatedArchiveByName
<1>6. ASSUME NEW s \in Session, NEW q \in SquadName, NEW i \in InstanceId,
             NEW now \in Millis, AuthenticatedResume(s, q, i, now)
      PROVE  Ownership'
  BY <1>6, ResumeKeepsOwnership, Zenon
<1>7. ASSUME NEW s \in Session, NEW req \in SendRequest, NEW now \in Millis,
             AuthenticatedSendByName(s, req, now)
      PROVE  Ownership'
  BY <1>7, OtherStepsKeepOwnership, Zenon DEF AuthenticatedSendByName
<1>8. ASSUME NEW s \in Session, NEW ids \in SUBSET (1 .. MaxMessages),
             NEW now \in Millis, AuthenticatedAcknowledge(s, ids, now)
      PROVE  Ownership'
  BY <1>8, OtherStepsKeepOwnership, Zenon DEF AuthenticatedAcknowledge
<1>9. CASE UNCHANGED vars
  BY <1>9, OtherStepsKeepOwnership, Zenon DEF vars
<1> QED
  BY <1>1, <1>2, <1>3, <1>4, <1>5, <1>6, <1>7, <1>8, <1>9, Zenon DEF Next

\* The tables of a reachable store are well formed, and those that carry
\* ownership hang together: neither fact is inductive without the other.
THEOREM OwnershipHolds == Spec => [](TypeOK /\ Ownership)
<1>1. Init => TypeOK /\ Ownership
  BY BoundAssumption DEF Init, TypeOK, Ownership, OwnerIsNewest, Unclosed,
                         InstancesOf, IsMember
<1> QED
  BY <1>1, TypeStep, OwnershipStep, PTL DEF Spec

\* The four tables always hold rows of the right shape.
THEOREM TypeCorrect == Spec => []TypeOK
  BY OwnershipHolds, PTL

\* At every moment the owner of a membership is its one unclosed instance and
\* was created after all others, whatever the wall clock did.
THEOREM OwnerIsAlwaysNewest == Spec => []OwnerIsNewest
<1>1. Ownership => OwnerIsNewest
  BY Zenon DEF Ownership
<1> QED
  BY <1>1, OwnershipHolds, PTL

\* A past instance resumes exactly when no instance of its membership is
\* authorized.
THEOREM ResumeExactlyWhenUnowned == Spec => []ResumeIffUnowned
<1>1. TypeOK /\ Ownership => ResumeIffUnowned
  <2> SUFFICES ASSUME TypeOK, Ownership,
                      NEW m \in MembershipId, NEW now \in Millis,
                      IsActive(m), squads[memberships[m].squad] = "active",
                      LeaseFits(now), NEW i \in InstancesOf(m)
               PROVE  ResumeVerdict(Credential(i), memberships[m].squad, now) = "Ok"
                        <=> ~ \E j \in InstancesOf(m) : Authorized(j, now)
    BY Zenon DEF ResumeIffUnowned
  <2> USE MillisAssumption
  <2>1. \A j \in InstancesOf(m) :
           /\ j \in InstanceId /\ instances[j] \in InstanceRow /\ instances[j] # NoRow
           /\ MembershipOf(Credential(j)) = m
           /\ SquadOf(Credential(j)) = memberships[m].squad
           /\ AuthenticateHistorical(Credential(j)) = "Ok"
    BY NoRowAssumption, Zenon DEF TypeOK, InstancesOf, MembershipOf, SquadOf, Credential,
                           AuthenticateHistorical
  <2>2. \A j \in InstancesOf(m) : Authorized(j, now) <=>
           now < instances[j].lease_expires_at /\ ~instances[j].closed
    BY <2>1 DEF Authorized, AuthorizeCurrent, Credential, IsActive, InstanceRow
  <2>3. HasLiveOwner(m, now) <=> \E j \in InstancesOf(m) : Authorized(j, now)
    BY <2>1, <2>2, Zenon DEF HasLiveOwner, Unclosed, InstanceRow
  <2>4. ResumeVerdict(Credential(i), memberships[m].squad, now) = "Ok"
           <=> ~HasLiveOwner(m, now)
    BY <2>1, <2>2, <2>3, Zenon DEF ResumeVerdict, IsActive, Credential
  <2> QED
    BY <2>3, <2>4, Zenon
<1> QED
  BY <1>1, OwnershipHolds, PTL

\* The roster's newest instance is online exactly when some instance of the
\* membership is authorized.
THEOREM RosterAlwaysShowsOwner == Spec => []RosterShowsOwner
<1>1. TypeOK /\ Ownership => RosterShowsOwner
  <2> SUFFICES ASSUME TypeOK, Ownership,
                      NEW m \in MembershipId, NEW now \in Millis,
                      IsMember(m), squads[memberships[m].squad] = "active",
                      NEW i \in RosterPicks(m)
               PROVE  RosterOnline(m, i, now)
                        <=> \E j \in InstancesOf(m) : Authorized(j, now)
    BY Zenon DEF RosterShowsOwner
  <2> USE MillisAssumption
  <2>1. \A j \in InstancesOf(m) :
           /\ j \in InstanceId /\ instances[j] \in InstanceRow /\ instances[j] # NoRow
           /\ MembershipOf(Credential(j)) = m
           /\ SquadOf(Credential(j)) = memberships[m].squad
           /\ AuthenticateHistorical(Credential(j)) = "Ok"
    BY NoRowAssumption, Zenon DEF TypeOK, InstancesOf, MembershipOf, SquadOf, Credential,
                           AuthenticateHistorical
  <2>2. \A j \in InstancesOf(m) : Authorized(j, now) <=>
           RosterOnline(m, j, now)
    BY <2>1 DEF Authorized, AuthorizeCurrent, Credential, RosterOnline, InstanceRow
  <2>3. \A j \in Unclosed(m) : j = i
    BY <2>1 DEF Ownership, OwnerIsNewest, RosterPicks, Unclosed, InstanceRow
  <2>4. \A j \in InstancesOf(m) : RosterOnline(m, j, now) => j \in Unclosed(m)
    BY Zenon DEF RosterOnline, Unclosed
  <2> QED
    BY <2>2, <2>3, <2>4, Zenon DEF RosterPicks
<1> QED
  BY <1>1, OwnershipHolds, PTL

\* What may happen to a stored instance in one step.
KeepsRow(i) ==
    LET old == instances[i]
        new == instances'[i]
    IN  /\ new # NoRow
        /\ old.closed => new = old
        /\ new.last_seen_at >= old.last_seen_at
        /\ new.lease_expires_at - old.lease_expires_at
              = new.last_seen_at - old.last_seen_at

\* Closing a row, or leaving it, keeps it.
LEMMA ClosingKeepsRow ==
    ASSUME TypeOK, NEW i \in InstanceId, instances[i] # NoRow,
           \/ instances'[i] = instances[i]
           \/ ~instances[i].closed /\ instances'[i] = [instances[i] EXCEPT !.closed = TRUE]
    PROVE  KeepsRow(i)
<1>1. instances[i] \in InstanceRow
  BY Zenon DEF TypeOK
<1>2. [instances[i] EXCEPT !.closed = TRUE] \in InstanceRow
  BY <1>1, Zenon DEF InstanceRow
<1> QED BY <1>1, <1>2, MillisAssumption, NoRowAssumption DEF KeepsRow, InstanceRow

\* Every operation keeps every row, a closed one as it is.
LEMMA RowStep ==
    ASSUME TypeOK, Ownership, [Next]_vars, NEW i \in InstanceId, instances[i] # NoRow
    PROVE  KeepsRow(i)
<1> USE LeaseAssumption, MillisAssumption, NoRowAssumption
<1>1. CASE instances' = instances
  BY <1>1, ClosingKeepsRow, Zenon
<1>2. ASSUME NEW q \in SquadName, NEW mission \in BOOLEAN,
             NEW name \in MemberName, NEW m \in MembershipId,
             NEW j \in InstanceId, NEW now \in Millis,
             JoinAndClaim(q, mission, name, m, j, now)
      PROVE  KeepsRow(i)
  BY <1>2, ClosingKeepsRow, Zenon DEF JoinAndClaim, TypeOK
<1>3. ASSUME NEW s \in Session, NEW now \in Millis,
             AuthenticatedHeartbeat(s, now)
      PROVE  KeepsRow(i)
  <2>1. CASE i # s.instance
    BY <1>3, <2>1, ClosingKeepsRow, Zenon DEF AuthenticatedHeartbeat, TypeOK
  <2>2. CASE i = s.instance
    <3>1. PICK old, at : old = instances[i] /\ at = EffectiveNow(i, now)
      BY Zenon
    <3>2. old \in InstanceRow /\ ~old.closed
      BY <1>3, <2>2, <3>1, Zenon DEF TypeOK, AuthenticatedHeartbeat, HeartbeatVerdict,
                              AuthorizeCurrent
    <3>3. old.lease_expires_at = old.last_seen_at + Lease
      BY <3>1, Zenon DEF Ownership
    <3>4. at \in Millis /\ at >= old.last_seen_at /\ at + Lease \in Millis
      BY <1>3, <2>2, <3>1, <3>2 DEF EffectiveNow, Later, InstanceRow,
                              AuthenticatedHeartbeat, HeartbeatVerdict, LeaseFits
    <3>5. instances'[i] = [old EXCEPT !.last_seen_at = at,
                              !.lease_expires_at = Later(at + Lease, old.lease_expires_at)]
      BY <1>3, <2>2, <3>1, <3>2, Zenon DEF AuthenticatedHeartbeat, TypeOK, InstanceRow
    <3>6. Later(at + Lease, old.lease_expires_at) = at + Lease
      BY <3>2, <3>3, <3>4 DEF Later, InstanceRow
    <3>7. instances'[i] \in InstanceRow /\ instances'[i].last_seen_at = at
          /\ instances'[i].lease_expires_at = at + Lease
      BY <3>2, <3>4, <3>5, <3>6, Zenon DEF InstanceRow
    <3> QED BY <3>1, <3>2, <3>3, <3>4, <3>7 DEF KeepsRow, InstanceRow
  <2> QED BY <2>1, <2>2, Zenon
<1>4. ASSUME NEW s \in Session, NEW q \in SquadName, NEW now \in Millis,
             AuthenticatedLeave(s, q, now)
      PROVE  KeepsRow(i)
  <2>1. ~instances[s.instance].closed
    BY <1>4, Zenon DEF AuthenticatedLeave, AuthenticatedLeaveVerdict, AuthorizeCurrent
  <2> QED BY <1>4, <2>1, ClosingKeepsRow, Zenon DEF AuthenticatedLeave, TypeOK
<1>5. ASSUME NEW s \in Session, NEW q \in SquadName, NEW j \in InstanceId,
             NEW now \in Millis, AuthenticatedResume(s, q, j, now)
      PROVE  KeepsRow(i)
  BY <1>5, ClosingKeepsRow, Zenon DEF AuthenticatedResume, CloseUnclosed, Unclosed
<1>6. CASE Next
  BY <1>1, <1>2, <1>3, <1>4, <1>5, <1>6, Zenon
     DEF Next, CreateSquad, AuthenticatedArchiveByName, AuthenticatedSendByName,
         AuthenticatedAcknowledge
<1> QED BY <1>1, <1>6, Zenon DEF vars

\* A replaced or departed owner never comes back.
THEOREM ClosedStaysFinal == Spec => [][KeepsClosed]_vars
<1>1. TypeOK /\ Ownership /\ [Next]_vars => KeepsClosed
  BY RowStep, Zenon DEF KeepsRow, KeepsClosed
<1> QED BY <1>1, OwnershipHolds, PTL DEF Spec

\* Whatever the clock reads, a lease moves only with last_seen_at and only
\* forward.
THEOREM LeaseAlwaysFollowsLastSeen == Spec => [][LeaseFollowsLastSeen]_vars
<1>1. TypeOK /\ Ownership /\ [Next]_vars => LeaseFollowsLastSeen
  BY RowStep, Zenon DEF KeepsRow, LeaseFollowsLastSeen
<1> QED BY <1>1, OwnershipHolds, PTL DEF Spec

\* Ownership is exact at every reading of the clock, for joins, heartbeats,
\* resumes, leaves and archives in any order.
THEOREM OwnershipIsAlwaysExact == Spec => []OwnershipIsExact
<1>1. OwnerIsNewest /\ ResumeIffUnowned /\ RosterShowsOwner => OwnershipIsExact
  BY Zenon DEF OwnershipIsExact
<1> QED
  BY <1>1, OwnerIsAlwaysNewest, ResumeExactlyWhenUnowned, RosterAlwaysShowsOwner, PTL

-----------------------------------------------------------------------------
(* History, mail and the log: what rows and messages keep for ever. *)

\* What only leave changes in a membership's row, and nothing else ever does.
Placed == \A m \in MembershipId : IsMember(m) =>
             /\ memberships'[m] # NoRow
             /\ memberships'[m].squad = memberships[m].squad
             /\ memberships'[m].name = memberships[m].name

\* A membership keeps its squad and its name.
LEMMA MembershipsStayPlaced ==
    ASSUME TypeOK, Ownership, [Next]_vars
    PROVE  Placed
<1> USE NoRowAssumption
<1>1. ASSUME NEW q \in SquadName, NEW mission \in BOOLEAN,
             NEW name \in MemberName, NEW m \in MembershipId,
             NEW i \in InstanceId, NEW now \in Millis,
             JoinAndClaim(q, mission, name, m, i, now)
      PROVE  Placed
  BY <1>1, Zenon DEF JoinAndClaim, Placed, IsMember, TypeOK
<1>2. ASSUME NEW s \in Session, NEW q \in SquadName, NEW now \in Millis,
             AuthenticatedLeave(s, q, now)
      PROVE  Placed
  <2>1. PICK m : m = MembershipOf(s)
    BY Zenon
  <2>2. memberships' = [memberships EXCEPT ![m] = [memberships[m] EXCEPT !.left = TRUE]]
    BY <1>2, <2>1, Zenon DEF AuthenticatedLeave
  <2>3. ASSUME NEW p \in MembershipId, IsMember(p)
        PROVE  /\ memberships'[p] # NoRow
               /\ memberships'[p].squad = memberships[p].squad
               /\ memberships'[p].name = memberships[p].name
    <3>1. memberships[p] \in MembershipRow
      BY <2>3, Zenon DEF TypeOK, IsMember
    <3>2. /\ [memberships[p] EXCEPT !.left = TRUE] \in MembershipRow
          /\ [memberships[p] EXCEPT !.left = TRUE].squad = memberships[p].squad
          /\ [memberships[p] EXCEPT !.left = TRUE].name = memberships[p].name
      BY <3>1, Zenon DEF MembershipRow
    <3>3. memberships'[p] \in {memberships[p], [memberships[p] EXCEPT !.left = TRUE]}
      BY <2>2, Zenon DEF TypeOK
    <3> QED BY <3>1, <3>2, <3>3, Zenon
  <2> QED BY <2>3, Zenon DEF Placed
<1>3. CASE memberships' = memberships
  BY <1>3, Zenon DEF Placed, IsMember
<1>4. CASE Next
  BY <1>1, <1>2, <1>3, <1>4, Zenon
     DEF Next, CreateSquad, AuthenticatedHeartbeat, AuthenticatedArchiveByName,
         AuthenticatedResume, AuthenticatedSendByName, AuthenticatedAcknowledge
<1> QED BY <1>3, <1>4, Zenon DEF vars

\* A row of the message table, up to its acknowledgement.
SameMail(old, new) == \A field \in {"squad", "sender", "recipient", "payload",
                                    "reply_to", "key"} : new[field] = old[field]

\* Acknowledging touches one field of rows that were pending.
LEMMA AcknowledgeKeepsMail ==
    ASSUME TypeOK, NEW s \in Session, NEW ids, NEW now \in Millis,
           AuthenticatedAcknowledge(s, ids, now)
    PROVE  /\ DOMAIN messages' = DOMAIN messages
           /\ \A n \in DOMAIN messages :
                 /\ SameMail(messages[n], messages'[n])
                 /\ messages'[n] = [messages[n] EXCEPT
                        !.acknowledged_at = messages'[n].acknowledged_at]
                 /\ messages[n].acknowledged_at # Null => messages'[n] = messages[n]
                 /\ messages'[n] # messages[n] => messages[n].recipient = MembershipOf(s)
<1>1. DOMAIN messages' = DOMAIN messages
  BY Zenon DEF AuthenticatedAcknowledge
<1>2. ASSUME NEW n \in DOMAIN messages
      PROVE  /\ SameMail(messages[n], messages'[n])
             /\ messages'[n] = [messages[n] EXCEPT
                    !.acknowledged_at = messages'[n].acknowledged_at]
             /\ messages[n].acknowledged_at # Null => messages'[n] = messages[n]
             /\ messages'[n] # messages[n] => messages[n].recipient = MembershipOf(s)
  <2>1. messages[n] \in MessageRow
    BY DEF TypeOK
  <2>2. messages'[n] = IF n \in ids /\ messages[n].acknowledged_at = Null
                       THEN [messages[n] EXCEPT !.acknowledged_at = now]
                       ELSE messages[n]
    BY Zenon DEF AuthenticatedAcknowledge
  <2>3. \A k \in ids : messages[k].recipient = MembershipOf(s)
    BY Zenon DEF AuthenticatedAcknowledge, AcknowledgeVerdict
  <2> QED BY <2>1, <2>2, <2>3, Zenon DEF MessageRow, SameMail
<1> QED BY <1>1, <1>2, Zenon

\* What a send that stores a message found and wrote.
LEMMA SendStoresNewMail ==
    ASSUME TypeOK, Ownership, NEW s \in Session, NEW req \in SendRequest,
           NEW now \in Millis, AuthenticatedSendByName(s, req, now)
    PROVE  \E row \in MessageRow :
              /\ messages' = Append(messages, row)
              /\ IsActive(row.sender) /\ memberships[row.sender].squad = row.squad
              /\ IsActive(row.recipient) /\ memberships[row.recipient].squad = row.squad
              /\ squads[row.squad] # "archived"
              /\ row.reply_to # 0 => /\ row.reply_to \in DOMAIN messages
                                     /\ messages[row.reply_to].squad = row.squad
              /\ \A n \in DOMAIN messages : /\ messages[n].squad = row.squad
                                            /\ messages[n].sender = row.sender
                                            => messages[n].key # row.key
<1> USE NoRowAssumption
<1>1. PICK m \in Recipients(s, req) :
         messages' = Append(messages,
            [squad |-> SquadOf(s), sender |-> MembershipOf(s), recipient |-> m,
             payload |-> req.payload, reply_to |-> req.reply_to,
             key |-> req.key, acknowledged_at |-> Null])
  BY Zenon DEF AuthenticatedSendByName
<1>2. PICK q, p : q = SquadOf(s) /\ p = MembershipOf(s)
  BY Zenon
<1>3. /\ Earlier(s, req) = {}
      /\ AuthenticateHistorical(s) = "Ok"
      /\ squads[q] # "archived"
      /\ ~instances[s.instance].closed /\ ~memberships[p].left
      /\ AuthorizeReply(s, req)
  BY <1>2, Zenon DEF AuthenticatedSendByName, SendVerdict, AuthorizeCurrent
<1>4. instances[s.instance] \in InstanceRow /\ instances[s.instance] # NoRow
  BY <1>3, Zenon DEF TypeOK, AuthenticateHistorical, Session
<1>5. p \in MembershipId /\ IsActive(p) /\ memberships[p].squad = q
  BY <1>2, <1>3, <1>4, Zenon DEF Ownership, IsActive, MembershipOf, SquadOf, InstanceRow, Session
<1>6. m \in MembershipId /\ IsActive(m) /\ memberships[m].squad = q
  BY <1>1, <1>2, Zenon DEF Recipients, HoldersOf
<1>7. q \in SquadName
  BY <1>5, Zenon DEF TypeOK, IsActive, IsMember, MembershipRow
<1> DEFINE row == [squad |-> q, sender |-> p, recipient |-> m,
                   payload |-> req.payload, reply_to |-> req.reply_to,
                   key |-> req.key, acknowledged_at |-> Null]
<1>8. row \in MessageRow
  BY <1>5, <1>6, <1>7, Zenon DEF MessageRow, SendRequest
<1>9. messages' = Append(messages, row)
  BY <1>1, <1>2, Zenon
<1>10. row.reply_to # 0 => /\ row.reply_to \in DOMAIN messages
                           /\ messages[row.reply_to].squad = row.squad
  BY <1>2, <1>3, Zenon DEF AuthorizeReply
<1>11. \A n \in DOMAIN messages : /\ messages[n].squad = row.squad
                                  /\ messages[n].sender = row.sender
                                  => messages[n].key # row.key
  BY <1>2, <1>3, Zenon DEF Earlier
<1> QED
  BY <1>3, <1>5, <1>6, <1>8, <1>9, <1>10, <1>11, Zenon

\* What is inductive about messages.
MailInv == MessagesStayInSquad /\ OneMessagePerKey

\* A step that keeps every row up to its acknowledgement keeps the invariant.
LEMMA SameMailKeepsInv ==
    ASSUME TypeOK, MailInv, Placed, DOMAIN messages' = DOMAIN messages,
           \A n \in DOMAIN messages : SameMail(messages[n], messages'[n])
    PROVE  MailInv'
<1>1. \A n \in DOMAIN messages : messages[n] \in MessageRow
  BY DEF TypeOK
<1>2. MessagesStayInSquad'
  <2> SUFFICES ASSUME NEW n \in DOMAIN messages
               PROVE  /\ \A m \in {messages'[n].sender, messages'[n].recipient} :
                            /\ memberships'[m] # NoRow
                            /\ memberships'[m].squad = messages'[n].squad
                      /\ messages'[n].reply_to # 0 =>
                            /\ messages'[n].reply_to < n
                            /\ messages'[messages'[n].reply_to].squad = messages'[n].squad
    BY Zenon DEF MessagesStayInSquad, IsMember
  <2>1. /\ messages'[n].squad = messages[n].squad
        /\ messages'[n].sender = messages[n].sender
        /\ messages'[n].recipient = messages[n].recipient
        /\ messages'[n].reply_to = messages[n].reply_to
    BY Zenon DEF SameMail
  <2>2. ASSUME NEW m \in {messages[n].sender, messages[n].recipient}
        PROVE  /\ memberships'[m] # NoRow
               /\ memberships'[m].squad = messages[n].squad
    <3>1. m \in MembershipId
      BY <1>1, Zenon DEF MessageRow
    <3>2. IsMember(m) /\ memberships[m].squad = messages[n].squad
      BY Zenon DEF MailInv, MessagesStayInSquad
    <3> QED BY <3>1, <3>2, Zenon DEF Placed
  <2>3. ASSUME messages[n].reply_to # 0
        PROVE  /\ messages[n].reply_to < n
               /\ messages'[messages[n].reply_to].squad = messages[n].squad
    <3>1. PICK r : r = messages[n].reply_to
      BY Zenon
    <3>2. r < n /\ messages[r].squad = messages[n].squad
      BY <2>3, <3>1, Zenon DEF MailInv, MessagesStayInSquad
    <3>3. r \in Nat \ {0} /\ n \in 1 .. Len(messages) /\ Len(messages) \in Nat
      BY <1>1, <2>3, <3>1, BoundAssumption DEF MessageRow, TypeOK
    <3>4. r \in DOMAIN messages
      BY <3>2, <3>3 DEF TypeOK
    <3> QED BY <3>1, <3>2, <3>4, Zenon DEF SameMail
  <2> QED BY <2>1, <2>2, <2>3, Zenon
<1>3. OneMessagePerKey'
  <2>1. \A n \in DOMAIN messages : /\ messages'[n].sender = messages[n].sender
                                   /\ messages'[n].key = messages[n].key
    BY Zenon DEF SameMail
  <2> QED BY <2>1, Zenon DEF MailInv, OneMessagePerKey
<1> QED BY <1>2, <1>3, Zenon DEF MailInv

\* A new message is of the squad of its sender and recipient, and under a key
\* that its sender used for no other.
LEMMA SendKeepsInv ==
    ASSUME TypeOK, Ownership, MailInv, NEW s \in Session, NEW req \in SendRequest,
           NEW now \in Millis, AuthenticatedSendByName(s, req, now)
    PROVE  MailInv'
<1>1. PICK row \in MessageRow :
         /\ messages' = Append(messages, row)
         /\ IsActive(row.sender) /\ memberships[row.sender].squad = row.squad
         /\ IsActive(row.recipient) /\ memberships[row.recipient].squad = row.squad
         /\ row.reply_to # 0 => /\ row.reply_to \in DOMAIN messages
                                /\ messages[row.reply_to].squad = row.squad
         /\ \A n \in DOMAIN messages : /\ messages[n].squad = row.squad
                                       /\ messages[n].sender = row.sender
                                       => messages[n].key # row.key
  BY SendStoresNewMail, Zenon
<1>2. PICK last : last = Len(messages) + 1
  BY Zenon
<1>3. /\ Len(messages) \in Nat
      /\ DOMAIN messages = 1 .. Len(messages)
      /\ DOMAIN messages' = DOMAIN messages \cup {last}
      /\ last \notin DOMAIN messages
      /\ messages'[last] = row
      /\ \A n \in DOMAIN messages : messages'[n] = messages[n] /\ n < last
      /\ \A n \in DOMAIN messages : messages[n] \in MessageRow
  BY <1>1, <1>2 DEF TypeOK
<1>4. memberships' = memberships
  BY Zenon DEF AuthenticatedSendByName
<1>5. MessagesStayInSquad'
  <2> SUFFICES ASSUME NEW n \in DOMAIN messages'
               PROVE  /\ \A m \in {messages'[n].sender, messages'[n].recipient} :
                            /\ memberships[m] # NoRow
                            /\ memberships[m].squad = messages'[n].squad
                      /\ messages'[n].reply_to # 0 =>
                            /\ messages'[n].reply_to < n
                            /\ messages'[messages'[n].reply_to].squad = messages'[n].squad
    BY <1>4, Zenon DEF MessagesStayInSquad, IsMember
  <2>1. CASE n = last
    BY <1>1, <1>3, <2>1, Zenon DEF IsActive, IsMember
  <2>2. CASE n \in DOMAIN messages
    <3>1. /\ \A m \in {messages[n].sender, messages[n].recipient} :
                IsMember(m) /\ memberships[m].squad = messages[n].squad
          /\ messages[n].reply_to # 0 =>
                /\ messages[n].reply_to < n
                /\ messages[messages[n].reply_to].squad = messages[n].squad
      BY <2>2, Zenon DEF MailInv, MessagesStayInSquad
    <3>2. messages[n].reply_to # 0 => messages[n].reply_to \in DOMAIN messages
      BY <1>3, <2>2, <3>1, BoundAssumption DEF MessageRow
    <3> QED BY <1>3, <2>2, <3>1, <3>2, Zenon DEF IsMember
  <2> QED BY <1>3, <2>1, <2>2, Zenon
<1>6. OneMessagePerKey'
  <2>1. ASSUME NEW n \in DOMAIN messages, messages[n].sender = row.sender
        PROVE  messages[n].key # row.key
    BY <1>1, <2>1, Zenon DEF MailInv, MessagesStayInSquad
  <2> QED BY <1>3, <2>1, Zenon DEF MailInv, OneMessagePerKey
<1> QED BY <1>5, <1>6, Zenon DEF MailInv

\* Every operation keeps messages in their squad and keys unique.
LEMMA MailStep == TypeOK /\ Ownership /\ MailInv /\ [Next]_vars => MailInv'
<1> SUFFICES ASSUME TypeOK, Ownership, MailInv, [Next]_vars PROVE MailInv'
  BY Zenon
<1>1. Placed
  BY MembershipsStayPlaced, Zenon
<1>2. CASE messages' = messages
  BY <1>1, <1>2, SameMailKeepsInv, Zenon DEF SameMail
<1>3. ASSUME NEW s \in Session, NEW req \in SendRequest, NEW now \in Millis,
             AuthenticatedSendByName(s, req, now)
      PROVE  MailInv'
  BY <1>3, SendKeepsInv, Zenon
<1>4. ASSUME NEW s \in Session, NEW ids \in SUBSET (1 .. MaxMessages),
             NEW now \in Millis, AuthenticatedAcknowledge(s, ids, now)
      PROVE  MailInv'
  BY <1>1, <1>4, AcknowledgeKeepsMail, SameMailKeepsInv, Zenon
<1>5. CASE Next
  BY <1>2, <1>3, <1>4, <1>5, Zenon
     DEF Next, CreateSquad, JoinAndClaim, AuthenticatedHeartbeat, AuthenticatedLeave,
         AuthenticatedArchiveByName, AuthenticatedResume
<1> QED BY <1>2, <1>5, Zenon DEF vars

\* Messages stay in the squad of their sender and recipient and answer earlier
\* ones of it; and the dedupe key a sender chose names one message for ever.
THEOREM MailHolds == Spec => [](MessagesStayInSquad /\ OneMessagePerKey)
<1>1. Init => MailInv
  BY DEF Init, MailInv, MessagesStayInSquad, OneMessagePerKey
<1>2. MailInv => MessagesStayInSquad /\ OneMessagePerKey
  BY Zenon DEF MailInv
<1> QED BY <1>1, <1>2, MailStep, OwnershipHolds, PTL DEF Spec

\* A retry of a stored send is answered with the stored message, at any time and
\* from any instance its sender ever had: authenticated_send_by_name looks for
\* it before it looks at current authority.
THEOREM RetryAlwaysReturnsStoredMessage == Spec => []RetryReturnsStoredMessage
<1>1. TypeOK /\ MessagesStayInSquad /\ OneMessagePerKey => RetryReturnsStoredMessage
  <2> SUFFICES ASSUME TypeOK, MessagesStayInSquad, OneMessagePerKey,
                      NEW n \in DOMAIN messages, NEW now \in Millis,
                      NEW i \in InstancesOf(messages[n].sender),
                      NEW pin \in {NoRow, messages[n].recipient},
                      NEW req,
                      req = [recipient |-> memberships[messages[n].recipient].name,
                             pin |-> pin, payload |-> messages[n].payload,
                             reply_to |-> messages[n].reply_to,
                             key |-> messages[n].key]
               PROVE  /\ SendVerdict(Credential(i), req, now) = "Replay"
                      /\ Earlier(Credential(i), req) = {n}
    BY Zenon DEF RetryReturnsStoredMessage
  <2>1. /\ Credential(i).instance = i /\ Credential(i).token = instances[i].token
        /\ instances[i] # NoRow /\ instances[i].membership = messages[n].sender
    BY Zenon DEF Credential, InstancesOf
  <2>2. AuthenticateHistorical(Credential(i)) = "Ok"
    BY <2>1, Zenon DEF AuthenticateHistorical
  <2>3. /\ MembershipOf(Credential(i)) = messages[n].sender
        /\ SquadOf(Credential(i)) = messages[n].squad
    BY <2>1, Zenon DEF MembershipOf, SquadOf, MessagesStayInSquad
  <2>4. Earlier(Credential(i), req) = {n}
    BY <2>3, Zenon DEF Earlier, OneMessagePerKey
  <2>5. SameRequest(req, n)
    BY Zenon DEF SameRequest
  <2> QED BY <2>2, <2>4, <2>5, Zenon DEF SendVerdict
<1> QED BY <1>1, MailHolds, TypeCorrect, PTL

\* A sender and a dedupe key name at most one stored message.
THEOREM KeysAreUnique == Spec => []OneMessagePerKey
  BY MailHolds, PTL

\* Sender, recipient and answered message of a message are of its squad.
THEOREM MessagesNeverCrossSquads == Spec => []MessagesStayInSquad
  BY MailHolds, PTL

\* No operation removes or rewrites a message, and the first acknowledgement
\* is the one that stays.
THEOREM LogIsAlwaysDurable == Spec => LogIsDurable
<1> DEFINE Kept == \A n \in DOMAIN messages :
              /\ n \in DOMAIN messages'
              /\ messages'[n] = [messages[n] EXCEPT
                     !.acknowledged_at = messages'[n].acknowledged_at]
              /\ messages[n].acknowledged_at # Null => messages'[n] = messages[n]
<1>1. TypeOK /\ Ownership /\ [Next]_vars => Kept
  <2> SUFFICES ASSUME TypeOK, Ownership, [Next]_vars PROVE Kept
    BY Zenon
  <2>1. \A n \in DOMAIN messages : messages[n] \in MessageRow
    BY DEF TypeOK
  <2>2. CASE messages' = messages
    BY <2>1, <2>2, Zenon DEF MessageRow
  <2>3. ASSUME NEW s \in Session, NEW req \in SendRequest, NEW now \in Millis,
               AuthenticatedSendByName(s, req, now)
        PROVE  Kept
    <3>1. PICK row \in MessageRow : messages' = Append(messages, row)
      BY <2>3, SendStoresNewMail, Zenon
    <3>2. \A n \in DOMAIN messages : n \in DOMAIN messages' /\ messages'[n] = messages[n]
      BY <3>1 DEF TypeOK
    <3> QED BY <2>1, <3>2, Zenon DEF MessageRow
  <2>4. ASSUME NEW s \in Session, NEW ids \in SUBSET (1 .. MaxMessages),
               NEW now \in Millis, AuthenticatedAcknowledge(s, ids, now)
        PROVE  Kept
    BY <2>4, AcknowledgeKeepsMail, Zenon
  <2>5. CASE Next
    BY <2>2, <2>3, <2>4, <2>5, Zenon
       DEF Next, CreateSquad, JoinAndClaim, AuthenticatedHeartbeat, AuthenticatedLeave,
           AuthenticatedArchiveByName, AuthenticatedResume
  <2> QED BY <2>2, <2>5, Zenon DEF vars
<1> QED BY <1>1, OwnershipHolds, PTL DEF Spec, LogIsDurable

\* A membership that may still act.
Acting(p) == IsActive(p) /\ squads[memberships[p].squad] # "archived"

\* Only a membership that may act is authorized.
LEMMA CallerIsActing ==
    ASSUME TypeOK, Ownership, NEW s \in Session, NEW now \in Millis,
           AuthorizeCurrent(s, now) = "Ok"
    PROVE  /\ instances[s.instance] \in InstanceRow /\ instances[s.instance] # NoRow
           /\ MembershipOf(s) \in MembershipId /\ Acting(MembershipOf(s))
<1> USE NoRowAssumption
<1>1. /\ instances[s.instance] # NoRow
      /\ squads[SquadOf(s)] # "archived" /\ ~memberships[MembershipOf(s)].left
  BY Zenon DEF AuthorizeCurrent, AuthenticateHistorical
<1>2. instances[s.instance] \in InstanceRow
  BY <1>1, Zenon DEF TypeOK, Session
<1> QED BY <1>1, <1>2, Zenon DEF Acting, IsActive, Ownership, MembershipOf, SquadOf,
                          InstanceRow, Session

\* What a step on behalf of p may touch of the memberships and instances.
OnlyOf(p) ==
    /\ \A m \in MembershipId \ {p} : memberships'[m] = memberships[m]
    /\ \A i \in InstanceId :
          \/ instances'[i] = instances[i]
          \/ /\ instances[i] # NoRow => instances[i].membership = p
             /\ instances'[i].membership = p

\* Joining touches the new membership only.
LEMMA JoinTouchesTheNew ==
    ASSUME TypeOK, NEW q \in SquadName, NEW mission \in BOOLEAN,
           NEW name \in MemberName, NEW m \in MembershipId,
           NEW i \in InstanceId, NEW now \in Millis,
           JoinAndClaim(q, mission, name, m, i, now)
    PROVE  ~Acting(m) /\ ~IsMember(m) /\ OnlyOf(m) /\ messages' = messages
  BY Zenon DEF JoinAndClaim, TypeOK, OnlyOf, NewInstance, Acting, IsActive, IsMember

\* A heartbeat touches the instance of its caller.
LEMMA HeartbeatTouchesTheCaller ==
    ASSUME TypeOK, Ownership, NEW s \in Session, NEW now \in Millis,
           AuthenticatedHeartbeat(s, now)
    PROVE  \E p \in MembershipId : Acting(p) /\ OnlyOf(p) /\ messages' = messages
<1>1. AuthorizeCurrent(s, now) = "Ok"
  BY Zenon DEF AuthenticatedHeartbeat, HeartbeatVerdict
<1>2. PICK p \in MembershipId : /\ p = MembershipOf(s) /\ Acting(p)
                                /\ instances[s.instance] \in InstanceRow
  BY <1>1, CallerIsActing, Zenon
<1>3. OnlyOf(p) /\ messages' = messages
  <2>1. PICK at, until : instances' = [instances EXCEPT
            ![s.instance] = [instances[s.instance] EXCEPT
                !.last_seen_at = at, !.lease_expires_at = until]]
    BY Zenon DEF AuthenticatedHeartbeat, TypeOK
  <2> QED BY <1>2, <2>1, Zenon DEF AuthenticatedHeartbeat, OnlyOf, TypeOK, MembershipOf,
                            InstanceRow, Session
<1> QED BY <1>2, <1>3, Zenon

\* Leaving touches the row and the instance of the caller.
LEMMA LeaveTouchesTheCaller ==
    ASSUME TypeOK, Ownership, NEW s \in Session, NEW q \in SquadName,
           NEW now \in Millis, AuthenticatedLeave(s, q, now)
    PROVE  \E p \in MembershipId : Acting(p) /\ OnlyOf(p) /\ messages' = messages
<1>1. AuthorizeCurrent(s, now) = "Ok"
  BY Zenon DEF AuthenticatedLeave, AuthenticatedLeaveVerdict
<1>2. PICK p \in MembershipId : /\ p = MembershipOf(s) /\ Acting(p)
                                /\ instances[s.instance] \in InstanceRow
  BY <1>1, CallerIsActing, Zenon
<1>3. /\ instances' = [instances EXCEPT
             ![s.instance] = [instances[s.instance] EXCEPT !.closed = TRUE]]
      /\ memberships' = [memberships EXCEPT ![p] = [memberships[p] EXCEPT !.left = TRUE]]
      /\ messages' = messages
  BY <1>2, Zenon DEF AuthenticatedLeave
<1>4. OnlyOf(p)
  BY <1>2, <1>3, Zenon DEF OnlyOf, TypeOK, MembershipOf, InstanceRow, Session
<1> QED BY <1>2, <1>3, <1>4, Zenon

\* Resuming touches the instances of the caller's membership.
LEMMA ResumeTouchesTheCaller ==
    ASSUME TypeOK, Ownership, NEW s \in Session, NEW q \in SquadName,
           NEW i \in InstanceId, NEW now \in Millis,
           AuthenticatedResume(s, q, i, now)
    PROVE  \E p \in MembershipId : Acting(p) /\ OnlyOf(p) /\ messages' = messages
<1> USE NoRowAssumption
<1>1. /\ instances[s.instance] # NoRow /\ instances[i] = NoRow
      /\ ~memberships[MembershipOf(s)].left /\ squads[SquadOf(s)] # "archived"
  BY Zenon DEF AuthenticatedResume, ResumeVerdict, AuthenticateHistorical
<1>2. instances[s.instance] \in InstanceRow
  BY <1>1, Zenon DEF TypeOK, Session
<1>3. PICK p \in MembershipId : p = MembershipOf(s) /\ Acting(p)
  BY <1>1, <1>2, Zenon DEF Acting, IsActive, Ownership, MembershipOf, SquadOf,
                    InstanceRow, Session
<1>4. /\ instances' = [CloseUnclosed(p) EXCEPT ![i] = NewInstance(p, s.token, now)]
      /\ memberships' = memberships /\ messages' = messages
  BY <1>3, Zenon DEF AuthenticatedResume
<1>5. ASSUME NEW j \in InstanceId
      PROVE  \/ instances'[j] = instances[j]
             \/ /\ instances[j] # NoRow => instances[j].membership = p
                /\ instances'[j].membership = p
  <2>1. CASE j = i
    BY <1>1, <1>4, <2>1, Zenon DEF NewInstance, CloseUnclosed
  <2>2. CASE j # i
    <3>1. instances'[j] = IF j \in Unclosed(p) THEN [instances[j] EXCEPT !.closed = TRUE]
                                               ELSE instances[j]
      BY <1>4, <2>2, Zenon DEF CloseUnclosed
    <3>2. j \in Unclosed(p) => instances[j] \in InstanceRow /\ instances[j].membership = p
      BY Zenon DEF Unclosed, InstancesOf, TypeOK
    <3> QED BY <3>1, <3>2, Zenon DEF InstanceRow
  <2> QED BY <2>1, <2>2, Zenon
<1> QED BY <1>3, <1>4, <1>5, Zenon DEF OnlyOf

\* What a step may leave alone of the mail of m.
MailUntouched(m) ==
    /\ \A n \in DOMAIN messages : /\ n \in DOMAIN messages'
                                  /\ messages'[n].sender = messages[n].sender
                                  /\ messages'[n].recipient = messages[n].recipient
                                  /\ messages[n].recipient = m => messages'[n] = messages[n]
    /\ \A n \in DOMAIN messages' \ DOMAIN messages :
          messages'[n].sender # m /\ messages'[n].recipient # m

\* A step on behalf of another membership that leaves m's mail alone leaves
\* nothing of m changed.
LEMMA TraceKept ==
    ASSUME NEW m \in MembershipId, NEW p, m # p, OnlyOf(p), MailUntouched(m)
    PROVE  Trace(m)' = Trace(m)
<1>1. memberships'[m] = memberships[m]
  BY Zenon DEF OnlyOf
<1>2. InstancesOf(m)' = InstancesOf(m) /\ \A i \in InstancesOf(m) : instances'[i] = instances[i]
  BY DEF OnlyOf, InstancesOf
<1>3. {<<i, instances[i]>> : i \in InstancesOf(m)}' = {<<i, instances[i]>> : i \in InstancesOf(m)}
  BY <1>2, Zenon
<1>4. /\ {k \in DOMAIN messages : messages[k].recipient = m}'
            = {k \in DOMAIN messages : messages[k].recipient = m}
      /\ {k \in DOMAIN messages : messages[k].sender = m}'
            = {k \in DOMAIN messages : messages[k].sender = m}
  BY Zenon DEF MailUntouched
<1>5. {<<n, messages[n]>> : n \in {k \in DOMAIN messages : messages[k].recipient = m}}'
         = {<<n, messages[n]>> : n \in {k \in DOMAIN messages : messages[k].recipient = m}}
  BY <1>4 DEF MailUntouched
<1> QED BY <1>1, <1>3, <1>4, <1>5, Zenon DEF Trace

\* Every operation leaves a membership that may not act as it is.
LEMMA InertStep ==
    ASSUME TypeOK, Ownership, [Next]_vars,
           NEW m \in MembershipId, IsMember(m), ~Acting(m)
    PROVE  Trace(m)' = Trace(m)
<1>1. CASE UNCHANGED <<memberships, instances, messages>>
  BY <1>1, Zenon DEF Trace, InstancesOf
<1>2. ASSUME NEW p, m # p, OnlyOf(p), messages' = messages
      PROVE  Trace(m)' = Trace(m)
  <2>1. MailUntouched(m)
    BY <1>2, Zenon DEF MailUntouched
  <2> QED BY <1>2, <2>1, TraceKept, Zenon
<1>3. ASSUME NEW q \in SquadName, NEW mission \in BOOLEAN,
             NEW name \in MemberName, NEW mm \in MembershipId,
             NEW i \in InstanceId, NEW now \in Millis,
             JoinAndClaim(q, mission, name, mm, i, now)
      PROVE  Trace(m)' = Trace(m)
  BY <1>2, <1>3, JoinTouchesTheNew, Zenon
<1>4. ASSUME NEW s \in Session, NEW now \in Millis, AuthenticatedHeartbeat(s, now)
      PROVE  Trace(m)' = Trace(m)
  BY <1>2, <1>4, HeartbeatTouchesTheCaller, Zenon
<1>5. ASSUME NEW s \in Session, NEW q \in SquadName, NEW now \in Millis,
             AuthenticatedLeave(s, q, now)
      PROVE  Trace(m)' = Trace(m)
  BY <1>2, <1>5, LeaveTouchesTheCaller, Zenon
<1>6. ASSUME NEW s \in Session, NEW q \in SquadName, NEW i \in InstanceId,
             NEW now \in Millis, AuthenticatedResume(s, q, i, now)
      PROVE  Trace(m)' = Trace(m)
  BY <1>2, <1>6, ResumeTouchesTheCaller, Zenon
<1>7. ASSUME NEW s \in Session, NEW req \in SendRequest, NEW now \in Millis,
             AuthenticatedSendByName(s, req, now)
      PROVE  Trace(m)' = Trace(m)
  <2>1. PICK row \in MessageRow :
           /\ messages' = Append(messages, row)
           /\ IsActive(row.sender) /\ memberships[row.sender].squad = row.squad
           /\ IsActive(row.recipient) /\ memberships[row.recipient].squad = row.squad
           /\ squads[row.squad] # "archived"
    BY <1>7, SendStoresNewMail, Zenon
  <2>2. row.sender # m /\ row.recipient # m
    BY <2>1, Zenon DEF Acting
  <2>3. PICK last : last = Len(messages) + 1
    BY Zenon
  <2>4. /\ DOMAIN messages' = DOMAIN messages \cup {last}
        /\ messages'[last] = row
        /\ \A n \in DOMAIN messages : messages'[n] = messages[n]
    BY <2>1, <2>3 DEF TypeOK
  <2>5. MailUntouched(m)
    BY <2>2, <2>4, Zenon DEF MailUntouched
  <2>6. OnlyOf(row.sender)
    BY <1>7, Zenon DEF AuthenticatedSendByName, OnlyOf
  <2> QED BY <2>2, <2>5, <2>6, TraceKept, Zenon
<1>8. ASSUME NEW s \in Session, NEW ids \in SUBSET (1 .. MaxMessages),
             NEW now \in Millis, AuthenticatedAcknowledge(s, ids, now)
      PROVE  Trace(m)' = Trace(m)
  <2>1. PICK p : p = MembershipOf(s) /\ Acting(p)
    BY <1>8, CallerIsActing, Zenon DEF AuthenticatedAcknowledge, AcknowledgeVerdict
  <2>2. m # p
    BY <2>1, Zenon
  <2>3. MailUntouched(m)
    BY <1>8, <2>1, <2>2, AcknowledgeKeepsMail, Zenon DEF MailUntouched, SameMail
  <2>4. OnlyOf(p)
    BY <1>8, Zenon DEF AuthenticatedAcknowledge, OnlyOf
  <2> QED BY <2>2, <2>3, <2>4, TraceKept, Zenon
<1>9. CASE Next
  BY <1>1, <1>3, <1>4, <1>5, <1>6, <1>7, <1>8, <1>9, Zenon
     DEF Next, CreateSquad, AuthenticatedArchiveByName
<1> QED BY <1>1, <1>9, Zenon DEF vars

\* A membership that left, and every membership of an archived squad, is left
\* as it is by every later operation, its mail and its instances included.
THEOREM FormerMembersStayInert == Spec => [][KeepsFormerMembers]_vars
<1>1. TypeOK /\ Ownership /\ [Next]_vars => KeepsFormerMembers
  BY InertStep, Zenon DEF Acting, IsActive, KeepsFormerMembers
<1> QED BY <1>1, OwnershipHolds, PTL DEF Spec

\* No operation reopens an archived squad or admits a member to it.
THEOREM ArchiveStaysFinal == Spec => [][KeepsArchived]_vars
<1>1. TypeOK /\ Ownership /\ [Next]_vars => KeepsArchived
  <2> SUFFICES ASSUME TypeOK, Ownership, [Next]_vars PROVE KeepsArchived
    BY Zenon
  <2> USE DEF KeepsArchived
  <2>1. ASSUME NEW q \in SquadName, NEW mission \in BOOLEAN,
               NEW name \in MemberName, NEW m \in MembershipId,
               NEW i \in InstanceId, NEW now \in Millis,
               JoinAndClaim(q, mission, name, m, i, now)
        PROVE  KeepsArchived
    BY <2>1, Zenon DEF JoinAndClaim, JoinVerdict, TypeOK
  <2>2. ASSUME NEW s \in Session, NEW q \in SquadName, NEW now \in Millis,
               AuthenticatedLeave(s, q, now)
        PROVE  KeepsArchived
    <3>1. PICK p \in MembershipId : Acting(p) /\ OnlyOf(p)
      BY <2>2, LeaveTouchesTheCaller, Zenon
    <3>2. squads' = squads
      BY <2>2, Zenon DEF AuthenticatedLeave
    <3>3. memberships'[p].squad = memberships[p].squad
      BY <3>1, MembershipsStayPlaced, Zenon DEF Acting, IsActive, Placed
    <3> QED BY <3>1, <3>2, <3>3, Zenon DEF OnlyOf, Acting
  <2>3. CASE /\ memberships' = memberships
             /\ \A q \in SquadName : squads[q] = "archived" => squads'[q] = "archived"
    BY <2>3, Zenon
  <2>4. CASE Next
    BY <2>1, <2>2, <2>3, <2>4, Zenon
       DEF Next, CreateSquad, AuthenticatedHeartbeat, AuthenticatedArchiveByName,
           AuthenticatedResume, AuthenticatedSendByName, AuthenticatedAcknowledge, TypeOK
  <2> QED BY <2>3, <2>4, Zenon DEF vars
<1> QED BY <1>1, OwnershipHolds, PTL DEF Spec

\* No operation of the relay changes what has ended.
THEOREM HistoryStaysFinal == Spec => HistoryIsFinal
  BY ClosedStaysFinal, FormerMembersStayInert, ArchiveStaysFinal, LeaseAlwaysFollowsLastSeen,
     PTL DEF HistoryIsFinal

-----------------------------------------------------------------------------
(* Reading: the pages of a transcript.                                     *)

\* Among the messages of a squad after a cursor, if there are any, one is the
\* oldest.
LEMMA OldestOfRest ==
  ASSUME NEW rest \in SUBSET Nat, rest # {}
  PROVE  \E n \in rest : \A k \in rest : n <= k
<1>1. IsWellFoundedOn(OpToRel(<, Nat), Nat)
  BY NatLessThanWellFounded, Zenon
<1>2. \E n \in rest : \A k \in rest : <<k, n>> \notin OpToRel(<, Nat)
  BY <1>1, WFMin, Zenon
<1>3. PICK n \in rest : \A k \in rest : <<k, n>> \notin OpToRel(<, Nat)
  BY <1>2, Zenon
<1>4. ASSUME NEW k \in rest PROVE n <= k
  <2>1. n \in Nat /\ k \in Nat /\ <<k, n>> \in Nat \X Nat
    BY Zenon
  <2>2. <<k, n>> \notin {ss \in Nat \X Nat : ss[1] < ss[2]}
    BY <1>3, Zenon DEF OpToRel
  <2> QED BY <2>1, <2>2
<1> QED BY <1>4, Zenon

\* The rank of message n among those of squad q after a cursor.
Rank(q, after, n) == Cardinality({j \in after + 1 .. n : messages[j].squad = q})

\* A rank is a number, and no older message has a higher one.
LEMMA RankGrows ==
  ASSUME NEW q, NEW after \in Nat, NEW n \in Nat, NEW k \in Nat, k <= n
  PROVE  Rank(q, after, n) \in Nat /\ Rank(q, after, k) \in Nat
         /\ Rank(q, after, k) <= Rank(q, after, n)
<1> DEFINE upTo(x) == {j \in after + 1 .. x : messages[j].squad = q}
<1>1. IsFiniteSet(after + 1 .. n)
  BY FS_Interval
<1>2. upTo(n) \subseteq after + 1 .. n /\ upTo(k) \subseteq upTo(n)
  OBVIOUS
<1>3. IsFiniteSet(upTo(n)) /\ IsFiniteSet(upTo(k))
  BY <1>1, <1>2, FS_Subset, Zenon
<1>4. Cardinality(upTo(n)) \in Nat /\ Cardinality(upTo(k)) \in Nat
  BY <1>3, FS_CardinalityType, Zenon
<1>5. Cardinality(upTo(k)) <= Cardinality(upTo(n))
  BY <1>2, <1>3, FS_Subset, Zenon
<1> QED BY <1>4, <1>5, Zenon DEF Rank

\* A reader that goes on after the last message of a page misses none, at any
\* cursor and for any limit, whatever other squads' messages lie between.
THEOREM TranscriptsNeverHaveGaps == Spec => []TranscriptHasNoGaps
<1>1. TypeOK => TranscriptHasNoGaps
  <2> SUFFICES ASSUME TypeOK, NEW q \in SquadName, NEW after \in 0 .. Len(messages),
                      NEW limit \in 1 .. MaxMessages
               PROVE  LET page == TranscriptPage(q, after, limit)
                          rest == {n \in after + 1 .. Len(messages) : messages[n].squad = q}
                      IN  /\ page \subseteq rest
                          /\ page = {} => rest = {}
                          /\ \A n \in page, k \in rest : k < n => k \in page
    BY Zenon DEF TranscriptHasNoGaps
  <2> DEFINE page == TranscriptPage(q, after, limit)
             rest == {n \in after + 1 .. Len(messages) : messages[n].squad = q}
  <2>1. /\ DOMAIN messages = 1 .. Len(messages) /\ Len(messages) \in Nat
        /\ after \in Nat /\ limit \in Nat /\ limit >= 1
        /\ rest \subseteq Nat
    BY BoundAssumption DEF TypeOK
  <2>2. page = {n \in rest : Rank(q, after, n) <= limit}
    BY <2>1 DEF TranscriptPage, Rank
  <2>3. ASSUME rest # {} PROVE page # {}
    <3>1. PICK n \in rest : \A k \in rest : n <= k
      BY <2>1, <2>3, OldestOfRest, Zenon
    <3>2. {j \in after + 1 .. n : messages[j].squad = q} = {n}
      BY <2>1, <3>1
    <3>3. Rank(q, after, n) = 1
      BY <3>2, FS_Singleton, Zenon DEF Rank
    <3> QED BY <2>1, <2>2, <3>3, Zenon
  <2>4. ASSUME NEW n \in page, NEW k \in rest, k < n PROVE k \in page
    <3>1. n \in Nat /\ k \in Nat /\ k <= n
      BY <2>1, <2>2, <2>4
    <3>2. /\ Rank(q, after, n) \in Nat /\ Rank(q, after, k) \in Nat
          /\ Rank(q, after, k) <= Rank(q, after, n)
      BY <2>1, <3>1, RankGrows, Zenon
    <3>3. Rank(q, after, n) <= limit
      BY <2>2, Zenon
    <3> QED BY <2>1, <2>2, <3>2, <3>3
  <2> QED BY <2>2, <2>3, <2>4, Zenon
<1> QED BY <1>1, TypeCorrect, PTL

-----------------------------------------------------------------------------
(* Opening and migrating the relay's database. *)

\* A function on the fields, as every content of the file is.
IsRecord(content) == content = [field \in Fields |-> content[field]]

\* The draft of the process that holds the lock.
DraftInv(o) ==
    /\ DOMAIN draft[o] = Fields
    /\ draft[o].wal \in BOOLEAN
    /\ Whole(draft[o])
    /\ file.ledger \subseteq draft[o].ledger
    /\ file.objects \subseteq draft[o].objects
    /\ file.owner # "other"

\* The inductive invariant.
SchemaIInv ==
    /\ IsRecord(file)
    /\ DOMAIN file = Fields
    /\ file.wal \in BOOLEAN
    /\ Whole(file)
    /\ DOMAIN draft = Opener
    /\ DOMAIN pc = Opener
    /\ \A o \in Opener : pc[o] = "migrate" <=> lock = o
    /\ \A o \in Opener : lock = o => DraftInv(o)

\* Applying a migration keeps a content whole and only adds to it: its SQL and
\* its ledger row go in together.
LEMMA MigratedIsWhole ==
    ASSUME NEW content, DOMAIN content = Fields, content.wal \in BOOLEAN,
           Whole(content), NEW v, NEW sql
    PROVE  /\ DOMAIN Migrated(content, v, sql) = Fields
           /\ Migrated(content, v, sql).wal \in BOOLEAN
           /\ Whole(Migrated(content, v, sql))
           /\ content.ledger \subseteq Migrated(content, v, sql).ledger
           /\ content.objects \subseteq Migrated(content, v, sql).objects
<1> DEFINE m == Migrated(content, v, sql)
<1>1. /\ DOMAIN m = Fields
      /\ m.wal = content.wal
      /\ m.ledger = content.ledger \cup {<<v, sql>>}
      /\ m.objects = content.objects \cup {sql}
  BY Zenon DEF Migrated, Fields
<1>2. {row[2] : row \in m.ledger} = {row[2] : row \in content.ledger} \cup {sql}
  <2>1. <<v, sql>>[2] = sql
    BY Zenon
  <2> QED BY <1>1, <2>1, Zenon
<1> QED BY <1>1, <1>2, Zenon DEF Whole

\* Changing the journal mode or the application id leaves tables and ledger.
LEMMA OtherFields ==
    ASSUME NEW content, DOMAIN content = Fields, NEW w \in BOOLEAN, NEW a
    PROVE  /\ IsRecord([content EXCEPT !.wal = w])
           /\ IsRecord([content EXCEPT !.owner = a])
           /\ DOMAIN [content EXCEPT !.wal = w] = Fields
           /\ [content EXCEPT !.wal = w].wal = w
           /\ [content EXCEPT !.wal = w].owner = content.owner
           /\ [content EXCEPT !.wal = w].ledger = content.ledger
           /\ [content EXCEPT !.wal = w].objects = content.objects
           /\ DOMAIN [content EXCEPT !.owner = a] = Fields
           /\ [content EXCEPT !.owner = a].wal = content.wal
           /\ [content EXCEPT !.owner = a].owner = a
           /\ [content EXCEPT !.owner = a].ledger = content.ledger
           /\ [content EXCEPT !.owner = a].objects = content.objects
BY Zenon DEF Fields, IsRecord

\* Writing a field's own value changes nothing.
LEMMA SameField ==
    ASSUME NEW content, IsRecord(content), content.wal \in BOOLEAN
    PROVE  /\ content = [content EXCEPT !.wal = content.wal \/ content.wal]
           /\ content.owner = "other" => content = [content EXCEPT !.owner = "other"]
<1>1. (content.wal \/ content.wal) = content.wal
  BY Zenon
<1>2. content = [content EXCEPT !.wal = content.wal]
  BY Zenon DEF IsRecord, Fields
<1>3. content.owner = "other" => content = [content EXCEPT !.owner = "other"]
  BY Zenon DEF IsRecord, Fields
<1> QED BY <1>1, <1>2, <1>3, Zenon

\* A file as opening finds it satisfies the invariant.
LEMMA InitSchemaIInv == SchemaInit => SchemaIInv
BY FilesAssumption, ProcessAssumption, Zenon DEF SchemaInit, SchemaIInv, IsRecord

\* Every step of every process keeps the invariant.
LEMMA NextSchemaIInv == SchemaIInv /\ [SchemaNext]_schemaVars => SchemaIInv'
<1> SUFFICES ASSUME SchemaIInv, [SchemaNext]_schemaVars PROVE SchemaIInv'
  BY Zenon
<1> USE ProcessAssumption
<1>1. ASSUME NEW o \in Opener, OpenFile(o) PROVE SchemaIInv'
  BY <1>1 DEF OpenFile, Refuse, Goto, SchemaIInv, DraftInv, Whole, IsRecord
<1>2. ASSUME NEW o \in Opener, EnableWal(o) PROVE SchemaIInv'
  <2>1. /\ DOMAIN file' = Fields
        /\ IsRecord(file')
        /\ file'.wal \in BOOLEAN
        /\ file'.owner = file.owner
        /\ file'.ledger = file.ledger
        /\ file'.objects = file.objects
    BY <1>2, OtherFields, Zenon DEF EnableWal, SchemaIInv
  <2> QED BY <1>2, <2>1, Zenon DEF EnableWal, Goto, SchemaIInv, DraftInv, Whole, IsRecord
<1>3. ASSUME NEW o \in Opener, BeginExclusive(o) PROVE SchemaIInv'
  <2>1. CASE MigrateVerdict(o) = "Ok"
    <3>1. file.owner # "other"
      BY <2>1, Zenon DEF MigrateVerdict, VerifyApplicationId
    <3>2. /\ lock' = o
          /\ draft' = [draft EXCEPT ![o] = file]
          /\ pc' = [pc EXCEPT ![o] = "migrate"]
          /\ file' = file
          /\ lock = Nobody
      BY <1>3, <2>1, Zenon DEF BeginExclusive, Goto
    <3> QED BY <3>1, <3>2, Zenon DEF SchemaIInv, DraftInv, Whole, IsRecord
  <2>2. CASE MigrateVerdict(o) # "Ok"
    <3>1. /\ UNCHANGED <<lock, draft, file>>
          /\ pc' = [pc EXCEPT ![o] = "refused"]
          /\ pc[o] = "begin"
      BY <1>3, <2>2, Zenon DEF BeginExclusive, Refuse
    <3> QED BY <3>1, Zenon DEF SchemaIInv, DraftInv, Whole, IsRecord
  <2> QED BY <2>1, <2>2, Zenon
<1>4. ASSUME NEW o \in Opener, Apply(o) PROVE SchemaIInv'
  <2>1. lock = o /\ DraftInv(o)
    BY <1>4, Zenon DEF Apply, SchemaIInv
  <2>2. PICK v, sql : draft' = [draft EXCEPT ![o] = Migrated(draft[o], v, sql)]
    BY <1>4, Zenon DEF Apply
  <2>3. draft'[o] = Migrated(draft[o], v, sql) /\ DOMAIN draft' = Opener
    BY <2>2, Zenon DEF SchemaIInv
  <2>4. UNCHANGED <<file, lock, pc>>
    BY <1>4, Zenon DEF Apply
  <2>5. /\ DOMAIN draft'[o] = Fields
        /\ draft'[o].wal \in BOOLEAN
        /\ Whole(draft'[o])
        /\ draft[o].ledger \subseteq draft'[o].ledger
        /\ draft[o].objects \subseteq draft'[o].objects
    BY <2>1, <2>3, MigratedIsWhole DEF DraftInv
  <2>6. DraftInv(o)'
    BY <2>1, <2>4, <2>5, Zenon DEF DraftInv, Whole
  <2> QED BY <2>1, <2>3, <2>4, <2>6, Zenon DEF SchemaIInv, Whole, IsRecord
<1>5. ASSUME NEW o \in Opener, Commit(o) PROVE SchemaIInv'
  <2>1. lock = o /\ DraftInv(o)
    BY <1>5, Zenon DEF Commit, SchemaIInv
  <2>2. /\ DOMAIN file' = Fields
        /\ IsRecord(file')
        /\ file'.wal \in BOOLEAN
        /\ file'.ledger = draft[o].ledger
        /\ file'.objects = draft[o].objects
    <3>1. PICK d : d = draft[o]
      BY Zenon
    <3>2. file' = [d EXCEPT !.owner = "psst"] /\ DOMAIN d = Fields /\ d.wal \in BOOLEAN
      BY <1>5, <2>1, <3>1, Zenon DEF Commit, DraftInv
    <3> QED BY <3>1, <3>2, OtherFields
  <2>3. Whole(file')
    BY <2>1, <2>2, Zenon DEF DraftInv, Whole
  <2>4. lock' = Nobody /\ draft' = [draft EXCEPT ![o] = Nobody]
        /\ pc' = [pc EXCEPT ![o] = "open"]
    BY <1>5, <2>1, Zenon DEF Commit, EndTransaction
  <2> QED BY <2>1, <2>2, <2>3, <2>4, Zenon DEF SchemaIInv, Whole, IsRecord
<1>6. ASSUME NEW o \in Opener, GiveUp(o) PROVE SchemaIInv'
  BY <1>6, Zenon DEF GiveUp, Refuse, SchemaIInv, DraftInv, Whole, IsRecord
<1>7. ASSUME NEW o \in Opener, ApplyFails(o) PROVE SchemaIInv'
  BY <1>7, Zenon DEF ApplyFails, EndTransaction, Refuse, SchemaIInv, DraftInv, Whole, IsRecord
<1>8. ASSUME NEW o \in Opener, Exit(o) PROVE SchemaIInv'
  BY <1>8, Zenon DEF Exit, EndTransaction, SchemaIInv, DraftInv, Whole, IsRecord
<1>9. CASE OtherBegins
  BY <1>9, Zenon DEF OtherBegins, SchemaIInv, DraftInv, Whole, IsRecord
<1>10. CASE OtherCommits
  <2>1. /\ DOMAIN file' = Fields
        /\ IsRecord(file')
        /\ file'.wal = file.wal
        /\ file'.ledger = file.ledger
        /\ file'.objects = file.objects
    BY <1>10, OtherFields DEF OtherCommits, SchemaIInv
  <2> QED BY <1>10, <2>1, Zenon DEF OtherCommits, SchemaIInv, Whole, IsRecord
<1>11. CASE UNCHANGED schemaVars
  BY <1>11, Zenon DEF schemaVars, SchemaIInv, DraftInv, Whole, IsRecord
<1> QED BY <1>1, <1>2, <1>3, <1>4, <1>5, <1>6, <1>7, <1>8, <1>9, <1>10, <1>11, Zenon
        DEF SchemaNext, Step

\* The invariant holds in every reachable state.
THEOREM SchemaInvariance == SchemaSpec => []SchemaIInv
BY InitSchemaIInv, NextSchemaIInv, PTL DEF SchemaSpec

\* For any builds opening one file together, and whenever one of them dies:
\* the committed tables are exactly those of the committed ledger.
THEOREM MigrationIsAtomic == SchemaSpec => []NeverHalfMigrated
<1>1. SchemaIInv => NeverHalfMigrated
  BY Zenon DEF SchemaIInv, NeverHalfMigrated
<1> QED BY <1>1, SchemaInvariance, PTL

\* Two facts about one step: what is recorded stays, and a file of another
\* application keeps all but its journal mode.
LEMMA MigrationStepFacts ==
    ASSUME SchemaIInv, [SchemaNext]_schemaVars
    PROVE  /\ file.ledger \subseteq file'.ledger /\ file.objects \subseteq file'.objects
           /\ file.owner = "other" => file' = [file EXCEPT !.wal = @ \/ file'.wal]
<1> DEFINE Goal == /\ file.ledger \subseteq file'.ledger
                   /\ file.objects \subseteq file'.objects
                   /\ file.owner = "other" => file' = [file EXCEPT !.wal = file.wal \/ file'.wal]
<1>1. CASE file' = file
  <2>1. file = [file EXCEPT !.wal = file.wal \/ file.wal]
    BY SameField, Zenon DEF SchemaIInv
  <2> QED BY <1>1, <2>1, Zenon
<1>2. ASSUME NEW o \in Opener, EnableWal(o) PROVE Goal
  <2>1. file' = [file EXCEPT !.wal = TRUE]
    BY <1>2, Zenon DEF EnableWal
  <2>2. file'.wal = TRUE /\ file'.ledger = file.ledger /\ file'.objects = file.objects
    BY <2>1, OtherFields, Zenon DEF SchemaIInv
  <2>3. (file.wal \/ file'.wal) = TRUE
    BY <2>2, Zenon DEF SchemaIInv
  <2> QED BY <2>1, <2>2, <2>3, Zenon
<1>3. ASSUME NEW o \in Opener, Commit(o) PROVE Goal
  <2>1. DraftInv(o)
    BY <1>3, Zenon DEF Commit, SchemaIInv
  <2>2. file'.ledger = draft[o].ledger /\ file'.objects = draft[o].objects
    BY <1>3, <2>1, OtherFields DEF Commit, DraftInv
  <2> QED BY <2>1, <2>2, Zenon DEF DraftInv
<1>4. CASE OtherCommits
  <2>1. file' = [file EXCEPT !.owner = "other"]
    BY <1>4, Zenon DEF OtherCommits
  <2>2. /\ file'.wal = file.wal
        /\ file'.ledger = file.ledger
        /\ file'.objects = file.objects
    BY <2>1, OtherFields DEF SchemaIInv
  <2>3. file.owner = "other" => file' = file
    BY <2>1, SameField, Zenon DEF SchemaIInv
  <2>4. file = [file EXCEPT !.wal = file.wal \/ file.wal]
    BY SameField, Zenon DEF SchemaIInv
  <2> QED BY <2>2, <2>3, <2>4, Zenon
<1>5. Goal
  BY <1>1, <1>2, <1>3, <1>4, Zenon
     DEF SchemaNext, Step, schemaVars, OpenFile, BeginExclusive, Apply, GiveUp,
         ApplyFails, Exit, OtherBegins
<1> QED BY <1>5, Zenon

\* Migrations go forward only, whatever builds open the file in whatever order
\* and wherever they die.
THEOREM MigrationsGoForward == SchemaSpec => ForwardOnly
<1>1. SchemaIInv /\ [SchemaNext]_schemaVars
        => [file.ledger \subseteq file'.ledger /\ file.objects \subseteq file'.objects]_schemaVars
  BY MigrationStepFacts, Zenon
<1> QED BY <1>1, SchemaInvariance, PTL DEF ForwardOnly, SchemaSpec

\* A file that became another application's is given no table, no ledger row
\* and no psst application id, even by a process that was already opening it.
THEOREM ForeignFilesGetNoSchema == SchemaSpec => ForeignSchemaUntouched
<1>1. SchemaIInv /\ [SchemaNext]_schemaVars
        => [file.owner = "other" => file' = [file EXCEPT !.wal = @ \/ file'.wal]]_schemaVars
  BY MigrationStepFacts, Zenon
<1> QED BY <1>1, SchemaInvariance, PTL DEF ForeignSchemaUntouched, SchemaSpec

\* A finite set of integers that is not empty has a smallest element: one with
\* the fewest elements below it.
LEMMA HasMin ==
    ASSUME NEW S \in SUBSET Int, IsFiniteSet(S), S # {}
    PROVE  Min(S) \in S /\ \A y \in S : Min(S) <= y
<1> DEFINE Below(x) == {y \in S : y < x}
           R == StrictSubsetOrdering(S)
           T == {Below(x) : x \in S}
<1>1. IsWellFoundedOn(R, FiniteSubsetsOf(S))
  BY FS_StrictSubsetOrderingWellFounded, Zenon
<1>2. FiniteSubsetsOf(S) = SUBSET S
  BY FS_FiniteSubsetsOfFinite, Zenon
<1>3. T \subseteq SUBSET S /\ T # {}
  BY Zenon
<1>4. PICK t \in T : \A u \in T : ~(<<u, t>> \in R)
  <2>1. PICK F : F = FiniteSubsetsOf(S)
    BY Zenon
  <2>2. IsWellFoundedOn(R, F) /\ T \subseteq F /\ T # {}
    BY <1>1, <1>2, <1>3, <2>1, Zenon
  <2> HIDE DEF R, T
  <2> QED BY <2>2, WFMin, Zenon
<1>5. PICK x \in S : t = Below(x)
  BY Zenon
<1>6. ASSUME NEW y \in S PROVE x <= y
  <2> SUFFICES ASSUME y < x PROVE FALSE
    OBVIOUS
  <2>1. Below(y) \subseteq Below(x) /\ y \in Below(x) /\ y \notin Below(y)
    <3>1. x \in Int /\ y \in Int /\ \A z \in S : z \in Int
      BY Zenon
    <3>2. \A z \in S : z < y => z < x
      BY <3>1
    <3>3. ~(y < y)
      BY <3>1
    <3> QED BY <3>2, <3>3, Zenon
  <2>2. Below(y) \in SUBSET S /\ Below(x) \in SUBSET S /\ Below(y) # Below(x)
    BY <2>1, Zenon
  <2>3. <<Below(y), Below(x)>> \in R
    <3> HIDE DEF Below
    <3> QED BY <2>1, <2>2, Zenon DEF StrictSubsetOrdering
  <2>4. Below(y) \in T
    BY Zenon
  <2> QED BY <1>4, <1>5, <2>3, <2>4, Zenon
<1> QED BY <1>6, Zenon DEF Min

\* The ledger of a file migrated up to version k of a plan.
Prefix(plan, k) == {<<v, plan[v]>> : v \in 1 .. k}

\* It has k rows, and the next migration's row makes it the next prefix.
LEMMA PrefixFacts ==
    ASSUME NEW plan, NEW k \in Nat
    PROVE  /\ IsFiniteSet(Prefix(plan, k)) /\ Cardinality(Prefix(plan, k)) = k
           /\ Prefix(plan, k) \cup {<<k + 1, plan[k + 1]>>} = Prefix(plan, k + 1)
           /\ Keyed(Prefix(plan, k))
<1> DEFINE f == [v \in 1 .. k |-> <<v, plan[v]>>]
<1>1. f \in Bijection(1 .. k, Prefix(plan, k))
  <2>1. f \in [1 .. k -> Prefix(plan, k)]
    BY Zenon DEF Prefix
  <2>2. \A t \in Prefix(plan, k) : \E v \in 1 .. k : f[v] = t
    BY Zenon DEF Prefix
  <2>3. \A v, w \in 1 .. k : f[v] = f[w] => v = w
    BY Zenon
  <2> QED BY <2>1, <2>2, <2>3, Zenon DEF Bijection, Injection, Surjection, IsInjective
<1>2. ExistsBijection(1 .. k, Prefix(plan, k))
  BY <1>1, Zenon DEF ExistsBijection
<1>3. IsFiniteSet(1 .. k)
  BY FS_Interval
<1>4. IsFiniteSet(Prefix(plan, k)) /\ Cardinality(Prefix(plan, k)) = k
  BY <1>2, <1>3, FS_Bijection, FS_CountingElements, Zenon
<1>5. Prefix(plan, k) \cup {<<k + 1, plan[k + 1]>>} = Prefix(plan, k + 1)
  <2>1. 1 .. (k + 1) = (1 .. k) \cup {k + 1}
    OBVIOUS
  <2> QED BY <2>1, Zenon DEF Prefix
<1>6. /\ \A row \in Prefix(plan, k) : row = <<row[1], row[2]>> /\ row[1] \in Int
      /\ \A row, twin \in Prefix(plan, k) : row[1] = twin[1] => row = twin
  BY DEF Prefix
<1> QED BY <1>4, <1>5, <1>6, Zenon DEF Keyed

\* The versions of a ledger are finitely many integers.
LEMMA VersionsAreFinite ==
    ASSUME NEW ledger, Keyed(ledger)
    PROVE  IsFiniteSet(Versions(ledger)) /\ Versions(ledger) \in SUBSET Int
<1> DEFINE f == [row \in ledger |-> row[1]]
<1>1. f \in Surjection(ledger, Versions(ledger))
  BY Zenon DEF Surjection, Versions
<1>2. IsFiniteSet(Versions(ledger))
  <2> HIDE DEF f
  <2> QED BY <1>1, FS_Surjection, Zenon DEF Keyed
<1>3. Versions(ledger) \in SUBSET Int
  BY Zenon DEF Keyed, Versions
<1> QED BY <1>2, <1>3, Zenon

\* verify_migration_ledger accepts the prefixes of the build's plan and nothing
\* else: rows numbered from 1 without a gap, each with the plan's text.
LEMMA VerifiedIsPrefix ==
    ASSUME NEW plan \in Seq(Sql), NEW ledger, Keyed(ledger),
           VerifyMigrationLedger(plan, ledger) = "Ok"
    PROVE  \E k \in 0 .. Len(plan) : ledger = Prefix(plan, k)
<1> DEFINE V == Versions(ledger)
           n == Cardinality(V)
           wrong == {v \in V : VerifyRow(plan, ledger, v) # "Ok"}
<1>1. IsFiniteSet(V) /\ V \in SUBSET Int /\ n \in Nat
  BY VersionsAreFinite, FS_CardinalityType, Zenon
<1>2. wrong = {}
  <2> SUFFICES ASSUME wrong # {} PROVE FALSE
    BY Zenon
  <2>1. IsFiniteSet(wrong) /\ wrong \in SUBSET Int
    BY <1>1, FS_Subset, Zenon
  <2>2. Min(wrong) \in wrong
    <3> HIDE DEF wrong
    <3> QED BY <2>1, HasMin, Zenon
  <2>3. VerifyRow(plan, ledger, Min(wrong)) = "Ok"
    BY Zenon DEF VerifyMigrationLedger
  <2> QED BY <2>2, <2>3, Zenon
<1>3. ASSUME NEW v \in V
      PROVE  /\ v <= Len(plan)
             /\ v = 1 + Cardinality({w \in V : w < v})
             /\ <<v, plan[v]>> \in ledger
  <2>1. VerifyRow(plan, ledger, v) = "Ok"
    BY <1>2, Zenon
  <2>2. v \in Int /\ Len(plan) \in Nat
    BY <1>1
  <2> QED BY <2>1, <2>2 DEF VerifyRow
<1>4. ASSUME NEW v \in V PROVE v \in 1 .. n
  <2> DEFINE B == {w \in V : w < v}
  <2>1. v \in Int /\ v \notin B
    BY <1>1
  <2>2. B \in SUBSET (V \ {v})
    BY <2>1, Zenon
  <2>3. IsFiniteSet(V \ {v}) /\ Cardinality(V \ {v}) = n - 1
    BY <1>1, <1>4, FS_RemoveElement, Zenon
  <2>4. IsFiniteSet(B) /\ Cardinality(B) <= n - 1
    <3> HIDE DEF B
    <3> QED BY <2>2, <2>3, FS_Subset
  <2>5. Cardinality(B) \in Nat
    BY <2>4, FS_CardinalityType, Zenon
  <2>6. v = 1 + Cardinality(B)
    BY <1>3, Zenon
  <2> HIDE DEF B, n
  <2> QED BY <1>1, <2>1, <2>4, <2>5, <2>6
<1>5. V = 1 .. n
  <2>1. IsFiniteSet(1 .. n) /\ Cardinality(1 .. n) = n
    BY <1>1, FS_Interval
  <2>2. V \in SUBSET (1 .. n)
    BY <1>4, Zenon
  <2> QED BY <2>1, <2>2, FS_Subset, Zenon
<1>6. n \in 0 .. Len(plan)
  <2>1. CASE n = 0
    BY <2>1
  <2>2. CASE n # 0
    <3>1. n \in V
      BY <1>1, <1>5, <2>2
    <3>2. n <= Len(plan)
      BY <1>3, <3>1, Zenon
    <3> HIDE DEF n
    <3> QED BY <1>1, <3>2
  <2> QED BY <2>1, <2>2, Zenon
<1>7. ledger = Prefix(plan, n)
  <2>1. ASSUME NEW row \in ledger PROVE row \in Prefix(plan, n)
    <3>1. row[1] \in V
      BY Zenon DEF Versions
    <3>2. <<row[1], plan[row[1]]>> \in ledger
      BY <1>3, <3>1, Zenon
    <3>3. row = <<row[1], plan[row[1]]>>
      BY <3>2, Zenon DEF Keyed
    <3> QED BY <1>5, <3>1, <3>3, Zenon DEF Prefix
  <2>2. ASSUME NEW v \in 1 .. n PROVE <<v, plan[v]>> \in ledger
    BY <1>3, <1>5, Zenon
  <2> QED BY <2>1, <2>2, Zenon DEF Prefix
<1> QED BY <1>6, <1>7, Zenon

\* The invariant of what is recorded: a transaction's ledger is a prefix of its
\* build's plan, and nobody claims a file under an open store.
LedgerInv ==
    /\ Keyed(file.ledger)
    /\ \A o \in Opener : lock = o =>
          \E k \in 0 .. Len(Plan[o]) : draft[o].ledger = Prefix(Plan[o], k)
    /\ lock = Other => file.owner # "psst"
    /\ OpenMeansCurrent

\* A commit completes the build's own plan and leaves that of every open store
\* as it is: the rows of both are in one ledger, which has one row per version.
LEMMA CommitKeepsLedger ==
    ASSUME SchemaIInv, LedgerInv, NEW o \in Opener, Commit(o)
    PROVE  LedgerInv'
<1> USE ProcessAssumption
<1>1. lock = o /\ DraftInv(o)
  BY Zenon DEF Commit, SchemaIInv
<1>2. PICK d : d = draft[o]
  BY Zenon
<1>3. file' = [d EXCEPT !.owner = "psst"] /\ DOMAIN d = Fields /\ file.ledger \subseteq d.ledger
  BY <1>1, <1>2, Zenon DEF Commit, DraftInv
<1>4. file'.owner = "psst" /\ file'.ledger = d.ledger
  BY <1>3, OtherFields
<1>5. PICK k \in 0 .. Len(Plan[o]) : d.ledger = Prefix(Plan[o], k)
  BY <1>1, <1>2, Zenon DEF LedgerInv
<1>6. Plan[o] \in Seq(Sql) /\ Len(Plan[o]) \in Nat /\ DOMAIN Plan[o] = 1 .. Len(Plan[o])
  BY PlanAssumption
<1>7. k = Len(Plan[o])
  <2>1. Cardinality(d.ledger) = k /\ k \in Nat
    BY <1>5, <1>6, PrefixFacts
  <2>2. 1 + Cardinality(d.ledger) > Len(Plan[o])
    BY <1>2, Zenon DEF Commit, NextVersion
  <2> QED BY <1>5, <1>6, <2>1, <2>2
<1>8. d.ledger = Rows(Plan[o]) /\ Keyed(d.ledger)
  <2>1. Prefix(Plan[o], k) = Rows(Plan[o])
    BY <1>6, <1>7, Zenon DEF Prefix, Rows
  <2>2. Keyed(Prefix(Plan[o], k))
    BY <1>6, <1>7, PrefixFacts, Zenon
  <2> QED BY <1>5, <2>1, <2>2, Zenon
<1>9. lock' = Nobody /\ pc' = [pc EXCEPT ![o] = "open"]
  BY <1>1, Zenon DEF Commit, EndTransaction
<1>10. ASSUME NEW p \in Opener, pc'[p] = "open"
       PROVE  {row \in d.ledger : row[1] <= Len(Plan[p])} = Rows(Plan[p])
  <2>1. Plan[p] \in Seq(Sql) /\ Len(Plan[p]) \in Nat /\ DOMAIN Plan[p] = 1 .. Len(Plan[p])
    BY PlanAssumption
  <2>2. \A row \in Rows(Plan[p]) : row[1] <= Len(Plan[p])
    BY <2>1 DEF Rows
  <2>3. Rows(Plan[p]) \subseteq d.ledger
    <3>1. CASE p = o
      BY <1>8, <3>1, Zenon
    <3>2. CASE p # o
      <4>1. pc[p] = "open"
        BY <1>9, <1>10, <3>2, Zenon DEF SchemaIInv
      <4>2. Rows(Plan[p]) \subseteq file.ledger
        BY <4>1, Zenon DEF LedgerInv, OpenMeansCurrent
      <4> QED BY <1>3, <4>2, Zenon
    <3> QED BY <3>1, <3>2, Zenon
  <2>4. ASSUME NEW row \in d.ledger, row[1] <= Len(Plan[p]) PROVE row \in Rows(Plan[p])
    <3>1. row[1] \in 1 .. Len(Plan[p])
      BY <1>5, <1>6, <2>1, <2>4 DEF Prefix
    <3>2. <<row[1], Plan[p][row[1]]>> \in Rows(Plan[p])
      BY <2>1, <3>1, Zenon DEF Rows
    <3>3. row = <<row[1], Plan[p][row[1]]>>
      BY <1>8, <2>3, <3>2, Zenon DEF Keyed
    <3> QED BY <3>2, <3>3, Zenon
  <2> QED BY <2>2, <2>3, <2>4, Zenon
<1> QED BY <1>4, <1>8, <1>9, <1>10, Zenon DEF LedgerInv, OpenMeansCurrent, Keyed

\* Every step keeps what is recorded in order.
LEMMA NextLedger == SchemaIInv /\ LedgerInv /\ [SchemaNext]_schemaVars => LedgerInv'
<1> SUFFICES ASSUME SchemaIInv, LedgerInv, [SchemaNext]_schemaVars PROVE LedgerInv'
  BY Zenon
<1> USE ProcessAssumption
<1>1. ASSUME file'.owner = file.owner, file'.ledger = file.ledger, UNCHANGED <<lock, draft>>,
             \A p \in Opener : pc'[p] = "open" => pc[p] = "open"
      PROVE  LedgerInv'
  BY <1>1, Zenon DEF LedgerInv, OpenMeansCurrent, Keyed
<1>2. ASSUME NEW o \in Opener, EnableWal(o) PROVE LedgerInv'
  <2>1. file'.owner = file.owner /\ file'.ledger = file.ledger
    BY <1>2, OtherFields, Zenon DEF EnableWal, SchemaIInv
  <2> QED BY <1>1, <1>2, <2>1, Zenon DEF EnableWal, Goto, SchemaIInv
<1>3. ASSUME NEW o \in Opener, OpenFile(o) \/ GiveUp(o) PROVE LedgerInv'
  BY <1>1, <1>3, Zenon DEF OpenFile, GiveUp, Goto, Refuse, SchemaIInv
<1>4. ASSUME NEW o \in Opener, BeginExclusive(o) PROVE LedgerInv'
  <2>1. CASE MigrateVerdict(o) = "Ok"
    <3>1. /\ lock' = o /\ file' = file
          /\ draft' = [draft EXCEPT ![o] = file]
          /\ pc' = [pc EXCEPT ![o] = "migrate"]
      BY <1>4, <2>1, Zenon DEF BeginExclusive, Goto
    <3>2. VerifyMigrationLedger(Plan[o], file.ledger) = "Ok"
      BY <2>1, Zenon DEF MigrateVerdict
    <3>3. \E k \in 0 .. Len(Plan[o]) : file.ledger = Prefix(Plan[o], k)
      BY <3>2, PlanAssumption, VerifiedIsPrefix, Zenon DEF LedgerInv
    <3> QED BY <3>1, <3>3, Zenon DEF LedgerInv, OpenMeansCurrent, Keyed, SchemaIInv
  <2>2. CASE MigrateVerdict(o) # "Ok"
    BY <1>1, <1>4, <2>2, Zenon DEF BeginExclusive, Refuse, SchemaIInv
  <2> QED BY <2>1, <2>2, Zenon
<1>5. ASSUME NEW o \in Opener, Apply(o) PROVE LedgerInv'
  <2>1. lock = o /\ DraftInv(o)
    BY <1>5, Zenon DEF Apply, SchemaIInv
  <2>2. PICK k \in 0 .. Len(Plan[o]) : draft[o].ledger = Prefix(Plan[o], k)
    BY <2>1, Zenon DEF LedgerInv
  <2>3. NextVersion(draft[o]) = k + 1 /\ k + 1 \in 0 .. Len(Plan[o])
    <3>1. Len(Plan[o]) \in Nat
      BY PlanAssumption
    <3>2. k \in Nat /\ Cardinality(draft[o].ledger) = k
      BY <2>2, <3>1, PrefixFacts
    <3> QED BY <1>5, <3>1, <3>2 DEF Apply, NextVersion
  <2>4. draft' = [draft EXCEPT ![o] = Migrated(draft[o], k + 1, Plan[o][k + 1])]
    BY <1>5, <2>3, Zenon DEF Apply
  <2>5. draft'[o].ledger = draft[o].ledger \cup {<<k + 1, Plan[o][k + 1]>>}
    BY <2>1, <2>4, Zenon DEF Migrated, SchemaIInv, DraftInv, Fields
  <2>6. draft'[o].ledger = Prefix(Plan[o], k + 1)
    BY <2>2, <2>5, PrefixFacts
  <2>7. UNCHANGED <<file, lock, pc>>
    BY <1>5, Zenon DEF Apply
  <2> QED BY <2>1, <2>3, <2>6, <2>7, Zenon DEF LedgerInv, OpenMeansCurrent, Keyed
<1>6. ASSUME NEW o \in Opener, Commit(o) PROVE LedgerInv'
  BY <1>6, CommitKeepsLedger, Zenon
<1>7. ASSUME NEW o \in Opener, ApplyFails(o) \/ Exit(o) PROVE LedgerInv'
  BY <1>7 DEF ApplyFails, Exit, EndTransaction, Refuse, LedgerInv, OpenMeansCurrent, Keyed, SchemaIInv
<1>8. CASE OtherBegins
  BY <1>8, Zenon DEF OtherBegins, LedgerInv, OpenMeansCurrent, Keyed
<1>9. CASE OtherCommits
  <2>1. file'.ledger = file.ledger
    BY <1>9, OtherFields DEF OtherCommits, SchemaIInv
  <2>2. \A p \in Opener : pc[p] # "open"
    BY <1>9, Zenon DEF OtherCommits, LedgerInv, OpenMeansCurrent
  <2> QED BY <1>9, <2>1, <2>2, Zenon DEF OtherCommits, LedgerInv, OpenMeansCurrent, Keyed
<1>10. CASE UNCHANGED schemaVars
  BY <1>1, <1>10, Zenon DEF schemaVars
<1> QED BY <1>2, <1>3, <1>4, <1>5, <1>6, <1>7, <1>8, <1>9, <1>10, Zenon DEF SchemaNext, Step

\* Beside SchemaIInv, the ledger's invariant holds at every moment.
LEMMA LedgerInvariance == SchemaSpec => []LedgerInv
<1>1. SchemaInit => LedgerInv
  BY FilesAssumption, ProcessAssumption, Zenon DEF SchemaInit, LedgerInv, OpenMeansCurrent
<1> QED BY <1>1, NextLedger, SchemaInvariance, PTL DEF SchemaSpec

\* However many builds open one file, in whatever order and wherever they die:
\* a store that is open is psst's and has every migration of its build, in order
\* and with the build's own text.
THEOREM OpenStoresAreCurrent == SchemaSpec => []OpenMeansCurrent
<1>1. LedgerInv => OpenMeansCurrent
  BY Zenon DEF LedgerInv
<1> QED BY <1>1, LedgerInvariance, PTL

\* A finite set of integers that is not empty has a largest element.
LEMMA HasMax ==
    ASSUME NEW S \in SUBSET Int, IsFiniteSet(S), S # {}
    PROVE  Max(S) \in S /\ \A x \in S : x <= Max(S)
<1> DEFINE T == {-x : x \in S}
           f == [x \in S |-> -x]
<1>1. IsFiniteSet(T)
  <2>1. f \in Surjection(S, T)
    BY Zenon DEF Surjection
  <2> HIDE DEF f, T
  <2> QED BY <2>1, FS_Surjection, Zenon
<1>2. T \in SUBSET Int /\ T # {}
  <2>1. \A x \in S : -x \in Int
    OBVIOUS
  <2>2. PICK y \in S : TRUE
    BY Zenon
  <2>3. -y \in T
    BY Zenon
  <2> QED BY <2>1, <2>3, Zenon
<1>3. PICK least \in T : \A t \in T : least <= t
  <2> HIDE DEF T
  <2> QED BY <1>1, <1>2, HasMin, Zenon
<1>4. PICK x \in S : least = -x
  BY <1>3, Zenon
<1>5. \A y \in S : x >= y
  <2> SUFFICES ASSUME NEW y \in S PROVE x >= y
    BY Zenon
  <2>1. -y \in T /\ least <= -y
    BY <1>3, Zenon
  <2> QED BY <1>4, <2>1
<1> QED BY <1>5, Zenon DEF Max

\* The largest recorded version of an open store is its build's last exactly
\* when the ledger is the build's plan.
LEMMA LargestTellsAll ==
    ASSUME LedgerInv, NEW o \in Opener, pc[o] = "open"
    PROVE  Readiness(o) <=> file.ledger = Rows(Plan[o])
<1> DEFINE plan == Plan[o]
           S == Versions(file.ledger) \cup {0}
<1>1. Len(plan) \in Nat /\ DOMAIN plan = 1 .. Len(plan)
  BY PlanAssumption
<1>2. {row \in file.ledger : row[1] <= Len(plan)} = Rows(plan)
  BY Zenon DEF LedgerInv, OpenMeansCurrent
<1>3. IsFiniteSet(file.ledger) /\ \A row \in file.ledger : row[1] \in Int
  BY Zenon DEF LedgerInv, Keyed
<1>4. IsFiniteSet(S) /\ S \in SUBSET Int /\ S # {}
  <2>1. IsFiniteSet(Versions(file.ledger))
    BY VersionsAreFinite, Zenon DEF LedgerInv
  <2>2. IsFiniteSet(Versions(file.ledger) \cup {0})
    BY <2>1, FS_AddElement, Zenon
  <2> QED BY <1>3, <2>2 DEF Versions
<1>5. PICK top \in S : top = Max(S) /\ \A v \in S : v <= top
  <2> HIDE DEF S
  <2> QED BY <1>4, HasMax, Zenon
<1>6. top \in Int /\ (Readiness(o) <=> top = Len(plan))
  BY <1>4, <1>5, Zenon DEF Readiness
<1>7. ASSUME top = Len(plan) PROVE file.ledger = Rows(plan)
  <2>1. \A row \in file.ledger : row[1] <= Len(plan)
    BY <1>5, <1>7, Zenon DEF Versions
  <2> QED BY <1>2, <2>1, Zenon
<1>8. ASSUME file.ledger = Rows(plan) PROVE top = Len(plan)
  <2>1. \A row \in file.ledger : row[1] \in 1 .. Len(plan)
    BY <1>1, <1>8 DEF Rows
  <2>2. top <= Len(plan)
    BY <1>1, <1>5, <2>1 DEF Versions
  <2>3. Len(plan) \in S
    <3>1. CASE Len(plan) = 0
      BY <3>1, Zenon
    <3>2. CASE Len(plan) # 0
      <4>1. <<Len(plan), plan[Len(plan)]>> \in file.ledger
        BY <1>1, <1>8, <3>2 DEF Rows
      <4>2. <<Len(plan), plan[Len(plan)]>>[1] = Len(plan)
        BY Zenon
      <4> QED BY <4>1, <4>2, Zenon DEF Versions
    <3> QED BY <3>1, <3>2, Zenon
  <2>4. Len(plan) <= top
    BY <1>5, <2>3, Zenon
  <2> QED BY <1>1, <1>6, <2>2, <2>4
<1> QED BY <1>6, <1>7, <1>8, Zenon

\* The committed file is whole, open stores are current, and readiness, which
\* looks at one number, tells a store that a newer build has overtaken.
THEOREM StoresAreAlwaysSound == SchemaSpec => []StoresAreSound
<1>1. LedgerInv => StaleStoreIsNotReady
  BY LargestTellsAll, Zenon DEF StaleStoreIsNotReady
<1>2. NeverHalfMigrated /\ OpenMeansCurrent /\ StaleStoreIsNotReady => StoresAreSound
  BY Zenon DEF StoresAreSound
<1> QED BY <1>1, <1>2, MigrationIsAtomic, OpenStoresAreCurrent, LedgerInvariance, PTL
=============================================================================
