------------------------------ MODULE Library ------------------------------
(***************************************************************************)
(* The store's public operations that take no session, beside the ones the *)
(* relay calls (psst-store instance.rs, repository.rs, message.rs and      *)
(* inbox.rs; the by-id variants of authenticated.rs).  Both families work  *)
(* on the tables of Store, and callers on independent connections may mix  *)
(* them: join and claim are two commits here, a membership or a message is *)
(* named by its id, and each family finds the owner of a membership by a   *)
(* rule of its own.                                                        *)
(*                                                                         *)
(* Each operation is one immediate transaction, except archive_squad: its  *)
(* update and the read that explains a failed update are two statements.   *)
(***************************************************************************)
EXTENDS Store

CONSTANT Caller  \* connections that call archive_squad

VARIABLES
    archiving,  \* archiving[c]: the squad whose update by c changed no row, or NoRow
    excuse      \* excuse[c]: <<what c was told, the squad's state then>>, or NoRow

libVars == <<squads, memberships, instances, messages, archiving, excuse>>

\* SendMessage: memberships and squad by id.
IdRequest == [squad : SquadName, sender : MembershipId, recipient : MembershipId,
              payload : Payload, reply_to : 0 .. MaxMessages, key : DedupeKey]

LibraryInit == /\ Init
               /\ archiving = [c \in Caller |-> NoRow]
               /\ excuse = [c \in Caller |-> NoRow]

----------------------------------------------------------------------------
(* Squads and memberships.                                                 *)

JoinMembershipVerdict(q, mission, name) ==
    IF squads[q] = "archived" THEN "SquadArchived"
    ELSE IF squads[q] = "none" /\ ~mission THEN "NotFound"
    ELSE IF HoldersOf(q, name) # {} THEN "NameInUse"
    ELSE "Ok"

\* join: the membership starts without an instance.
Join(q, mission, name, m) ==
    /\ JoinMembershipVerdict(q, mission, name) = "Ok"
    /\ memberships[m] = NoRow
    /\ squads' = [squads EXCEPT ![q] = "active"]
    /\ memberships' = [memberships EXCEPT
                          ![m] = [squad |-> q, name |-> name, left |-> FALSE]]
    /\ UNCHANGED <<instances, messages, archiving, excuse>>

\* leave: also from an archived squad; closes every unclosed instance.
Leave(q, m) ==
    /\ IsActive(m)
    /\ memberships[m].squad = q
    /\ instances' = CloseUnclosed(m)
    /\ memberships' = [memberships EXCEPT ![m].left = TRUE]
    /\ UNCHANGED <<squads, messages, archiving, excuse>>

\* archive_squad, the update: no row changes unless the squad is active.
ArchiveSquad(c, q) ==
    /\ archiving[c] = NoRow
    /\ \/ /\ squads[q] = "active"
          /\ squads' = [squads EXCEPT ![q] = "archived"]
          /\ UNCHANGED archiving
       \/ /\ squads[q] # "active"
          /\ archiving' = [archiving EXCEPT ![c] = q]
          /\ UNCHANGED squads
    /\ excuse' = [excuse EXCEPT ![c] = NoRow]
    /\ UNCHANGED <<memberships, instances, messages>>

\* archive_squad, the answer: a squad that describe_squad finds counts as archived.
ExplainArchive(c) ==
    /\ archiving[c] # NoRow
    /\ LET state == squads[archiving[c]]
       IN  excuse' = [excuse EXCEPT ![c] =
               <<IF state = "none" THEN "NotFound" ELSE "SquadArchived", state>>]
    /\ archiving' = [archiving EXCEPT ![c] = NoRow]
    /\ UNCHANGED <<squads, memberships, instances, messages>>

\* authenticated_archive: the squad by id.
AuthenticatedArchive(s, q, now) ==
    /\ AuthorizeCurrent(s, now) = "Ok"
    /\ SquadOf(s) = q
    /\ squads' = [squads EXCEPT ![q] = "archived"]
    /\ UNCHANGED <<memberships, instances, messages, archiving, excuse>>

----------------------------------------------------------------------------
(* Instances.                                                              *)

RequireActiveMembership(m) ==
    IF IsActive(m) /\ squads[memberships[m].squad] = "active"
    THEN "Ok" ELSE "NotMember"

\* claim_instance: only a membership that never had an instance is claimed.
ClaimInstance(m, i, now) ==
    /\ RequireActiveMembership(m) = "Ok"
    /\ InstancesOf(m) = {}
    /\ LeaseFits(now)
    /\ instances[i] = NoRow
    /\ instances' = [instances EXCEPT ![i] = NewInstance(m, m, now)]
    /\ UNCHANGED <<squads, memberships, messages, archiving, excuse>>

InstanceStateAt(i, now) ==
    IF instances[i].closed THEN "Closed"
    ELSE IF now >= instances[i].lease_expires_at THEN "Expired"
    ELSE "Online"

\* renew_lease: the clock may have stepped back since the lease was granted.
RenewLease(i, at) == Later(at + Lease, instances[i].lease_expires_at)

\* heartbeat_instance: unlike authenticated_heartbeat it never asks whether the
\* squad is archived.
HeartbeatInstanceVerdict(s, now) ==
    IF \/ AuthenticateHistorical(s) # "Ok"
       \/ InstanceStateAt(s.instance, now) = "Closed"
       \/ memberships[MembershipOf(s)].left THEN "NotMember"
    ELSE LET at == EffectiveNow(s.instance, now)
         IN  IF InstanceStateAt(s.instance, at) = "Expired" THEN "LeaseExpired"
             ELSE IF ~LeaseFits(at) THEN "InvalidRequest" ELSE "Ok"

HeartbeatInstance(s, now) ==
    /\ HeartbeatInstanceVerdict(s, now) = "Ok"
    /\ LET at == EffectiveNow(s.instance, now)
       IN  instances' = [instances EXCEPT
              ![s.instance].last_seen_at = at,
              ![s.instance].lease_expires_at = RenewLease(s.instance, at)]
    /\ UNCHANGED <<squads, memberships, messages, archiving, excuse>>

\* Faulty: an owner is live on the millisecond of expiry.
ResumeAfterExpiry(m, p, token, now) ==
    IF RequireActiveMembership(m) # "Ok" THEN "NotMember"
    ELSE IF instances[p].token # token THEN "NotMember"
    ELSE IF ~instances[p].closed /\ now <= instances[p].lease_expires_at
         THEN "NameInUse"
    ELSE IF ~LeaseFits(now) THEN "InvalidRequest"
    ELSE "Ok"

\* resume_instance looks at one predecessor p, the instance created last.
ResumeInstanceVerdict(m, p, token, now) ==
    IF RequireActiveMembership(m) # "Ok" THEN "NotMember"
    ELSE IF instances[p].token # token THEN "NotMember"
    ELSE IF ~instances[p].closed /\ now < instances[p].lease_expires_at
         THEN "NameInUse"
    ELSE IF ~LeaseFits(now) THEN "InvalidRequest"
    ELSE "Ok"

ResumeInstance(m, token, i, now) ==
    /\ \E p \in RosterPicks(m) : ResumeInstanceVerdict(m, p, token, now) = "Ok"
    /\ instances[i] = NoRow
    /\ instances' = [CloseUnclosed(m) EXCEPT ![i] = NewInstance(m, token, now)]
    /\ UNCHANGED <<squads, memberships, messages, archiving, excuse>>

----------------------------------------------------------------------------
(* Messages.                                                               *)

\* find_by_dedupe: the message stored for this squad, sender and key.
EarlierById(r) == {n \in DOMAIN messages : /\ messages[n].squad = r.squad
                                           /\ messages[n].sender = r.sender
                                           /\ messages[n].key = r.key}

SameSemantics(r, n) == /\ r.recipient = messages[n].recipient
                       /\ r.payload = messages[n].payload
                       /\ r.reply_to = messages[n].reply_to

ResolveRetry(r) == IF \A n \in EarlierById(r) : SameSemantics(r, n)
                   THEN "Replay" ELSE "IdempotencyConflict"

ActiveIn(m, q) == IsActive(m) /\ memberships[m].squad = q

AuthorizeSquadAndMembers(r) ==
    IF squads[r.squad] = "none" THEN "NotFound"
    ELSE IF squads[r.squad] = "archived" THEN "SquadArchived"
    ELSE IF ~ActiveIn(r.sender, r.squad) THEN "NotMember"
    ELSE IF ~ActiveIn(r.recipient, r.squad) THEN "RecipientNotFound"
    ELSE IF \/ r.reply_to = 0
            \/ /\ r.reply_to \in DOMAIN messages
               /\ messages[r.reply_to].squad = r.squad
         THEN "Ok" ELSE "InvalidRequest"

\* Faulty: authority first, then the retry.
AuthorizeThenRetry(r) ==
    IF AuthorizeSquadAndMembers(r) # "Ok" THEN AuthorizeSquadAndMembers(r)
    ELSE IF EarlierById(r) # {} THEN ResolveRetry(r)
    ELSE "Ok"

\* send_in_transaction
SendMessageVerdict(r) ==
    IF EarlierById(r) # {} THEN ResolveRetry(r) ELSE AuthorizeSquadAndMembers(r)

Stored(r) ==
    Append(messages, [squad |-> r.squad, sender |-> r.sender,
                      recipient |-> r.recipient, payload |-> r.payload,
                      reply_to |-> r.reply_to, key |-> r.key,
                      acknowledged_at |-> Null])

SendMessage(r) ==
    /\ Len(messages) < MaxMessages
    /\ SendMessageVerdict(r) = "Ok"
    /\ messages' = Stored(r)
    /\ UNCHANGED <<squads, memberships, instances, archiving, excuse>>

\* authenticated_send: a stored message is answered before current authority.
AuthenticatedSendVerdict(s, r, now) ==
    IF AuthenticateHistorical(s) # "Ok" THEN "NotFound"
    ELSE IF r.sender # MembershipOf(s) \/ r.squad # SquadOf(s) THEN "NotMember"
    ELSE IF EarlierById(r) # {} THEN ResolveRetry(r)
    ELSE IF AuthorizeCurrent(s, now) # "Ok" THEN AuthorizeCurrent(s, now)
    ELSE SendMessageVerdict(r)

AuthenticatedSend(s, r, now) ==
    /\ Len(messages) < MaxMessages
    /\ AuthenticatedSendVerdict(s, r, now) = "Ok"
    /\ messages' = Stored(r)
    /\ UNCHANGED <<squads, memberships, instances, archiving, excuse>>

\* acknowledge_on: every id is a message for m.
AllOwned(m, ids) ==
    \A n \in ids : n \in DOMAIN messages /\ messages[n].recipient = m

\* acknowledge_messages: all ids are the recipient's, or nothing is written.
\* Whether the recipient left, or its squad is archived, does not matter.
AcknowledgeMessages(m, ids, now) ==
    /\ ids # {}
    /\ AllOwned(m, ids)
    /\ messages' = [n \in DOMAIN messages |->
                      IF n \in ids /\ messages[n].acknowledged_at = Null
                      THEN [messages[n] EXCEPT !.acknowledged_at = now]
                      ELSE messages[n]]
    /\ UNCHANGED <<squads, memberships, instances, archiving, excuse>>

----------------------------------------------------------------------------
LibraryNext ==
    \/ Next /\ UNCHANGED <<archiving, excuse>>
    \/ \E q \in SquadName, mission \in BOOLEAN, name \in MemberName,
          m \in MembershipId : Join(q, mission, name, m)
    \/ \E q \in SquadName, m \in MembershipId : Leave(q, m)
    \/ \E c \in Caller, q \in SquadName : ArchiveSquad(c, q)
    \/ \E c \in Caller : ExplainArchive(c)
    \/ \E s \in Session, q \in SquadName, now \in Millis :
          AuthenticatedArchive(s, q, now)
    \/ \E m \in MembershipId, i \in InstanceId, now \in Millis :
          ClaimInstance(m, i, now)
    \/ \E s \in Session, now \in Millis : HeartbeatInstance(s, now)
    \/ \E m, token \in MembershipId, i \in InstanceId, now \in Millis :
          ResumeInstance(m, token, i, now)
    \/ \E r \in IdRequest : SendMessage(r)
    \/ \E s \in Session, r \in IdRequest, now \in Millis :
          AuthenticatedSend(s, r, now)
    \/ \E m \in MembershipId, ids \in SUBSET (1 .. MaxMessages), now \in Millis :
          AcknowledgeMessages(m, ids, now)

LibrarySpec == LibraryInit /\ [][LibraryNext]_libVars

----------------------------------------------------------------------------
(* What both families promise together.                                    *)

\* The tables of Store, and what each library caller remembers between its two
\* statements.
LibraryTypeOK ==
    /\ TypeOK
    /\ archiving \in [Caller -> SquadName \cup {NoRow}]
    /\ \A c \in Caller : \/ excuse[c] = NoRow
                         \/ excuse[c] \in {"NotFound", "SquadArchived"}
                                             \X {"none", "active", "archived"}

\* However the two families are mixed, a membership that was ever claimed has
\* exactly one unclosed instance until it leaves and none afterwards, and that
\* owner was created after every other instance of the membership, which is how
\* resume_instance and roster find it.
OneOwnerUntilLeft ==
    /\ OwnerIsNewest
    /\ \A m \in MembershipId : InstancesOf(m) # {} =>
          Cardinality(Unclosed(m)) = IF memberships[m].left THEN 0 ELSE 1

\* The two ways to resume never disagree: resume_instance, which looks at the
\* latest instance alone, and authenticated_resume, which is handed any past
\* instance and looks for a live one, grant the same membership at the same
\* readings of the clock.
ResumeRulesAgree ==
    \A m \in MembershipId, now \in Millis : IsMember(m) =>
        \A p \in RosterPicks(m), i \in InstancesOf(m) :
            ResumeInstanceVerdict(m, p, m, now) = "Ok"
            <=> ResumeVerdict(Credential(i), memberships[m].squad, now) = "Ok"

\* The two ways to send never disagree: for every session, recipient and
\* reading of the clock, authenticated_send (recipient by id) gives the verdict
\* that authenticated_send_by_name gives for that recipient's name with the id
\* as pin, retries included.
SendRulesAgree ==
    \A i \in InstanceId, m \in MembershipId, p \in Payload, k \in DedupeKey,
       n \in 0 .. MaxMessages, now \in Millis :
        instances[i] # NoRow /\ IsMember(m) =>
            LET s == Credential(i)
            IN  AuthenticatedSendVerdict(s,
                    [squad |-> SquadOf(s), sender |-> MembershipOf(s),
                     recipient |-> m, payload |-> p, reply_to |-> n, key |-> k],
                    now)
                = SendVerdict(s,
                    [recipient |-> memberships[m].name, pin |-> m,
                     payload |-> p, reply_to |-> n, key |-> k], now)

\* Repeating a stored send by id returns the stored message, also after sender
\* or recipient left and after the squad was archived: send_message resolves a
\* retry before it authorizes.
RetryByIdReturnsStored ==
    \A n \in DOMAIN messages :
        LET msg == messages[n]
            r == [squad |-> msg.squad, sender |-> msg.sender,
                  recipient |-> msg.recipient, payload |-> msg.payload,
                  reply_to |-> msg.reply_to, key |-> msg.key]
        IN  SendMessageVerdict(r) = "Replay" /\ EarlierById(r) = {n}

\* The two families of operations agree on owners, resumption and sending.
LibraryInvariant ==
    /\ LibraryTypeOK /\ OneOwnerUntilLeft /\ ResumeRulesAgree
    /\ SendRulesAgree /\ RetryByIdReturnsStored

\* An archived squad takes nothing new by any operation of either family: no
\* membership, no instance and no message; only heartbeats, departures and
\* acknowledgements of what is there go on.
ArchivedTakesNothingNew ==
    [][\A q \in SquadName : squads[q] = "archived" =>
          /\ squads'[q] = "archived"
          /\ \A m \in MembershipId : memberships[m] = NoRow /\ memberships'[m] # NoRow
                => memberships'[m].squad # q
          /\ \A i \in InstanceId : instances[i] = NoRow /\ instances'[i] # NoRow
                => memberships'[instances'[i].membership].squad # q
          /\ \A n \in DOMAIN messages' \ DOMAIN messages : messages'[n].squad # q
       ]_libVars

\* A membership that left takes nothing new: it stays left, its instances stay
\* as they are, and no message is stored from it or for it.
LeftTakesNothingNew ==
    [][\A m \in MembershipId : IsMember(m) /\ memberships[m].left =>
          /\ memberships'[m] = memberships[m]
          /\ {i \in InstanceId : instances'[i] # instances[i]} \cap InstancesOf(m) = {}
          /\ InstancesOf(m)' = InstancesOf(m)
          /\ \A n \in DOMAIN messages' \ DOMAIN messages :
                m \notin {messages'[n].sender, messages'[n].recipient}]_libVars

\* archive_squad answers SquadArchived only for a squad that is archived.
ArchivedMeansArchived ==
    \A c \in Caller : excuse[c] # NoRow =>
        (excuse[c][1] = "SquadArchived" => excuse[c][2] = "archived")
=============================================================================
