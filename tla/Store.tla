------------------------------- MODULE Store -------------------------------
(***************************************************************************)
(* The durable store of the psst relay: squads, memberships, instances     *)
(* (leased owners of a membership) and messages, with the operations the   *)
(* relay's SQLite worker performs on them (psst-store/authenticated.rs and *)
(* the helpers it calls).                                                  *)
(*                                                                         *)
(* Every operation is one immediate SQLite transaction, so it is one       *)
(* action.  An operation that returns an error rolls back: its verdict     *)
(* differs from "Ok" and the tables stay as they are.  The time an         *)
(* operation reads is an input of the action: the relay reads the wall     *)
(* clock once per command, and that clock may stand still or step back.    *)
(***************************************************************************)
EXTENDS Integers, Sequences, FiniteSets, FiniteSetsExt

CONSTANTS
    SquadName,     \* routing names of squads; UNIQUE, so they stand for squad ids
    MemberName,    \* normalized member names
    MembershipId,  \* membership ids the relay may generate
    InstanceId,    \* instance ids the relay may generate
    DedupeKey,     \* client-chosen idempotency keys
    Payload,       \* message body, priority and correlation id taken together
    Size,          \* conservative serialized size of a payload
    PageBytes,     \* MAX_INBOX_OUTPUT_BYTES
    Lease,         \* lease duration in milliseconds
    MaxMillis,     \* largest timestamp (i64::MAX in the code)
    MaxMessages,   \* bound of the model on the message table
    NoRow          \* "this id has no row", and "this request has no pin"

ASSUME LeaseAssumption == Lease \in Nat \ {0}
ASSUME MillisAssumption == MaxMillis \in Nat
ASSUME BoundAssumption == MaxMessages \in Nat
\* Even the largest message fits a page: 6 * 65536 bytes of escaped body plus
\* ids and overhead stay below MAX_INBOX_OUTPUT_BYTES.
ASSUME SizeAssumption == /\ Size \in [Payload -> Nat]
                         /\ \A p \in Payload : Size[p] + 2 <= PageBytes

VARIABLES
    squads,       \* squads[q] \in {"none", "active", "archived"}
    memberships,  \* memberships[m]: its row, or NoRow
    instances,    \* instances[i]: its row, or NoRow
    messages      \* the message table; the index is sequence and id at once

vars == <<squads, memberships, instances, messages>>

Millis == 0 .. MaxMillis
Null == -1

MembershipRow == [squad : SquadName, name : MemberName, left : BOOLEAN]

\* token names the membership whose join generated the resume token.
InstanceRow == [membership : MembershipId, token : MembershipId,
                created_at : Millis, last_seen_at : Millis,
                lease_expires_at : Millis, closed : BOOLEAN]

\* reply_to = 0 is a message that answers none.
MessageRow == [squad : SquadName, sender : MembershipId,
               recipient : MembershipId, payload : Payload,
               reply_to : 0 .. MaxMessages, key : DedupeKey,
               acknowledged_at : Millis \cup {Null}]

\* What a caller presents: AuthenticatedSession without its time.
Session == [instance : InstanceId, token : MembershipId]

SendRequest == [recipient : MemberName, pin : MembershipId \cup {NoRow},
                payload : Payload, reply_to : 0 .. MaxMessages,
                key : DedupeKey]

ASSUME NoRowAssumption ==
    NoRow \notin MembershipId \cup MembershipRow \cup InstanceRow

Init == /\ squads = [q \in SquadName |-> "none"]
        /\ memberships = [m \in MembershipId |-> NoRow]
        /\ instances = [i \in InstanceId |-> NoRow]
        /\ messages = << >>

----------------------------------------------------------------------------
(* Reading the tables.                                                     *)

IsMember(m) == memberships[m] # NoRow
IsActive(m) == IsMember(m) /\ ~memberships[m].left
InstancesOf(m) == {i \in InstanceId :
                      instances[i] # NoRow /\ instances[i].membership = m}
Unclosed(m) == {i \in InstancesOf(m) : ~instances[i].closed}

\* The rows the unique index memberships_active_name admits at most once.
HoldersOf(q, name) == {m \in MembershipId : /\ IsActive(m)
                                            /\ memberships[m].squad = q
                                            /\ memberships[m].name = name}

MembershipOf(s) == instances[s.instance].membership
SquadOf(s) == memberships[MembershipOf(s)].squad

AuthenticateHistorical(s) ==
    IF instances[s.instance] # NoRow /\ instances[s.instance].token = s.token
    THEN "Ok" ELSE "NotFound"

\* Faulty: a closed instance keeps its authority.
AuthorizeUnlessExpired(s, now) ==
    IF AuthenticateHistorical(s) # "Ok" THEN "NotFound"
    ELSE IF now >= instances[s.instance].lease_expires_at THEN "LeaseExpired"
    ELSE IF squads[SquadOf(s)] = "archived" THEN "SquadArchived"
    ELSE "Ok"

\* Expiry is reported before archive, leave and replacement.
AuthorizeCurrent(s, now) ==
    IF AuthenticateHistorical(s) # "Ok" THEN "NotFound"
    ELSE IF now >= instances[s.instance].lease_expires_at THEN "LeaseExpired"
    ELSE IF squads[SquadOf(s)] = "archived" THEN "SquadArchived"
    ELSE IF instances[s.instance].closed \/ memberships[MembershipOf(s)].left
         THEN "NotMember"
    ELSE "Ok"

\* The instance a roster row shows: latest created_at, ties broken by id, which
\* is random.
RosterPicks(m) == {i \in InstancesOf(m) :
    \A j \in InstancesOf(m) : instances[j].created_at <= instances[i].created_at}

RosterOnline(m, i, now) == /\ ~memberships[m].left
                           /\ ~instances[i].closed
                           /\ instances[i].lease_expires_at > now

Pending(m) == {n \in DOMAIN messages : /\ messages[n].recipient = m
                                       /\ messages[n].acknowledged_at = Null}

\* Estimated bytes of a JSON array of the messages in S: brackets, separators
\* and the items.
PageSize(S) == 1 + Cardinality(S)
               + MapThenSumSet(LAMBDA n : Size[messages[n].payload], S)

\* Faulty: youngest first.
YoungestPage(m, limit) ==
    {n \in Pending(m) : Cardinality({k \in Pending(m) : k >= n}) <= limit}

\* The oldest pending messages, up to the limit and the byte budget.
PendingPage(m, limit) ==
    {n \in Pending(m) : LET upTo == {k \in Pending(m) : k <= n}
                        IN  /\ Cardinality(upTo) <= limit
                            /\ PageSize(upTo) <= PageBytes}

\* Faulty: the limit counts the messages of other squads as well.
UnfilteredPage(q, after, limit) ==
    {n \in DOMAIN messages : /\ messages[n].squad = q
                             /\ n > after
                             /\ n - after <= limit}

\* Faulty: the rows are taken from the youngest.
NewestRows(q, after, limit) ==
    {n \in DOMAIN messages :
        /\ messages[n].squad = q
        /\ n > after
        /\ Cardinality({k \in n .. Len(messages) : messages[k].squad = q}) <= limit}

TranscriptPage(q, after, limit) ==
    {n \in DOMAIN messages :
        /\ messages[n].squad = q
        /\ n > after
        /\ Cardinality({k \in after + 1 .. n : messages[k].squad = q}) <= limit}

----------------------------------------------------------------------------
(* Writing the tables.                                                     *)

NewInstance(m, token, now) ==
    [membership |-> m, token |-> token, created_at |-> now,
     last_seen_at |-> now, lease_expires_at |-> now + Lease, closed |-> FALSE]

\* checked_add: the lease of a session opened at now does not overflow.
LeaseFits(now) == now + Lease <= MaxMillis

CloseUnclosed(m) ==
    [i \in InstanceId |-> IF i \in Unclosed(m)
                          THEN [instances[i] EXCEPT !.closed = TRUE]
                          ELSE instances[i]]

----------------------------------------------------------------------------
(* The operations of the relay.                                            *)

\* create_squad: ON CONFLICT(name) DO NOTHING answers NameInUse.
CreateSquad(q) ==
    /\ squads[q] = "none"
    /\ squads' = [squads EXCEPT ![q] = "active"]
    /\ UNCHANGED <<memberships, instances, messages>>

\* find_or_create_squad: mission says whether the request carries one.
JoinVerdict(q, mission, name, now) ==
    IF squads[q] = "archived" THEN "SquadArchived"
    ELSE IF squads[q] = "none" /\ ~mission THEN "NotFound"
    ELSE IF HoldersOf(q, name) # {} THEN "NameInUse"
    ELSE IF ~LeaseFits(now) THEN "InvalidRequest"
    ELSE "Ok"

\* Squad, agent, membership and first owner in one commit; m and i are fresh.
JoinAndClaim(q, mission, name, m, i, now) ==
    /\ JoinVerdict(q, mission, name, now) = "Ok"
    /\ memberships[m] = NoRow
    /\ instances[i] = NoRow
    /\ squads' = [squads EXCEPT ![q] = "active"]
    /\ memberships' = [memberships EXCEPT
                          ![m] = [squad |-> q, name |-> name, left |-> FALSE]]
    /\ instances' = [instances EXCEPT ![i] = NewInstance(m, m, now)]
    /\ UNCHANGED messages

\* A clock that stepped back counts as standing still since last_seen_at.
Later(t, u) == IF t >= u THEN t ELSE u

EffectiveNow(i, now) == Later(now, instances[i].last_seen_at)

\* renew_lease of an unclosed instance: an overflow is answered LeaseExpired.
HeartbeatVerdict(s, now) ==
    IF AuthorizeCurrent(s, now) # "Ok" THEN AuthorizeCurrent(s, now)
    ELSE LET at == EffectiveNow(s.instance, now)
         IN  IF at >= instances[s.instance].lease_expires_at \/ ~LeaseFits(at)
             THEN "LeaseExpired" ELSE "Ok"

AuthenticatedHeartbeat(s, now) ==
    /\ HeartbeatVerdict(s, now) = "Ok"
    /\ LET i == s.instance
           at == EffectiveNow(i, now)
       IN  instances' = [instances EXCEPT
              ![i].last_seen_at = at,
              ![i].lease_expires_at = Later(at + Lease, @)]
    /\ UNCHANGED <<squads, memberships, messages>>

AuthenticatedLeaveVerdict(s, q, now) ==
    IF AuthorizeCurrent(s, now) # "Ok" THEN AuthorizeCurrent(s, now)
    ELSE IF SquadOf(s) # q THEN "NotFound"
    ELSE "Ok"

\* Closes the caller's instance only.
AuthenticatedLeave(s, q, now) ==
    /\ AuthenticatedLeaveVerdict(s, q, now) = "Ok"
    /\ instances' = [instances EXCEPT ![s.instance].closed = TRUE]
    /\ memberships' = [memberships EXCEPT ![MembershipOf(s)].left = TRUE]
    /\ UNCHANGED <<squads, messages>>

ArchiveVerdict(s, q, now) ==
    IF AuthorizeCurrent(s, now) # "Ok" THEN AuthorizeCurrent(s, now)
    ELSE IF squads[q] = "none" THEN "NotFound"
    ELSE IF SquadOf(s) # q THEN "NotMember"
    ELSE "Ok"

AuthenticatedArchiveByName(s, q, now) ==
    /\ ArchiveVerdict(s, q, now) = "Ok"
    /\ squads' = [squads EXCEPT ![q] = "archived"]
    /\ UNCHANGED <<memberships, instances, messages>>

\* Faulty: an owner is live on the millisecond of expiry.
LiveAtExpiry(m, now) ==
    \E i \in Unclosed(m) : instances[i].lease_expires_at >= now

HasLiveOwner(m, now) ==
    \E i \in Unclosed(m) : instances[i].lease_expires_at > now

\* s names the instance to continue from, which need not be the latest one.
ResumeVerdict(s, q, now) ==
    IF AuthenticateHistorical(s) # "Ok" THEN "NotFound"
    ELSE IF memberships[MembershipOf(s)].left \/ SquadOf(s) # q THEN "NotFound"
    ELSE IF squads[q] = "archived" THEN "SquadArchived"
    ELSE IF /\ ~instances[s.instance].closed
            /\ now < instances[s.instance].lease_expires_at THEN "NameInUse"
    ELSE IF HasLiveOwner(MembershipOf(s), now) THEN "NameInUse"
    ELSE IF ~LeaseFits(now) THEN "InvalidRequest"
    ELSE "Ok"

\* Closes whatever is unclosed and opens i, which is fresh, with the same token.
AuthenticatedResume(s, q, i, now) ==
    /\ ResumeVerdict(s, q, now) = "Ok"
    /\ instances[i] = NoRow
    /\ instances' = [CloseUnclosed(MembershipOf(s)) EXCEPT
                        ![i] = NewInstance(MembershipOf(s), s.token, now)]
    /\ UNCHANGED <<squads, memberships, messages>>

----------------------------------------------------------------------------
(* Messages.                                                               *)

\* The message an earlier send of this sender stored under the same key.
Earlier(s, req) == {n \in DOMAIN messages : /\ messages[n].squad = SquadOf(s)
                                            /\ messages[n].sender = MembershipOf(s)
                                            /\ messages[n].key = req.key}

\* Pin, semantics and recipient name of a retry agree with message n.
SameRequest(req, n) ==
    /\ req.pin \in {NoRow, messages[n].recipient}
    /\ req.payload = messages[n].payload
    /\ req.reply_to = messages[n].reply_to
    /\ req.recipient = memberships[messages[n].recipient].name

\* The holder of the recipient's name, unless the request pins another one.
Recipients(s, req) == {m \in HoldersOf(SquadOf(s), req.recipient) :
                          req.pin \in {NoRow, m}}

\* A reply names a message of the same squad.
AuthorizeReply(s, req) == \/ req.reply_to = 0
                          \/ /\ req.reply_to \in DOMAIN messages
                             /\ messages[req.reply_to].squad = SquadOf(s)

\* Faulty: authority first, then the retry.
SendAuthorityFirst(s, req, now) ==
    IF AuthorizeCurrent(s, now) # "Ok" THEN AuthorizeCurrent(s, now)
    ELSE IF Earlier(s, req) # {}
         THEN IF \A n \in Earlier(s, req) : SameRequest(req, n)
              THEN "Replay" ELSE "IdempotencyConflict"
    ELSE IF Recipients(s, req) = {} THEN "RecipientNotFound"
    ELSE IF ~AuthorizeReply(s, req) THEN "InvalidRequest"
    ELSE "Ok"

\* A stored message is answered before current authority is looked at.
SendVerdict(s, req, now) ==
    IF AuthenticateHistorical(s) # "Ok" THEN "NotFound"
    ELSE IF Earlier(s, req) # {}
         THEN IF \A n \in Earlier(s, req) : SameRequest(req, n)
              THEN "Replay" ELSE "IdempotencyConflict"
    ELSE IF AuthorizeCurrent(s, now) # "Ok" THEN AuthorizeCurrent(s, now)
    ELSE IF Recipients(s, req) = {} THEN "RecipientNotFound"
    ELSE IF ~AuthorizeReply(s, req) THEN "InvalidRequest"
    ELSE "Ok"

AuthenticatedSendByName(s, req, now) ==
    /\ Len(messages) < MaxMessages
    /\ SendVerdict(s, req, now) = "Ok"
    /\ \E m \in Recipients(s, req) :
          messages' = Append(messages,
              [squad |-> SquadOf(s), sender |-> MembershipOf(s), recipient |-> m,
               payload |-> req.payload, reply_to |-> req.reply_to,
               key |-> req.key, acknowledged_at |-> Null])
    /\ UNCHANGED <<squads, memberships, instances>>

\* acknowledge_on: the batch is refused unless every id is the caller's.
AcknowledgeVerdict(s, ids, now) ==
    IF AuthorizeCurrent(s, now) # "Ok" THEN AuthorizeCurrent(s, now)
    ELSE IF \E n \in ids : \/ n \notin DOMAIN messages
                           \/ messages[n].recipient # MembershipOf(s)
         THEN "NotFound"
    ELSE "Ok"

\* Faulty: a second acknowledgement overwrites the first.
AcknowledgeAgain(s, ids, now) ==
    /\ AcknowledgeVerdict(s, ids, now) = "Ok"
    /\ messages' = [n \in DOMAIN messages |->
                      IF n \in ids
                      THEN [messages[n] EXCEPT !.acknowledged_at = now]
                      ELSE messages[n]]
    /\ UNCHANGED <<squads, memberships, instances>>

AuthenticatedAcknowledge(s, ids, now) ==
    /\ AcknowledgeVerdict(s, ids, now) = "Ok"
    /\ messages' = [n \in DOMAIN messages |->
                      IF n \in ids /\ messages[n].acknowledged_at = Null
                      THEN [messages[n] EXCEPT !.acknowledged_at = now]
                      ELSE messages[n]]
    /\ UNCHANGED <<squads, memberships, instances>>

----------------------------------------------------------------------------
Next ==
    \/ \E q \in SquadName : CreateSquad(q)
    \/ \E q \in SquadName, mission \in BOOLEAN, name \in MemberName,
          m \in MembershipId, i \in InstanceId, now \in Millis :
             JoinAndClaim(q, mission, name, m, i, now)
    \/ \E s \in Session, now \in Millis : AuthenticatedHeartbeat(s, now)
    \/ \E s \in Session, q \in SquadName, now \in Millis :
          AuthenticatedLeave(s, q, now)
    \/ \E s \in Session, q \in SquadName, now \in Millis :
          AuthenticatedArchiveByName(s, q, now)
    \/ \E s \in Session, q \in SquadName, i \in InstanceId, now \in Millis :
          AuthenticatedResume(s, q, i, now)
    \/ \E s \in Session, req \in SendRequest, now \in Millis :
          AuthenticatedSendByName(s, req, now)
    \/ \E s \in Session, ids \in SUBSET (1 .. MaxMessages), now \in Millis :
          AuthenticatedAcknowledge(s, ids, now)

Spec == Init /\ [][Next]_vars

----------------------------------------------------------------------------
(* What the store promises.                                                *)

\* The four tables hold rows of the right shape; every time fits its column.
TypeOK ==
    /\ squads \in [SquadName -> {"none", "active", "archived"}]
    /\ memberships \in [MembershipId -> MembershipRow \cup {NoRow}]
    /\ instances \in [InstanceId -> InstanceRow \cup {NoRow}]
    /\ messages \in Seq(MessageRow)
    /\ Len(messages) <= MaxMessages

\* The true credential of a stored instance.
Credential(i) == [instance |-> i, token |-> instances[i].token]
Authorized(i, now) == AuthorizeCurrent(Credential(i), now) = "Ok"

\* A membership has at most one unclosed instance, and that owner was created
\* strictly after every other instance of the membership, also when the wall
\* clock stepped back between two resumes: resume_instance and roster rely on
\* created_at DESC to find the owner.
OwnerIsNewest ==
    \A m \in MembershipId : \A i \in Unclosed(m) : \A j \in InstancesOf(m) :
        j # i => instances[j].created_at < instances[i].created_at

\* The tables that carry ownership hang together: an instance belongs to a
\* stored membership, its lease outlasts what it saw, a membership that left has
\* no owner and a current one has one, the newest.
Ownership ==
    /\ \A i \in InstanceId : instances[i] # NoRow =>
          /\ IsMember(instances[i].membership)
          /\ instances[i].created_at <= instances[i].last_seen_at
          /\ instances[i].lease_expires_at = instances[i].last_seen_at + Lease
    /\ \A m \in MembershipId : IsMember(m) =>
          (memberships[m].left <=> Unclosed(m) = {})
    /\ OwnerIsNewest

\* In an active squad, at every reading of the clock, the holder of any past
\* instance of a current membership can resume exactly when no instance of it
\* is authorized: a live owner is never preempted (authenticated_resume answers
\* NameInUse) and nobody who kept the resume token is ever locked out, on the
\* millisecond of expiry included.
ResumeIffUnowned ==
    \A m \in MembershipId, now \in Millis :
        IsActive(m) /\ squads[memberships[m].squad] = "active" /\ LeaseFits(now)
        => \A i \in InstancesOf(m) :
              ResumeVerdict(Credential(i), memberships[m].squad, now) = "Ok"
                  <=> ~ \E j \in InstancesOf(m) : Authorized(j, now)

\* The roster, which looks at the instance created last, shows a member of an
\* active squad online exactly when some instance of it is authorized.
RosterShowsOwner ==
    \A m \in MembershipId, now \in Millis :
        IsMember(m) /\ squads[memberships[m].squad] = "active"
        => \A i \in RosterPicks(m) :
              RosterOnline(m, i, now)
                  <=> \E j \in InstancesOf(m) : Authorized(j, now)

\* A sender and a dedupe key name at most one stored message.
OneMessagePerKey ==
    \A a, b \in DOMAIN messages :
        /\ messages[a].sender = messages[b].sender
        /\ messages[a].key = messages[b].key
        => a = b

\* Retrying a stored send returns the stored message whatever happened since:
\* from any instance the sender ever had, after its lease ran out, after it
\* left, after the squad was archived, and after the recipient left and another
\* member took the recipient's name.
RetryReturnsStoredMessage ==
    \A n \in DOMAIN messages, now \in Millis :
        LET msg == messages[n]
        IN  \A i \in InstancesOf(msg.sender), pin \in {NoRow, msg.recipient} :
               LET req == [recipient |-> memberships[msg.recipient].name,
                           pin |-> pin, payload |-> msg.payload,
                           reply_to |-> msg.reply_to, key |-> msg.key]
               IN  /\ SendVerdict(Credential(i), req, now) = "Replay"
                   /\ Earlier(Credential(i), req) = {n}

\* Sender, recipient and answered message of a message are of its squad, and a
\* message answers an earlier one.
MessagesStayInSquad ==
    \A n \in DOMAIN messages :
        LET msg == messages[n]
        IN  /\ \A m \in {msg.sender, msg.recipient} :
                  IsMember(m) /\ memberships[m].squad = msg.squad
            /\ msg.reply_to # 0 => /\ msg.reply_to < n
                                   /\ messages[msg.reply_to].squad = msg.squad

\* Whoever may read an inbox can drain it: the page of any limit holds the
\* oldest pending message and no message before a younger one it omits, and
\* the reader may acknowledge the whole page.
InboxCanBeDrained ==
    \A i \in InstanceId, now \in Millis, limit \in 1 .. MaxMessages :
        instances[i] # NoRow /\ Authorized(i, now)
        => LET m == instances[i].membership
               page == PendingPage(m, limit)
           IN  /\ Pending(m) # {} => Min(Pending(m)) \in page
               /\ \A n \in page, k \in Pending(m) : k < n => k \in page
               /\ AcknowledgeVerdict(Credential(i), page, now) = "Ok"

\* A reader that continues a transcript after the last message of a page misses
\* none: a page has no gaps and is empty only when nothing is left.
TranscriptHasNoGaps ==
    \A q \in SquadName, after \in 0 .. Len(messages), limit \in 1 .. MaxMessages :
        LET page == TranscriptPage(q, after, limit)
            rest == {n \in after + 1 .. Len(messages) : messages[n].squad = q}
        IN  /\ page \subseteq rest
            /\ page = {} => rest = {}
            /\ \A n \in page, k \in rest : k < n => k \in page

\* At every reading of the clock the owner of a membership is its newest
\* instance, a past one can be resumed exactly when nobody owns the membership,
\* and the roster shows exactly that (authenticated_resume, roster_page).
OwnershipIsExact == OwnerIsNewest /\ ResumeIffUnowned /\ RosterShowsOwner

----------------------------------------------------------------------------
(* What no operation may do.                                               *)

\* A replaced or departed owner never comes back: a closed row is never changed
\* again and no row is ever removed.
KeepsClosed ==
    \A i \in InstanceId : instances[i] # NoRow =>
        /\ instances'[i] # NoRow
        /\ instances[i].closed => instances'[i] = instances[i]

\* A backward clock reading neither rewinds last_seen_at nor extends a lease
\* twice: the lease moves only with last_seen_at, and that only forward.
LeaseFollowsLastSeen ==
    \A i \in InstanceId : instances[i] # NoRow =>
        LET old == instances[i]
            new == instances'[i]
        IN  /\ new.last_seen_at >= old.last_seen_at
            /\ new.lease_expires_at - old.lease_expires_at
                  = new.last_seen_at - old.last_seen_at

\* What membership m leaves in the tables: its row, its instances, its mail
\* and which messages it sent.
Trace(m) == <<memberships[m],
              {<<i, instances[i]>> : i \in InstancesOf(m)},
              {<<n, messages[n]>> : n \in {k \in DOMAIN messages :
                                              messages[k].recipient = m}},
              {n \in DOMAIN messages : messages[n].sender = m}>>

\* A membership that left, and every membership of an archived squad, is inert:
\* no later operation resumes it, renews it, sends to or from it, or
\* acknowledges its mail.
KeepsFormerMembers ==
    \A m \in MembershipId :
        IsMember(m) /\ (\/ memberships[m].left
                        \/ squads[memberships[m].squad] = "archived")
        => Trace(m)' = Trace(m)

\* Archiving is irreversible, and nobody joins an archived squad.
KeepsArchived ==
    \A q \in SquadName : squads[q] = "archived" =>
        /\ squads'[q] = "archived"
        /\ \A m \in MembershipId : memberships'[m] # memberships[m] =>
              memberships'[m].squad # q

\* What has ended stays as it was: closed instances, members that left and
\* archived squads; and no operation moves a lease but with last_seen_at.
HistoryIsFinal ==
    [][KeepsClosed /\ KeepsFormerMembers /\ KeepsArchived /\ LeaseFollowsLastSeen]_vars

\* The message table only grows, and an acknowledgement keeps its first time.
LogIsDurable ==
    [][\A n \in DOMAIN messages :
          /\ n \in DOMAIN messages'
          /\ messages'[n] = [messages[n] EXCEPT
                 !.acknowledged_at = messages'[n].acknowledged_at]
          /\ messages[n].acknowledged_at # Null => messages'[n] = messages[n]]_vars
=============================================================================
