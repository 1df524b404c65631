-------------------------------- MODULE Pages --------------------------------
(***************************************************************************)
(* Every answer the relay gives is checked a second time by the client     *)
(* that receives it: its size, and what validation.rs asks of a squad, a   *)
(* roster, a message and a page.  This module follows the stored values    *)
(* through the store's reads, the relay's DTOs and their JSON to that      *)
(* second check, with the byte counts of the code and a wall clock that    *)
(* an operator may set back.                                               *)
(*                                                                         *)
(* A text is its length in bytes and escape, the JSON bytes one of its     *)
(* bytes becomes (1, or 6 for a control character).  Names and             *)
(* identifiers are ASCII and never escaped.                                *)
(***************************************************************************)
EXTENDS Integers, Sequences, FiniteSets, SequencesExt, FiniteSetsExt

CONSTANTS Member, Reader,    \* the members, and the one whose inbox is read
          Shapes,            \* messages that may be sent, as records of byte counts
          Missions,          \* squad missions, as texts
          Limits,            \* page limits asked for
          MaxNow,            \* bound: clock readings 0 .. MaxNow
          StepsBack,         \* bound: times the wall clock is set back
          MaxMessages,       \* bound: messages in the squad
          MaxSquads,         \* bound: squads created
          Lease              \* a lease, in clock ticks

PagesAssumption ==
    /\ Reader \in Member
    /\ MaxNow \in Nat /\ StepsBack \in Nat /\ MaxMessages \in Nat
    /\ MaxSquads \in Nat \ {0} /\ Lease \in Nat \ {0}

VARIABLES now, stepped,      \* the relay's wall clock and how often it was set back
          squads,            \* rows of squads; the members belong to the first
          members,           \* membership and newest instance of each member
          log,               \* rows of messages, in sequence order
          held,              \* message ids of the last page the reader accepted
          answer             \* the last answer, how many rows it lists, and how its client took it

vars == <<now, stepped, squads, members, log, held, answer>>

NoTime == -1
MAX_INBOX_MESSAGES == 100
MAX_INBOX_OUTPUT_BYTES == 1048576
MAX_INBOX_BYTES == 1048576
MAX_RESPONSE_BYTES == 1048576
IdBytes == 36
NameBytes == 64
TimeBytes == 24
SequenceBytes == 19
SmallAnswer == 1024       \* no answer without a list or a text is longer
RosterRowBytes == 2048    \* no member of a roster is longer, its role of 256 bytes escaped

Availability == {"idle", "unknown"}
AvailabilitySource == {"agent_reported", "unknown"}
\* The rows as the store reads them back.
SquadRow(mission) == [state |-> "active", created |-> now, archived |-> NoTime,
                      bytes |-> mission.bytes, escape |-> mission.escape]

\* reply_to names an earlier message of the squad, so the first one replies to nothing.
MessageRow(shape) == [body |-> shape.body, escape |-> shape.escape, dedupe |-> shape.dedupe,
                      reply_to |-> IF log = <<>> THEN 0 ELSE shape.reply_to,
                      correlation |-> shape.correlation, priority |-> shape.priority,
                      created |-> now, acked |-> NoTime]

Absent == [state |-> "absent", expires |-> 0, availability |-> "unknown", source |-> "unknown"]

Total(Size(_), rows) == MapThenSumSet(LAMBDA i : Size(rows[i]), DOMAIN rows)
Commas(page) == IF page = <<>> THEN 0 ELSE Len(page) - 1

-----------------------------------------------------------------------------
\* The relay's DTOs, as the bytes of their JSON.

\* Fixed keys and quotes, and every field of MessageDto; acknowledged_at is skipped when absent.
message_dto(m) ==
    105 + SequenceBytes + IdBytes + 3 * NameBytes + m.body * m.escape + TimeBytes
    + (IF m.reply_to = 0 THEN 0 ELSE 14 + m.reply_to)
    + (IF m.correlation = 0 THEN 0 ELSE 20 + 2 * m.correlation)
    + (IF m.acked = NoTime THEN 0 ELSE 21 + TimeBytes)

squad_dto(s) ==
    67 + IdBytes + NameBytes + s.bytes * s.escape + TimeBytes
    + (IF s.archived = NoTime THEN 0 ELSE 17 + TimeBytes)

PageBytes(page) == Total(LAMBDA i : message_dto(log[i]), page) + Commas(page) + 2

-----------------------------------------------------------------------------
\* The client's second check.

ValidMessage(m) == m.acked # NoTime => m.acked >= m.created

validate_message_page(page) ==
    /\ \A i \in DOMAIN page : ValidMessage(log[page[i]])
    /\ \A i, j \in DOMAIN page : i < j => page[i] < page[j]

ValidInbox(r) ==
    /\ Len(r.page) <= MAX_INBOX_MESSAGES
    /\ validate_message_page(r.page)
    /\ r.pending_count >= Len(r.page)
    /\ IF r.pending_count = 0 THEN r.page = <<>> /\ r.highest = "none" /\ r.oldest = 0
       ELSE r.page # <<>> /\ r.highest # "none" /\ r.oldest = r.page[1]

ValidTranscript(r) ==
    /\ Len(r.page) <= MAX_INBOX_MESSAGES
    /\ validate_message_page(r.page)
    /\ r.next_after = (IF r.page = <<>> THEN 0 ELSE Last(r.page))

ValidSquad(s) ==
    IF s.state = "active" THEN s.archived = NoTime ELSE s.archived # NoTime /\ s.archived >= s.created

\* An observation is known together with its source, or neither is.
Consistent(availability, source) == (availability = "unknown") = (source = "unknown")

ValidRoster(rows) ==
    \A row \in rows :
        /\ Consistent(row.availability, row.source)
        /\ row.state = "left" => row.presence = "offline"

ValidAcknowledged(ids) == Len(ids) \in 1 .. MAX_INBOX_MESSAGES

\* SessionResponse, with the heartbeat and lease of LeasePolicy::default, in seconds.
ValidSession(squad, heartbeat, lease) ==
    ValidSquad(squad) /\ heartbeat \in 1 .. 300 /\ lease \in 2 .. 900 /\ lease > heartbeat

\* decode: the size is looked at before the body, the body before its meaning.
decode(code, bytes, valid) ==
    IF code # "Ok" THEN code
    ELSE IF bytes > MAX_RESPONSE_BYTES THEN "ResponseTooLarge"
    ELSE IF ~valid THEN "MalformedResponse" ELSE "Ok"

Listed(operation, rows, code, bytes, valid) ==
    answer' = [op |-> operation, rows |-> rows, result |-> decode(code, bytes, valid)]
Answered(operation, code, bytes, valid) == Listed(operation, 0, code, bytes, valid)

-----------------------------------------------------------------------------
\* The store's checks and reads.

AuthorizeCurrent(m) ==
    IF members[m].state = "absent" THEN "NotFound"
    ELSE IF now >= members[m].expires THEN "LeaseExpired"
    ELSE IF squads[1].state = "archived" THEN "SquadArchived"
    ELSE IF members[m].state = "left" THEN "NotMember" ELSE "Ok"


conservative_serialized_size(m) ==
    6 * (4 * IdBytes + m.body + m.dedupe + m.reply_to + m.correlation) + 512

Pending == SelectSeq([i \in DOMAIN log |-> i], LAMBDA i : log[i].acked = NoTime)

\* The longest prefix within the limit whose estimate stays within the output bound.
PrefixFits(page) ==
    2 + Total(LAMBDA i : conservative_serialized_size(log[i]), page) + Commas(page)
        <= MAX_INBOX_OUTPUT_BYTES

pending_inbox_on(limit) ==
    LET pending == Pending
        sizes == {n \in 0 .. Min({limit, Len(pending)}) : PrefixFits(SubSeq(pending, 1, n))}
    IN SubSeq(pending, 1, Max(sizes))

HighestPriority ==
    IF Pending = <<>> THEN "none"
    ELSE IF \E i \in ToSet(Pending) : log[i].priority = "high" THEN "high" ELSE "normal"

authenticated_pending_page(limit) ==
    [page |-> pending_inbox_on(limit), pending_count |-> Len(Pending),
     highest |-> HighestPriority, oldest |-> IF Pending = <<>> THEN 0 ELSE Pending[1]]

TranscriptViews(after, limit) ==
    SubSeq([i \in DOMAIN log |-> i], after + 1, Min({after + limit, Len(log)}))

RosterRow(m) ==
    LET row == members[m]
        online == row.state = "joined" /\ row.expires > now
    IN [state |-> row.state, presence |-> IF online THEN "online" ELSE "offline",
        availability |-> IF online THEN row.availability ELSE "unknown",
        source |-> IF online THEN row.source ELSE "unknown"]

-----------------------------------------------------------------------------
\* The requests.  Each is one command of the relay's worker, answered to its client.

CreateSquad(mission) ==
    /\ Len(squads) < MaxSquads
    /\ squads' = Append(squads, SquadRow(mission))
    /\ Answered("create", "Ok", squad_dto(Last(squads')), ValidSquad(Last(squads')))
    /\ UNCHANGED <<now, stepped, members, log, held>>

ListSquads ==
    /\ Listed("list", Len(squads), "Ok",
              Total(squad_dto, squads) + Commas(squads) + 2,
              \A i \in DOMAIN squads : ValidSquad(squads[i]))
    /\ UNCHANGED <<now, stepped, squads, members, log, held>>

NewInstance == [state |-> "joined", expires |-> now + Lease,
                availability |-> "unknown", source |-> "unknown"]

Join(m) ==
    LET code == IF squads[1].state = "archived" THEN "SquadArchived" ELSE "Ok"
    IN /\ members[m].state = "absent"
       /\ members' = IF code = "Ok" THEN [members EXCEPT ![m] = NewInstance] ELSE members
       /\ Answered("join", code, squad_dto(squads[1]), ValidSession(squads[1], 10, 30))
       /\ UNCHANGED <<now, stepped, squads, log, held>>

Resume(m) ==
    LET code == IF members[m].state = "absent" THEN "NotFound"
                ELSE IF squads[1].state = "archived" THEN "SquadArchived"
                ELSE IF members[m].state = "left" THEN "NotMember"
                ELSE IF members[m].expires > now THEN "InstanceAlreadyLive" ELSE "Ok"
    IN /\ members' = IF code = "Ok" THEN [members EXCEPT ![m] = NewInstance] ELSE members
       /\ Answered("resume", code, squad_dto(squads[1]), ValidSession(squads[1], 10, 30))
       /\ UNCHANGED <<now, stepped, squads, log, held>>

Heartbeat(m, availability, source) ==
    LET code == IF ~Consistent(availability, source) THEN "InvalidRequest"
                ELSE AuthorizeCurrent(m)
    IN /\ members' = IF code # "Ok" THEN members
                     ELSE [members EXCEPT ![m].availability = availability, ![m].source = source,
                                          ![m].expires = Max({@, now + Lease})]
       /\ Answered("heartbeat", code, SmallAnswer, TRUE)
       /\ UNCHANGED <<now, stepped, squads, log, held>>

Leave(m) ==
    LET code == AuthorizeCurrent(m)
    IN /\ members' = IF code = "Ok" THEN [members EXCEPT ![m].state = "left"] ELSE members
       /\ Answered("leave", code, SmallAnswer, TRUE)
       /\ UNCHANGED <<now, stepped, squads, log, held>>

\* The roster may be read with any credential of the squad, whatever its lease.
Roster(m) ==
    LET code == IF members[m].state = "absent" THEN "NotFound" ELSE "Ok"
        rows == {RosterRow(n) : n \in {k \in Member : members[k].state # "absent"}}
    IN /\ Listed("roster", Cardinality(Member), code, RosterRowBytes * Cardinality(Member),
                 ValidRoster(rows))
       /\ UNCHANGED <<now, stepped, squads, members, log, held>>

ArchiveSquad(m) ==
    LET code == AuthorizeCurrent(m)
    IN /\ squads' = IF code = "Ok"
                    THEN [squads EXCEPT ![1].state = "archived", ![1].archived = now] ELSE squads
       /\ Answered("archive", code, squad_dto(squads'[1]), ValidSquad(squads'[1]))
       /\ UNCHANGED <<now, stepped, members, log, held>>

Send(m, shape) ==
    LET code == IF AuthorizeCurrent(m) # "Ok" THEN AuthorizeCurrent(m)
                ELSE IF members[Reader].state # "joined" THEN "RecipientNotFound" ELSE "Ok"
        row == MessageRow(shape)
    IN /\ Len(log) < MaxMessages
       /\ log' = IF code = "Ok" THEN Append(log, row) ELSE log
       /\ Answered("send", code, message_dto(row), ValidMessage(row))
       /\ UNCHANGED <<now, stepped, squads, members, held>>

\* inbox without a wait: encode_inbox measures the page it built before it answers.
Inbox(limit) ==
    LET r == authenticated_pending_page(limit)
        bytes == 137 + PageBytes(r.page)
        code == IF limit \notin 1 .. 100 THEN "InvalidRequest"
                ELSE IF AuthorizeCurrent(Reader) # "Ok" THEN AuthorizeCurrent(Reader)
                ELSE IF bytes > MAX_INBOX_BYTES THEN "PayloadTooLarge" ELSE "Ok"
    IN /\ Answered("inbox", code, bytes, ValidInbox(r))
       /\ held' = IF answer'.result = "Ok" THEN r.page ELSE held
       /\ UNCHANGED <<now, stepped, squads, members, log>>

Acknowledge ==
    LET code == AuthorizeCurrent(Reader)
    IN /\ held # <<>>
       /\ log' = IF code = "Ok"
                 THEN [i \in DOMAIN log |-> IF i \in ToSet(held) /\ log[i].acked = NoTime
                                            THEN [log[i] EXCEPT !.acked = now] ELSE log[i]]
                 ELSE log
       /\ held' = IF code = "Ok" THEN <<>> ELSE held
       /\ Answered("acknowledge", code, 40 * Len(held), ValidAcknowledged(held))
       /\ UNCHANGED <<now, stepped, squads, members>>

\* transcript: the page is bounded by its limit alone.
Transcript(m, after, limit) ==
    LET page == TranscriptViews(after, limit)
        code == IF limit \notin 1 .. 100 THEN "InvalidRequest" ELSE AuthorizeCurrent(m)
        next == IF page = <<>> THEN 0 ELSE Last(page)
    IN /\ Listed("transcript", Len(page), code, 46 + PageBytes(page),
                 ValidTranscript([page |-> page, next_after |-> next]))
       /\ UNCHANGED <<now, stepped, squads, members, log, held>>

Tick == now < MaxNow /\ now' = now + 1 /\ UNCHANGED <<stepped, squads, members, log, held, answer>>

\* The operator, or time synchronisation, sets the relay's wall clock back.
StepBack ==
    /\ stepped < StepsBack /\ now > 0
    /\ now' = now - 1 /\ stepped' = stepped + 1
    /\ UNCHANGED <<squads, members, log, held, answer>>

-----------------------------------------------------------------------------
Init ==
    /\ now \in 0 .. MaxNow /\ stepped = 0
    /\ squads \in {<<SquadRow(t)>> : t \in Missions}
    /\ members = [m \in Member |-> Absent]
    /\ log = <<>> /\ held = <<>>
    /\ answer = [op |-> "none", rows |-> 0, result |-> "Ok"]

Next ==
    \/ \E t \in Missions : CreateSquad(t)
    \/ ListSquads
    \/ \E m \in Member : Join(m) \/ Resume(m) \/ Leave(m) \/ Roster(m) \/ ArchiveSquad(m)
    \/ \E m \in Member, a \in Availability, s \in AvailabilitySource : Heartbeat(m, a, s)
    \/ \E m \in Member, shape \in Shapes : Send(m, shape)
    \/ \E limit \in Limits : Inbox(limit)
    \/ Acknowledge
    \/ \E m \in Member, limit \in Limits : \E after \in 0 .. Len(log) : Transcript(m, after, limit)
    \/ Tick
    \/ StepBack

Spec == Init /\ [][Next]_vars

-----------------------------------------------------------------------------
\* What the client rejects of the relay's own answers.  Too large are only a transcript of more
\* than two messages, a list of more than 42 squads and (beyond the bounds of the runs) a roster
\* of more than 511 memberships, which have no byte bound: inbox pages are kept under the bounds
\* of encode_bounded_inbox and decode by the store's estimate, whatever the bodies.  Malformed are
\* only a transcript, a squad list and an archive with a stamp from before the clock was set back:
\* pages, counts, rosters and sessions agree with validation.rs always.
RejectionsAreKnown ==
    /\ answer.result = "ResponseTooLarge" =>
         \/ answer.op = "transcript" /\ answer.rows > 2
         \/ answer.op = "list" /\ answer.rows > 42
         \/ answer.op = "roster" /\ answer.rows > 511
    /\ answer.result = "MalformedResponse" =>
         stepped > 0 /\ answer.op \in {"transcript", "list", "archive"}
    /\ answer.op = "inbox" => answer.result # "PayloadTooLarge"
=============================================================================
