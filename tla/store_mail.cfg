SPECIFICATION MCSpec
CONSTANTS
    Parts = {"relay", "squads", "library"}
    q1 = q1 q2 = q2 a = a m1 = m1 m2 = m2 i1 = i1 i2 = i2
    k1 = k1 k2 = k2 small = small large = large NoRow = NoRow
    SquadName = {q1}
    MemberName = {a, b}
    MembershipId = {m3, m4}
    InstanceId = {i4, i5, i6}
    DedupeKey = {k1}
    Payload = {small, large}
    Size <- MCSize
    PageBytes = 7
    Lease = 1
    MaxMillis = 2
    MaxMessages = 2
    Caller = {}
    LibSquad = {q1}
    LibName = {a, b}
    LibLease = 1
    LibMillis = 2
    LibMessages = 1
SYMMETRY Symmetry
CHECK_DEADLOCK FALSE
INVARIANTS
    RetryReturnsStoredMessage
    InboxCanBeDrained
    TranscriptHasNoGaps
    SquadsReadTheirOwn
    FamiliesAgree
PROPERTIES
    LogIsDurable
