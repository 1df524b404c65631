SPECIFICATION MCSpec
CONSTANTS
    Parts = {"relay", "library"}
    q1 = q1 q2 = q2 a = a m1 = m1 m2 = m2 i1 = i1 i2 = i2
    k1 = k1 k2 = k2 small = small large = large NoRow = NoRow
    SquadName = {q1, q2}
    MemberName = {a, b}
    MembershipId = {m3, m4}
    InstanceId = {i4, i5, i6}
    DedupeKey = {k1}
    Payload = {small}
    Size <- MCSize
    PageBytes = 7
    Lease = 2
    MaxMillis = 5
    MaxMessages = 0
    Caller = {c1}
    LibSquad = {q1, q2}
    LibName = {a}
    LibLease = 2
    LibMillis = 4
    LibMessages = 0
SYMMETRY Symmetry
CHECK_DEADLOCK FALSE
INVARIANTS
    OwnershipIsExact
    FamiliesAgree
PROPERTIES
    HistoryIsFinal
