SPECIFICATION MCSpec
CONSTANTS
    Parts = {"credential", "profile", "journal", "binding"}
    Style = "credential"
    Value = {v1, v2}
    Temp = {"temp1", "temp2"}
    File = {f1, f2, f3}
    Absent = Absent
    Torn = Torn
    Idle = Idle
    Membership = {m1, m2}
    Instance = {i1, i2, i3, i4}
    Process = {p1, p2}
    None = None
    MaxTrouble = 2
SYMMETRY Symmetry
INVARIANTS
    RecordsAreWhole
    DiskTellsTruth
PROPERTY
    IsDurableRecord
    AuthorityOutlivesMembership
