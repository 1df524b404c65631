\* One process at a time, two misbehaviours: crashes, lost replies, failing writes.
SPECIFICATION MCFairSpec
CONSTANTS
    Parts = {"binding"}
    Style = "credential"
    Value = {v1, v2}
    Temp = {"temp1"}
    File = {f1, f2, f3}
    Absent = Absent
    Torn = Torn
    Idle = Idle
    Membership = {m1, m2}
    Instance = {i1, i2, i3, i4}
    Process = {p1}
    None = None
    MaxTrouble = 2
PROPERTIES
    LeftProfileIsCleared
    BoundProfileOpens
