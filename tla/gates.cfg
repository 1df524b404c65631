SPECIFICATION MCSpec
CONSTANTS
    Large = Large
    Few = {u1, u2}
    FewRequests = 2
    Sender = {s1, s2}
    Id = {u1, u2, u3, Large}
    Size <- MCSize
    MaxSends = 2
    MaxBytes = 3
    MaxRequests = 3
    Reporter = {r1, r2, r3}
    MaxReports = 2
    Leaver = Leaver
    Closer = Closer
    Free = Free
INVARIANT
    GatesAreExact
PROPERTIES
    GatesKeepTheirPromise
    GatesDrain
