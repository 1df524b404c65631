SPECIFICATION FairSpec
CONSTANTS
    Caller = {c1, c2}
    Loop = Loop
    Ops = {"send", "report", "read", "mutate", "leave", "shutdown", "signal", "drop"}
    Serialised = TRUE
    MaxGeneration = 1
INVARIANTS
    SessionInvariant
PROPERTIES
    NothingAfterEnd
    CallsReturn
