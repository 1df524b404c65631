SPECIFICATION MCSpec
CONSTANTS
    Parts = {"channel", "status", "adapter", "serial", "pump"}
    Message = {1, 2, 3}
    MaximumAttempts = 2
    MaxTurns = 2
    MaxChecks = 2
    MaxCrashes = 1
    StatusMail = {1}
    RetryLimit = 8
    StaleAfter = 1
    FutureSkew = 0
    Settings <- Ages
    MaxAge = 2
    MaxOwners = 2
    Call = {c1, c2}
    OneCall = c0
    Tools = {"join", "leave", "use", "status", "free"}
    Runtime = {r1, r2}
    None = None
    InputBytes = 4
    MaxReplies = 2
SYMMETRY Symmetry
CHECK_DEADLOCK FALSE
INVARIANTS
    EngineInvariant
    StatusInvariant
    DropsStayVisible
    AdapterIsOrderly
PROPERTIES
    ChannelKeepsTurns
