SPECIFICATION MCFairSpec
CONSTANTS
    Parts = {"engine", "channel", "status", "adapter", "pump"}
    Message = {1, 2}
    MaximumAttempts = 2
    MaxTurns = 2
    MaxChecks = 2
    MaxCrashes = 1
    StatusMail = {1}
    RetryLimit = 8
    StaleAfter = 3
    FutureSkew = 10
    Settings = {}
    MaxAge = 0
    MaxOwners = 1
    Call = {c1, c2}
    OneCall = c0
    Tools = {"join", "leave", "use"}
    Runtime = {r1}
    None = None
    InputBytes = 3
    MaxReplies = 1
CHECK_DEADLOCK FALSE
PROPERTIES
    HarnessSettles
    AdapterSettles
