SPECIFICATION MCSpec
CONSTANTS
    Parts = {"cli", "pair", "single", "options", "commands", "globals", "config", "origins", "pacing"}
    Message = {m1, m2}
    Names <- AllNames
    Heeds = TRUE
    MaxRuns = 3
    Caller = {c1, c2}
    Called <- Operation
    MaxInFlight = 1
    MaxAttempts = 3
    Alone = c1
    Sampled = {"send", "join", "inbox", "archive_squad"}
SYMMETRY Symmetry
CHECK_DEADLOCK FALSE
INVARIANTS
    CliInvariant
    CallsAreTruthful
    LinesReadAsDocumented
    SettingsAreSound
