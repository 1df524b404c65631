SPECIFICATION MCSpec
CONSTANTS
    Parts = {"codex", "mailbox", "clock", "steady", "squads"}
    Message = {m, n}
    MaximumAttempts = 2
    MaxLaunch = 2
    MaxQueue = 2
    Lacking = {"mcpServer/tool/call", "turn/completed"}
    a = a
    b = b
SYMMETRY Symmetry
CHECK_DEADLOCK FALSE
INVARIANTS
    CodexInvariant
    
