SPECIFICATION MCSpec
CONSTANTS
    Parts = {"schema", "tight", "roomy", "serve"}
    old = old
    new = new
    edited = edited
    s1 = s1
    s2 = s2
    s3 = s3
    t2 = t2
    Nobody = Nobody
    Other = Other
    Opener = {old, new, edited}
    Plan <- MCPlan
    Files <- MCFiles
    Watcher = {w1, w2}
    Caller = {c1, c2}
CHECK_DEADLOCK FALSE
INVARIANTS
    StoresAreSound
    ServersAreOrderly
PROPERTIES
    ServersMakeProgress
