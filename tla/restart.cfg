SPECIFICATION Spec
CONSTANTS
    r1 = r1
    o1 = o1
    Recordings = {r1}
    Owners = {o1}
    OwnerOf <- MCOwnerOf
    Requests = {q1}
    YoutubeSlots = {y1, y2}
    MaintenanceSlots = {m1}
    EventIds = {e1, e2}
    MaxSessions = 2
    MaxAttempts = 1
    MaxStalls = 1
    MaxCrashes = 1
    ExpiryRuns = FALSE
SYMMETRY Symmetry
INVARIANTS OneInsert 
PROPERTY ImplementsLifecycle
CHECK_DEADLOCK FALSE
