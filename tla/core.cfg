SPECIFICATION Spec
CONSTANTS
    r1 = r1
    o1 = o1
    Recordings = {r1}
    Owners = {o1}
    OwnerOf <- MCOwnerOf
    Requests = {q1}
    YoutubeSlots = {y1, y2}
    MaintenanceSlots = {m1}
    EventIds = {e1, e2, e3}
    MaxSessions = 1
    MaxAttempts = 2
    MaxStalls = 1
    MaxCrashes = 0
    ExpiryRuns = TRUE
SYMMETRY Symmetry
INVARIANTS TypeOK UploadExclusive SourceRetained VideoWhenProcessed
CHECK_DEADLOCK FALSE
