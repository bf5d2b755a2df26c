SPECIFICATION Spec
CONSTANTS
    r1 = r1
    o1 = o1
    Recordings = {r1}
    Owners = {o1}
    OwnerOf <- MCOwnerOf
    Requests = {q1, q2}
    YoutubeSlots = {y1}
    MaintenanceSlots = {m1}
    EventIds = {e1, e2}
    MaxSessions = 1
    MaxAttempts = 2
    MaxStalls = 1
    MaxCrashes = 0
    ExpiryRuns = FALSE
SYMMETRY Symmetry
  
PROPERTY ImplementsLifecycle
CHECK_DEADLOCK FALSE
