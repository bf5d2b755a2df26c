SPECIFICATION Spec
CONSTANTS
    NoOne = NoOne
    People = {a1, a2, u1, u2}
    FirstAdmins = {a1, a2}
    FirstUsers = {u1}
    Recorders = {u1}
    Clients = {c1, c2}
    EnvClient = c1
    Keys = {k1, k2}
    Slots = {s1, s2}
    CookieAge = 0
    StateTtl = 0
    MaxClock = 2
    MaxEvents = 4
SYMMETRY Symmetry
INVARIANTS TypeOK AdminsRemain  GrantIsOwners TokenFitsClient
PROPERTIES StaleRoleIsBrief
CHECK_DEADLOCK FALSE
