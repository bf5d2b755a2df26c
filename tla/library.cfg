SPECIFICATION Spec
CONSTANTS
    ann = ann
    root = root
    t1 = t1
    t2 = t2
    g1 = g1
    g2 = g2
    q1 = q1
    q2 = q2
    d1 = d1
    d2 = d2
    n1 = n1
    n2 = n2
    v1 = v1
    NoOne = NoOne
    Users = {ann, root}
    Admins = {root}
    TopicIds = {t1, t2, t3, t4}
    TagIds = {g1, g2, g3}
    QuestionIds = {q1, q2, q3, q4}
    DraftIds = {d1, d2, d3, d4}
    Names = {n1, n2}
    Values = {v1}
    Slots = {s1, s2}
    Positions = {0, 1, 2, 3, 4}
    MaxOrder = 2
    MaxCalls = 3
    Seed <- MCSeed
SYMMETRY Symmetry
INVARIANTS TypeOK TagsAreOwners OrderIsDense DraftsAreOrdered
PROPERTIES OnlyOwnLibrary UnnamedFieldsStay
CHECK_DEADLOCK FALSE
