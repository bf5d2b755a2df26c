CONSTANTS
    i1 = i1  i2 = i2  i3 = i3  s1 = s1  s2 = s2
    Pages <- MCPages
    Ids = {i1, i2, i3}
    Slots = {s1, s2}
    MaxCalls = 3
    NoId = NoId
SYMMETRY MCSymmetry
SPECIFICATION Spec
INVARIANTS TypeOK PatchedSettles  GuardMatchesForms
PROPERTIES EditOutlivesAnswers
CHECK_DEADLOCK FALSE
