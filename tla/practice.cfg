CONSTANTS
    t1 = t1  t2 = t2  r1 = r1  r2 = r2  r3 = r3  s1 = s1  s2 = s2
    Takes = {t1, t2}
    Recs = {r1, r2, r3}
    Slots = {s1, s2}
    Capacity = 2
    MaxCalls = 2
    NoTake = NoTake  NoRec = NoRec  NoSlot = NoSlot
SYMMETRY MCSymmetry
SPECIFICATION Spec
INVARIANTS TypeOK  RecordingCanStop TakeIsOneRecording
    StagingOvershootIsBounded AbortedIsNeverQueued AttemptsSettle
PROPERTIES TakeSurvivesUpload
CHECK_DEADLOCK FALSE
