\* Overlapping dispatch calls, failures and crashes on the outbox.
SPECIFICATION FairSpec
CONSTANTS
    Events <- MCEvents
    TypeOf <- MCTypeOf
    RecordingOf <- MCRecordingOf
    Recordings = {"r1"}
    Dispatchers = {d1, d2}
    Limit = 2
INVARIANTS
    PublishedHasJob
PROPERTIES
    ImplementsDelivery
    IntentsAreEnqueued
