--------------------------- MODULE RecordingStates ---------------------------
(***************************************************************************)
(* The recording life cycle shared by the web process and the worker:      *)
(* packages/contracts/src/recording.ts and queue.ts.  Pure data: no state. *)
(***************************************************************************)

RECORDING_STATES ==
    {"STAGING", "QUEUED", "YOUTUBE_UPLOADING", "YOUTUBE_PROCESSING", "READY",
     "FAILED", "EXPIRED", "DELETE_PENDING", "DELETED"}

RECORDING_TRANSITIONS ==
    [STAGING            |-> {"QUEUED", "EXPIRED", "DELETE_PENDING"},
     QUEUED             |-> {"YOUTUBE_UPLOADING", "FAILED", "DELETE_PENDING"},
     YOUTUBE_UPLOADING  |-> {"YOUTUBE_PROCESSING", "FAILED", "QUEUED", "DELETE_PENDING"},
     YOUTUBE_PROCESSING |-> {"READY", "FAILED", "DELETE_PENDING"},
     READY              |-> {"DELETE_PENDING"},
     FAILED             |-> {"QUEUED", "DELETE_PENDING"},
     EXPIRED            |-> {"DELETE_PENDING"},
     DELETE_PENDING     |-> {"DELETED"},
     DELETED            |-> {}]

canTransitionRecording(from, to) == to \in RECORDING_TRANSITIONS[from]

\* A row that has not been inserted yet.
NoRow == "NONE"

RowStates == RECORDING_STATES \cup {NoRow}

\* The states a recording is in once its object was verified and nobody asked
\* for its deletion: the object in storage must stay (plan/02, READY).
KeptStates == {"QUEUED", "YOUTUBE_UPLOADING", "YOUTUBE_PROCESSING", "READY", "FAILED"}

GoneStates == {"DELETE_PENDING", "DELETED"}

\* The four recording-scoped intents an outbox row may carry.
IntentTypes == {"youtube.upload", "youtube.poll-processing", "youtube.delete", "storage.cleanup"}

\* JOB_QUEUE: the queue, hence the worker, that runs a job.
JOB_QUEUE == [t \in IntentTypes |-> IF t = "storage.cleanup" THEN "maintenance" ELSE "youtube"]
=============================================================================
