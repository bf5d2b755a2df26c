---------------------------- MODULE PipelineState ----------------------------
(***************************************************************************)
(* What the web process and the worker share: the recordings table, the    *)
(* outbox with the BullMQ jobs made from it, the object store, YouTube,     *)
(* and the calls in flight against them.  The component modules            *)
(* (RecordingRequests, UploadHandler, PollHandler, CleanupHandlers,      *)
(* WorkerProcess) add the actions; RecordingPipeline composes them.         *)
(*                                                                         *)
(* One action is one database statement (or transaction) or one provider   *)
(* call: everything between two awaits of the code runs as one step.       *)
(***************************************************************************)
EXTENDS Naturals, FiniteSets, RecordingStates

CONSTANTS
    Recordings,        \* rows that can be created
    Owners,            \* users with a YouTube connection row
    OwnerOf,           \* the owner of each recording
    Requests,          \* HTTP requests the web process serves at once
    YoutubeSlots,      \* job slots of the youtube worker (UPLOAD_CONCURRENCY)
    MaintenanceSlots,  \* job slots of the maintenance worker (4)
    EventIds,          \* bound: intents outstanding at once
    MaxSessions,       \* bound: upload sessions opened per recording
    MaxAttempts,       \* attempts of a job that throws (10 in producer.ts)
    MaxStalls,         \* times a job may be lost with its worker (BullMQ: 1)
    MaxCrashes,        \* bound: worker crashes
    ExpiryRuns         \* does anything schedule storage.expire-staging?

ASSUME PipelineAssumption ==
    /\ OwnerOf \in [Recordings -> Owners]
    /\ YoutubeSlots \cap MaintenanceSlots = {}
    /\ MaxSessions \in Nat /\ MaxAttempts \in Nat \ {0}
    /\ MaxStalls \in Nat /\ MaxCrashes \in Nat
    /\ ExpiryRuns \in BOOLEAN
    /\ IsFiniteSet(EventIds)

VARIABLES
    row,        \* the recordings table
    events,     \* outbox rows not yet done with: unpublished, or a live job
    handler,    \* the job each worker slot runs
    request,    \* the HTTP request each request slot serves
    scan,       \* rows the upload scanner selected and has not inserted for
    worker,     \* phase of the worker process
    todo,       \* rows startup recovery selected and has not inserted for
    crashes,    \* worker crashes so far
    url,        \* has a presigned PUT URL that has not timed out
    object,     \* is the media object in the bucket?
    opened,     \* YouTube: sessions opened for a recording, numbered from 1
    expired,    \* YouTube: sessions it no longer knows
    inserted,   \* YouTube: sessions that made a video (ghost: never undone)
    live,       \* YouTube: videos that exist now, named by their session
    reauth,     \* owners whose connection row says REAUTH_REQUIRED
    overtaken   \* ghost: recordings queued or claimed for an upload on a read that
                \* no longer held: an unclear outcome or a video had come between

storageVars  == <<url, object>>
providerVars == <<opened, expired, inserted, live>>
processVars  == <<scan, worker, todo, crashes>>
vars == <<row, events, handler, request, scan, worker, todo, crashes, url, object,
          opened, expired, inserted, live, reauth, overtaken>>

Slots    == YoutubeSlots \cup MaintenanceSlots
Sessions == 1 .. MaxSessions
None     == 0      \* no session, no video

\* Failure codes as far as the code branches on them.
Codes == {"none", "AMBIGUOUS", "QUOTA", "OTHER"}

\* "pending" is what createRecordingUpload inserts before it has the real key.
Keys == {"null", "pending", "object"}

Row == [status : RowStates, key : Keys, video : 0 .. MaxSessions, session : 0 .. MaxSessions,
        code : Codes, privacy : {"null", "unlisted", "private"}, deferred : BOOLEAN]

EmptyRow == [status |-> NoRow, key |-> "null", video |-> None, session |-> None,
             code |-> "none", privacy |-> "null", deferred |-> FALSE]

\* An outbox row is "unpublished", then its job (one per outbox row, producer.ts
\* deterministicJobId) is "waiting", "active", or "done": its handler returned and
\* Redis does not know it yet.  Published rows whose job has ended are inert and
\* leave the model.
JobStates == {"waiting", "active", "done"}

Event == [type : IntentTypes, rec : Recordings, state : JobStates \cup {"unpublished"},
          failures : 0 .. MaxAttempts - 1, stalls : 0 .. MaxStalls]

NoEvent == [state |-> "free"]

UploadSteps  == {"redirect", "claim", "session", "persist", "send", "save", "fail"}
PollSteps    == {"poll"}
DeleteSteps  == {"delete", "forget"}
CleanupSteps == {"remove", "forgetKey"}
FinishSteps  == {"finish", "tombstone"}
ExpireSteps  == {"intent"}
\* The steps of an upload attempt after its QUEUED -> YOUTUBE_UPLOADING claim.
AttemptSteps == {"session", "persist", "send", "save", "fail"}

Errors == {"none", "AMBIGUOUS", "QUOTA", "OTHER", "REAUTH"}

\* What a handler keeps between two awaits: its job, and the fields of the row
\* as it read them that a later step uses.
Handler == [step : UploadSteps \cup PollSteps \cup DeleteSteps \cup CleanupSteps \cup FinishSteps,
            event : EventIds, rec : Recordings, status : RowStates, key : Keys,
            video : 0 .. MaxSessions, session : 0 .. MaxSessions, error : Errors]

\* storage.expire-staging carries no recording and comes from no outbox row.
Sweeper == [step : ExpireSteps, rec : Recordings]

Idle == [step |-> "idle"]

\* What a request keeps of the row it read.
Request == [op : {"create", "complete", "retry", "delete"}, rec : Recordings,
            status : RowStates, key : Keys, video : 0 .. MaxSessions]

NoRequest == [op |-> "none"]
-----------------------------------------------------------------------------
Free == {e \in EventIds : events[e] = NoEvent}

Intent(type, r) ==
    [type |-> type, rec |-> r, state |-> "unpublished", failures |-> 0, stalls |-> 0]

\* Mutant: the UPDATE matches by id only.
transitionAllowedById(r, expected, next) == canTransitionRecording(expected, next)

\* transitionRecordingStatus: the table is consulted first, then the UPDATE
\* only matches a row still in the expected state.
transitionAllowed(r, expected, next) ==
    /\ canTransitionRecording(expected, next)
    /\ row[r].status = expected

\* The table after a compare-and-set to the row `new`; unchanged if it misses.
RowAfter(r, expected, new) ==
    IF transitionAllowed(r, expected, new.status) THEN [row EXCEPT ![r] = new] ELSE row

\* insertOutboxEvent inside the caller's transaction.
insertOutboxEvent(type, r) ==
    \E e \in Free : events' = [events EXCEPT ![e] = Intent(type, r)]

\* What becomes of the outbox row of a job whose handler returned.  The worker may
\* die before Redis hears of it; once no crash is left, that makes no difference.
Returned(e) == IF crashes < MaxCrashes THEN [events[e] EXCEPT !.state = "done"] ELSE NoEvent

\* A handler returned: its slot takes the next job.
JobCompleted(h) ==
    LET e == handler[h].event IN
    /\ handler' = [handler EXCEPT ![h] = Idle]
    /\ events' = [events EXCEPT ![e] = Returned(e)]

\* The same when the handler's last transaction also inserted an intent, which
\* may take the place of the event that is done with.
JobCompletedWithIntent(h, type, r) ==
    LET done == handler[h].event IN
    /\ handler' = [handler EXCEPT ![h] = Idle]
    /\ \E e \in Free \cup {f \in {done} : Returned(f) = NoEvent} :
          events' = [events EXCEPT ![done] = Returned(done), ![e] = Intent(type, r)]

\* Mutant: one attempt too many.
RetriedOnceMore(e) ==
    IF events[e].failures < MaxAttempts
    THEN [events[e] EXCEPT !.state = "waiting", !.failures = @ + 1]
    ELSE NoEvent

\* What becomes of the outbox row of a job that failed: BullMQ retries it until
\* its attempts are used up.
Retried(e) ==
    IF events[e].failures + 1 < MaxAttempts
    THEN [events[e] EXCEPT !.state = "waiting", !.failures = @ + 1]
    ELSE NoEvent

\* A handler threw.
JobFailed(h) ==
    LET e == handler[h].event IN
    /\ handler' = [handler EXCEPT ![h] = Idle]
    /\ events' = [events EXCEPT ![e] = Retried(e)]

\* The worker of queue q hands job e to an idle slot, which then runs `step`
\* with the row it has just read.
Takes(h, e, type) ==
    /\ worker = "up"
    /\ h \in (IF JOB_QUEUE[type] = "youtube" THEN YoutubeSlots ELSE MaintenanceSlots)
    /\ handler[h] = Idle
    /\ events[e] # NoEvent
    /\ events[e].type = type
    /\ events[e].state = "waiting"

\* A handler that has just read its row and keeps nothing of it yet.
Job(step, e) ==
    [step |-> step, event |-> e, rec |-> events[e].rec, status |-> NoRow, key |-> "null",
     video |-> None, session |-> None, error |-> "none"]

Starts(h, e, job) ==
    /\ handler' = [handler EXCEPT ![h] = job]
    /\ events' = [events EXCEPT ![e].state = "active"]

\* The handler looked at the row and returned at once.
NothingToDo(e) ==
    /\ events' = [events EXCEPT ![e] = NoEvent]
    /\ UNCHANGED handler

At(h, step) == handler[h].step = step

Goes(h, step) == handler' = [handler EXCEPT ![h].step = step]
=============================================================================
