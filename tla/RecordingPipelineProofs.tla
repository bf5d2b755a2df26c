----------------------- MODULE RecordingPipelineProofs -----------------------
(***************************************************************************)
(* Type correctness of the composed pipeline, for every value of its       *)
(* constants.  TypeOK is not inductive: Returned and Retried patch the     *)
(* event a slot names, so a slot must hold an active event of its own.     *)
(* TypeInv adds that (JobsHeld).  One lemma per component takes one step   *)
(* per action.                                                             *)
(***************************************************************************)
EXTENDS RecordingPipeline, TLAPS

\* Steps at which a slot runs a job of the outbox; the staging sweeper has none.
JobSteps == UploadSteps \cup PollSteps \cup DeleteSteps \cup CleanupSteps \cup FinishSteps

\* Every running handler holds an active job, and no two hold the same one:
\* Returned and Retried patch that job, so type correctness needs it.
JobsHeld ==
    /\ \A h \in Slots : handler[h].step \in JobSteps =>
          events[handler[h].event].state = "active"
    /\ \A g, h \in Slots :
          /\ handler[g].step \in JobSteps /\ handler[h].step \in JobSteps
          /\ handler[g].event = handler[h].event
          => g = h

\* The part of TypeOK the job bookkeeping touches.
JobTypes ==
    /\ events \in [EventIds -> Event \cup {NoEvent}]
    /\ handler \in [Slots -> Handler \cup Sweeper \cup {Idle}]
    /\ crashes \in Nat

\* The inductive invariant of jobs and slots.
JobInv == JobTypes /\ JobsHeld

\* The sets of steps, spelled out once.
LEMMA StepDefs ==
    /\ JobSteps = {"redirect", "claim", "session", "persist", "send", "save", "fail", "poll",
                   "delete", "forget", "remove", "forgetKey", "finish", "tombstone"}
    /\ ExpireSteps = {"intent"}
  BY DEF JobSteps, UploadSteps, PollSteps, DeleteSteps, CleanupSteps, FinishSteps, ExpireSteps

\* The step of a slot tells what record it holds.
LEMMA HandlerCases ==
    ASSUME JobTypes, NEW h \in Slots
    PROVE  /\ handler[h].step \in JobSteps => handler[h] \in Handler
           /\ handler[h].step = "intent" => handler[h] \in Sweeper
           /\ handler[h] \in Handler => handler[h].step \in JobSteps
  BY StepDefs DEF JobTypes, Handler, Sweeper, Idle, JobSteps

\* The state of an event tells whether it is one.
LEMMA EventCases ==
    ASSUME JobTypes, NEW e \in EventIds
    PROVE  /\ events[e] # NoEvent => events[e] \in Event
           /\ events[e].state \in JobStates \cup {"unpublished"} => events[e] \in Event
           /\ events[e] \in Event => events[e] # NoEvent
  BY DEF JobTypes, Event, NoEvent, JobStates

\* A slot at a job step holds an active event.
LEMMA HeldJob ==
    ASSUME JobInv, NEW h \in Slots, handler[h].step \in JobSteps
    PROVE  /\ handler[h] \in Handler
           /\ handler[h].event \in EventIds
           /\ events[handler[h].event] \in Event
           /\ handler[h].event \notin Free
  BY HandlerCases, EventCases DEF JobInv, JobsHeld, Handler, JobStates, Free

\* A job that ends leaves an event or nothing.
LEMMA ReturnedType ==
    ASSUME JobTypes, NEW e \in EventIds, events[e] \in Event
    PROVE  Returned(e) \in Event \cup {NoEvent}
  BY DEF JobTypes, Returned, Event, NoEvent, JobStates

\* A fresh intent is an event.
LEMMA IntentType ==
    ASSUME PipelineAssumption, NEW type \in IntentTypes, NEW r \in Recordings
    PROVE  Intent(type, r) \in Event
  BY DEF PipelineAssumption, Intent, Event

\* Freeing a slot and replacing its own job by one that is not active keeps JobInv.
LEMMA JobEnds ==
    ASSUME JobInv, NEW h \in Slots, handler[h].step \in JobSteps, crashes' = crashes,
           handler' = [handler EXCEPT ![h] = Idle],
           NEW left \in Event \cup {NoEvent},
           events' = [events EXCEPT ![handler[h].event] = left]
    PROVE  JobInv'
  <1> DEFINE e == handler[h].event
  <1>1. e \in EventIds
    BY HeldJob
  <1>2. JobTypes'
    BY <1>1 DEF JobInv, JobTypes
  <1>3. ASSUME NEW g \in Slots, handler'[g].step \in JobSteps
        PROVE  g # h /\ handler'[g] = handler[g]
    BY <1>3, StepDefs DEF JobInv, JobTypes, Idle
  <1>4. ASSUME NEW g \in Slots, handler'[g].step \in JobSteps
        PROVE  handler[g].event \in EventIds /\ handler[g].event # e
    BY <1>3, <1>4, HeldJob DEF JobInv, JobsHeld
  <1>5. JobsHeld'
    BY <1>3, <1>4 DEF JobInv, JobsHeld, JobTypes
  <1> QED BY <1>2, <1>5 DEF JobInv

\* Unpublished events added elsewhere disturb no running job.
LEMMA EventsAdded ==
    ASSUME JobInv, NEW e \in Free, NEW f \in Free, NEW a \in Event \cup {NoEvent},
           NEW b \in Event \cup {NoEvent},
           events' = [events EXCEPT ![e] = a, ![f] = b], UNCHANGED <<handler, crashes>>
    PROVE  JobInv'
  <1>1. JobTypes'
    BY DEF JobInv, JobTypes, Free
  <1>2. ASSUME NEW g \in Slots, handler[g].step \in JobSteps
        PROVE  /\ handler[g].event \in EventIds
               /\ handler[g].event # e /\ handler[g].event # f
    BY <1>2, HeldJob
  <1>3. JobsHeld'
    BY <1>2 DEF JobInv, JobsHeld, JobTypes
  <1> QED BY <1>1, <1>3 DEF JobInv

\* The same for insertOutboxEvent, which adds one.
LEMMA EventAdded ==
    ASSUME JobInv, NEW e \in Free, NEW new \in Event \cup {NoEvent},
           events' = [events EXCEPT ![e] = new], UNCHANGED <<handler, crashes>>
    PROVE  JobInv'
  <1>1. events' = [events EXCEPT ![e] = new, ![e] = new]
    BY DEF JobInv, JobTypes, Free
  <1> QED BY <1>1, EventsAdded

\* JobCompleted keeps JobInv.
LEMMA JobCompletedInv ==
    ASSUME JobInv, NEW h \in Slots, handler[h].step \in JobSteps,
           JobCompleted(h), crashes' = crashes
    PROVE  JobInv'
  BY JobEnds, HeldJob, ReturnedType DEF JobInv, JobCompleted

\* JobCompletedWithIntent keeps JobInv, also where the intent reuses the event.
LEMMA JobCompletedWithIntentInv ==
    ASSUME PipelineAssumption, JobInv, NEW h \in Slots, handler[h].step \in JobSteps,
           NEW type \in IntentTypes, NEW r \in Recordings,
           JobCompletedWithIntent(h, type, r), crashes' = crashes
    PROVE  JobInv'
  <1> DEFINE done == handler[h].event
  <1>1. done \in EventIds /\ Returned(done) \in Event \cup {NoEvent}
    BY HeldJob, ReturnedType DEF JobInv
  <1>2. PICK e \in Free \cup {done} :
            events' = [events EXCEPT ![done] = Returned(done), ![e] = Intent(type, r)]
    BY DEF JobCompletedWithIntent
  <1>3. handler' = [handler EXCEPT ![h] = Idle]
    BY DEF JobCompletedWithIntent
  <1>4. JobTypes'
    BY <1>1, <1>2, <1>3, IntentType DEF JobInv, JobTypes, Free
  <1>5. ASSUME NEW g \in Slots, handler'[g].step \in JobSteps
        PROVE  g # h /\ handler'[g] = handler[g]
    BY <1>3, <1>5, StepDefs DEF JobInv, JobTypes, Idle
  <1>6. ASSUME NEW g \in Slots, handler'[g].step \in JobSteps
        PROVE  /\ handler[g].event \in EventIds
               /\ handler[g].event # done /\ handler[g].event # e
    BY <1>5, <1>6, HeldJob DEF JobInv, JobsHeld
  <1>7. JobsHeld'
    BY <1>2, <1>5, <1>6 DEF JobInv, JobsHeld, JobTypes
  <1> QED BY <1>4, <1>7 DEF JobInv

\* A failed job leaves an event or nothing.
LEMMA RetriedType ==
    ASSUME PipelineAssumption, NEW e \in EventIds, events[e] \in Event
    PROVE  Retried(e) \in Event \cup {NoEvent}
  <1>1. ASSUME NEW n \in 0 .. MaxAttempts - 1
        PROVE  [events[e] EXCEPT !.state = "waiting", !.failures = n] \in Event
    BY DEF Event, JobStates
  <1>2. ASSUME events[e].failures + 1 < MaxAttempts
        PROVE  events[e].failures + 1 \in 0 .. MaxAttempts - 1
    BY <1>2 DEF PipelineAssumption, Event
  <1> QED BY <1>1, <1>2 DEF Retried

\* JobFailed keeps JobInv.
LEMMA JobFailedInv ==
    ASSUME PipelineAssumption, JobInv, NEW h \in Slots, handler[h].step \in JobSteps,
           JobFailed(h), crashes' = crashes
    PROVE  JobInv'
  BY JobEnds, HeldJob, RetriedType DEF JobFailed

\* A handler that goes on with the same job keeps JobInv.
LEMMA JobGoesOn ==
    ASSUME JobInv, NEW h \in Slots, handler[h].step \in JobSteps, NEW job \in Handler,
           job.event = handler[h].event, handler' = [handler EXCEPT ![h] = job],
           UNCHANGED <<events, crashes>>
    PROVE  JobInv'
  <1>1. JobTypes'
    BY DEF JobInv, JobTypes
  <1>2. ASSUME NEW g \in Slots, handler'[g].step \in JobSteps
        PROVE  handler[g].step \in JobSteps /\ handler'[g].event = handler[g].event
    BY <1>2 DEF JobInv, JobTypes
  <1>3. JobsHeld'
    BY <1>2 DEF JobInv, JobsHeld
  <1> QED BY <1>1, <1>3 DEF JobInv

\* A waiting job taken by an idle slot keeps JobInv: nobody else held it.
LEMMA JobStarts ==
    ASSUME JobInv, NEW h \in Slots, NEW e \in EventIds, events[e] \in Event,
           events[e].state = "waiting",
           NEW job \in Handler, job.event = e, Starts(h, e, job), crashes' = crashes
    PROVE  JobInv'
  <1>1. JobTypes'
    BY DEF JobInv, JobTypes, Starts, Event, JobStates
  <1>2. ASSUME NEW g \in Slots, handler'[g].step \in JobSteps, g # h
        PROVE  /\ handler[g] = handler'[g] /\ handler[g].event \in EventIds
               /\ handler[g].event # e
    BY <1>2, HeldJob DEF JobInv, JobsHeld, JobTypes, Starts
  <1>3. handler'[h] = job /\ events'[e].state = "active"
    BY DEF JobInv, JobTypes, Starts, Event
  <1>4. JobsHeld'
    BY <1>2, <1>3 DEF JobInv, JobsHeld, JobTypes, Starts
  <1> QED BY <1>1, <1>4 DEF JobInv

\* A job that ends at once was held by nobody.
LEMMA NothingToDoInv ==
    ASSUME JobInv, NEW e \in EventIds, events[e].state = "waiting", NothingToDo(e),
           crashes' = crashes
    PROVE  JobInv'
  <1>1. JobTypes'
    BY DEF JobInv, JobTypes, NothingToDo
  <1>2. ASSUME NEW g \in Slots, handler[g].step \in JobSteps
        PROVE  handler[g].event \in EventIds /\ handler[g].event # e
    BY <1>2, HeldJob DEF JobInv, JobsHeld
  <1>3. JobsHeld'
    BY <1>2 DEF JobInv, JobsHeld, JobTypes, NothingToDo
  <1> QED BY <1>1, <1>3 DEF JobInv

\* storage.expire-staging takes an idle slot without a job from the outbox.
LEMMA SweeperInv ==
    ASSUME JobInv, NEW h \in Slots, NEW job \in Sweeper,
           handler' = [handler EXCEPT ![h] = job], UNCHANGED <<events, crashes>>
    PROVE  JobInv'
  <1>1. job.step \notin JobSteps
    BY StepDefs DEF Sweeper
  <1>2. JobTypes'
    BY DEF JobInv, JobTypes
  <1>3. JobsHeld'
    BY <1>1 DEF JobInv, JobsHeld, JobTypes
  <1> QED BY <1>2, <1>3 DEF JobInv

\* Freeing a slot without touching the events keeps JobInv.
LEMMA SlotFreed ==
    ASSUME JobInv, NEW h \in Slots, handler' = [handler EXCEPT ![h] = Idle],
           NEW e \in Free, NEW new \in Event, events' = [events EXCEPT ![e] = new],
           crashes' = crashes
    PROVE  JobInv'
  <1>1. JobTypes'
    BY DEF JobInv, JobTypes, Free
  <1>2. ASSUME NEW g \in Slots, handler'[g].step \in JobSteps
        PROVE  g # h /\ handler'[g] = handler[g]
    BY <1>2, StepDefs DEF JobInv, JobTypes, Idle
  <1>3. ASSUME NEW g \in Slots, handler'[g].step \in JobSteps
        PROVE  handler[g].event \in EventIds /\ handler[g].event # e
    BY <1>2, <1>3, HeldJob
  <1>4. JobsHeld'
    BY <1>2, <1>3 DEF JobInv, JobsHeld, JobTypes
  <1> QED BY <1>1, <1>4 DEF JobInv
-----------------------------------------------------------------------------
\* The part of TypeOK about rows, requests, the process and the providers.
StoreTypes ==
    /\ row \in [Recordings -> Row]
    /\ request \in [Requests -> Request \cup {NoRequest}]
    /\ scan \subseteq Recordings /\ todo \subseteq Recordings
    /\ worker \in {"up", "down", "polls", "uploads"}
    /\ url \in [Recordings -> BOOLEAN] /\ object \in [Recordings -> BOOLEAN]
    /\ opened \in [Recordings -> 0 .. MaxSessions]
    /\ expired \in [Recordings -> SUBSET (0 .. MaxSessions)]
    /\ inserted \in [Recordings -> SUBSET (0 .. MaxSessions)]
    /\ live \in [Recordings -> SUBSET (0 .. MaxSessions)]
    /\ reauth \subseteq Owners /\ overtaken \subseteq Recordings

\* The inductive strengthening of TypeOK.
TypeInv == StoreTypes /\ JobInv

\* TypeInv is TypeOK and JobsHeld.
LEMMA TypeInvIsTypeOK == TypeInv <=> TypeOK /\ JobsHeld
  BY DEF TypeInv, StoreTypes, JobInv, JobTypes, TypeOK

\* A step that leaves jobs and slots alone keeps JobInv.
LEMMA JobsUntouched ==
    ASSUME JobInv, UNCHANGED <<handler, events, crashes>>
    PROVE  JobInv'
  BY DEF JobInv, JobTypes, JobsHeld

\* insertOutboxEvent keeps JobInv.
LEMMA IntentInserted ==
    ASSUME PipelineAssumption, JobInv, NEW type \in IntentTypes, NEW r \in Recordings,
           insertOutboxEvent(type, r), UNCHANGED <<handler, crashes>>
    PROVE  JobInv'
  BY IntentType, EventAdded DEF insertOutboxEvent

\* The fields of a request in flight.
LEMMA RequestRecord ==
    ASSUME StoreTypes, NEW q \in Requests, request[q].op # "none"
    PROVE  request[q] \in Request /\ request[q].rec \in Recordings
  BY DEF StoreTypes, Request, NoRequest

\* The row of a recording not yet created is a row.
LEMMA EmptyRowType ==
    ASSUME PipelineAssumption
    PROVE  EmptyRow \in Row
  BY DEF PipelineAssumption, EmptyRow, Row, Keys, Codes, None, RowStates

\* A request that has read a row has the type of a request.
LEMMA ReadingType ==
    ASSUME PipelineAssumption, NEW op \in {"create", "complete", "retry", "delete"},
           NEW r \in Recordings
    PROVE  Reading(op, r) \in Request
  BY DEF PipelineAssumption, Reading, Request, RowStates, Keys, None

\* The table after one row is written.
LEMMA RowWritten ==
    ASSUME StoreTypes, NEW r \in Recordings, NEW new \in Row, row' = [row EXCEPT ![r] = new]
    PROVE  row' \in [Recordings -> Row]
  BY DEF StoreTypes

\* Every status named in an action is a status.
LEMMA StateNames ==
    /\ RowStates = {"STAGING", "QUEUED", "YOUTUBE_UPLOADING", "YOUTUBE_PROCESSING", "READY",
                    "FAILED", "EXPIRED", "DELETE_PENDING", "DELETED", "NONE"}
    /\ "QUEUED" \in RowStates /\ "DELETE_PENDING" \in RowStates
  BY DEF RowStates, RECORDING_STATES, NoRow

\* One field of a row is written.
LEMMA FieldWritten ==
    ASSUME StoreTypes, NEW r \in Recordings
    PROVE  /\ row[r] \in Row
           /\ \A status \in RowStates : [row[r] EXCEPT !.status = status] \in Row
           /\ \A key \in Keys : [row[r] EXCEPT !.key = key] \in Row
           /\ \A session \in 0 .. MaxSessions : [row[r] EXCEPT !.session = session] \in Row
  <1>1. row[r] \in Row
    BY DEF StoreTypes
  <1>2. \A status \in RowStates : [row[r] EXCEPT !.status = status] \in Row
    BY <1>1 DEF Row
  <1>3. \A key \in Keys : [row[r] EXCEPT !.key = key] \in Row
    BY <1>1 DEF Row
  <1>4. \A session \in 0 .. MaxSessions : [row[r] EXCEPT !.session = session] \in Row
    BY <1>1 DEF Row
  <1> QED BY <1>1, <1>2, <1>3, <1>4

\* The table after one row got a new status.
LEMMA StatusWritten ==
    ASSUME StoreTypes, NEW r \in Recordings, NEW status \in RowStates,
           row' = row \/ row' = [row EXCEPT ![r].status = status]
    PROVE  row' \in [Recordings -> Row]
  <1>1. CASE row' = row
    BY <1>1 DEF StoreTypes
  <1>2. CASE row' = [row EXCEPT ![r] = [row[r] EXCEPT !.status = status]]
    BY <1>2, FieldWritten DEF StoreTypes
  <1> QED BY <1>1, <1>2

\* Answering a request keeps the type of request.
LEMMA AnsweredType ==
    ASSUME StoreTypes, NEW q \in Requests, Answered(q)
    PROVE  request' \in [Requests -> Request \cup {NoRequest}]
  BY DEF StoreTypes, Answered

\* The web requests keep TypeInv: one step per action of RequestNext.
LEMMA RequestTypes ==
    ASSUME PipelineAssumption, TypeInv, RequestNext
    PROVE  TypeInv'
  <1> USE DEF webUnchanged, processVars, storageVars, providerVars
  <1>1. ASSUME NEW q \in Requests, NEW r \in Recordings, CreateInsert(q, r) PROVE TypeInv'
    <2>1. [EmptyRow EXCEPT !.status = "STAGING", !.key = "pending"] \in Row
      BY EmptyRowType DEF Row, Keys, RowStates, RECORDING_STATES
    <2>2. row' \in [Recordings -> Row]
      BY <1>1, <2>1 DEF TypeInv, StoreTypes, CreateInsert
    <2>3. request' \in [Requests -> Request \cup {NoRequest}]
      BY <1>1, ReadingType DEF TypeInv, StoreTypes, CreateInsert
    <2>4. JobInv'
      BY <1>1, JobsUntouched DEF TypeInv, CreateInsert
    <2> QED BY <1>1, <2>2, <2>3, <2>4 DEF TypeInv, StoreTypes, CreateInsert
  <1>2. ASSUME NEW q \in Requests, CreateFinish(q) PROVE TypeInv'
    <2>1. request[q].rec \in Recordings
      BY <1>2, RequestRecord DEF TypeInv, CreateFinish
    <2>2. row' \in [Recordings -> Row]
      BY <1>2, <2>1, FieldWritten DEF TypeInv, StoreTypes, CreateFinish, Keys
    <2>3. url' \in [Recordings -> BOOLEAN]
      BY <1>2, <2>1 DEF TypeInv, StoreTypes, CreateFinish
    <2>4. JobInv'
      BY <1>2, JobsUntouched DEF TypeInv, CreateFinish
    <2> QED BY <1>2, <2>2, <2>3, <2>4, AnsweredType DEF TypeInv, StoreTypes, CreateFinish
  <1>3. ASSUME NEW r \in Recordings, BrowserPut(r) \/ UrlExpires(r) PROVE TypeInv'
    <2>1. url' \in [Recordings -> BOOLEAN] /\ object' \in [Recordings -> BOOLEAN]
      BY <1>3 DEF TypeInv, StoreTypes, BrowserPut, UrlExpires
    <2>2. JobInv'
      BY <1>3, JobsUntouched DEF TypeInv, BrowserPut, UrlExpires
    <2> QED BY <1>3, <2>1, <2>2 DEF TypeInv, StoreTypes, BrowserPut, UrlExpires
  <1>4. ASSUME NEW q \in Requests, NEW r \in Recordings,
               CompleteCheck(q, r) \/ RetryCheck(q, r) \/ DeleteCheck(q, r)
        PROVE  TypeInv'
    <2>1. \A status \in RowStates, key \in Keys, video \in 0 .. MaxSessions :
            /\ [Reading("retry", r) EXCEPT !.video = video] \in Request
            /\ [Reading("delete", r) EXCEPT !.status = status, !.key = key, !.video = video]
                  \in Request
      BY ReadingType DEF Request, Reading
    <2>2. row[r].status \in RowStates /\ row[r].key \in Keys /\ row[r].video \in 0 .. MaxSessions
      BY DEF TypeInv, StoreTypes, Row
    <2>3. PICK new \in Request : request' = [request EXCEPT ![q] = new]
      BY <1>4, <2>1, <2>2, ReadingType DEF CompleteCheck, RetryCheck, DeleteCheck
    <2>4. JobInv'
      BY <1>4, JobsUntouched DEF TypeInv, CompleteCheck, RetryCheck, DeleteCheck
    <2> QED BY <1>4, <2>3, <2>4 DEF TypeInv, StoreTypes, CompleteCheck, RetryCheck, DeleteCheck
  <1>5. ASSUME NEW q \in Requests, CompleteCommit(q) PROVE TypeInv'
    <2>1. request[q].rec \in Recordings
      BY <1>5, RequestRecord DEF TypeInv, CompleteCommit
    <2>2. row' \in [Recordings -> Row]
      BY <1>5, <2>1, StatusWritten, StateNames DEF TypeInv, CompleteCommit
    <2>3. JobInv'
      BY <1>5, <2>1, JobsUntouched, IntentInserted DEF TypeInv, CompleteCommit, IntentTypes
    <2> QED BY <1>5, <2>2, <2>3, AnsweredType DEF TypeInv, StoreTypes, CompleteCommit
  <1>6. ASSUME NEW q \in Requests, RetryCommit(q) PROVE TypeInv'
    <2>1. request[q].rec \in Recordings
      BY <1>6, RequestRecord DEF TypeInv, RetryCommit
    <2>2. row' \in [Recordings -> Row]
      BY <1>6, <2>1, StatusWritten, StateNames DEF TypeInv, RetryCommit
    <2>3. JobInv'
      BY <1>6, <2>1, JobsUntouched, IntentInserted DEF TypeInv, RetryCommit, IntentTypes
    <2>4. overtaken' \subseteq Recordings
      BY <1>6, <2>1 DEF TypeInv, StoreTypes, RetryCommit
    <2> QED BY <1>6, <2>2, <2>3, <2>4, AnsweredType DEF TypeInv, StoreTypes, RetryCommit
  <1>7. ASSUME NEW q \in Requests, DeleteCommit(q) PROVE TypeInv'
    <2>1. request[q].rec \in Recordings
      BY <1>7, RequestRecord DEF TypeInv, DeleteCommit
    <2>2. row' \in [Recordings -> Row]
      BY <1>7, <2>1, StatusWritten, StateNames DEF TypeInv, DeleteCommit
    <2>3. JobInv'
      <3>1. CASE UNCHANGED events
        BY <1>7, <3>1, JobsUntouched DEF TypeInv, DeleteCommit
      <3>2. CASE \E e, f \in Free : \E a, b \in Event \cup {NoEvent} :
                     events' = [events EXCEPT ![e] = a, ![f] = b]
        <4>1. PICK e \in Free, f \in Free, a \in Event \cup {NoEvent}, b \in Event \cup {NoEvent} :
                     events' = [events EXCEPT ![e] = a, ![f] = b]
          BY <3>2
        <4> QED BY <1>7, <4>1, EventsAdded DEF TypeInv, DeleteCommit
      <3> QED BY <1>7, <2>1, <3>1, <3>2, IntentType DEF DeleteCommit, IntentTypes
    <2> QED BY <1>7, <2>2, <2>3, AnsweredType DEF TypeInv, StoreTypes, DeleteCommit
  <1>8. ASSUME NEW q \in Requests, RequestLost(q) PROVE TypeInv'
    <2>1. JobInv'
      BY <1>8, JobsUntouched DEF TypeInv, RequestLost
    <2> QED BY <1>8, <2>1, AnsweredType DEF TypeInv, StoreTypes, RequestLost
  <1> QED BY <1>1, <1>2, <1>3, <1>4, <1>5, <1>6, <1>7, <1>8 DEF RequestNext
-----------------------------------------------------------------------------
(* What handlers keep *)

\* A handler that has read its row has the type of a handler.
LEMMA JobType ==
    ASSUME PipelineAssumption, NEW e \in EventIds, events[e] \in Event, NEW step \in JobSteps
    PROVE  /\ Job(step, e) \in Handler /\ Job(step, e).event = e
           /\ \A status \in RowStates : /\ [Job(step, e) EXCEPT !.status = status] \in Handler
                                        /\ [Job(step, e) EXCEPT !.status = status].event = e
           /\ \A key \in Keys : /\ [Job(step, e) EXCEPT !.key = key] \in Handler
                                /\ [Job(step, e) EXCEPT !.key = key].event = e
           /\ \A video \in 0 .. MaxSessions :
                 /\ [Job(step, e) EXCEPT !.video = video] \in Handler
                 /\ [Job(step, e) EXCEPT !.video = video].event = e
  <1>1. /\ NoRow \in RowStates /\ "null" \in Keys /\ None \in 0 .. MaxSessions
        /\ "none" \in Errors /\ events[e].rec \in Recordings
    BY DEF PipelineAssumption, RowStates, Keys, None, Errors, Event
  <1>2. Job(step, e) \in Handler
    BY <1>1 DEF Job, Handler, JobSteps
  <1> QED BY <1>2 DEF Job, Handler

\* One handler takes its next step, keeping its job.
LEMMA HandlerPatched ==
    ASSUME JobTypes, NEW h \in Slots, handler[h].step \in JobSteps, NEW step \in JobSteps
    PROVE  /\ [handler[h] EXCEPT !.step = step] \in Handler
           /\ [handler[h] EXCEPT !.step = step].event = handler[h].event
           /\ \A error \in Errors :
                 /\ [handler[h] EXCEPT !.step = step, !.error = error] \in Handler
                 /\ [handler[h] EXCEPT !.step = step, !.error = error].event = handler[h].event
           /\ \A session \in 0 .. MaxSessions :
                 /\ [handler[h] EXCEPT !.step = step, !.session = session] \in Handler
                 /\ [handler[h] EXCEPT !.step = step, !.session = session].event
                        = handler[h].event
  BY HandlerCases DEF Handler, JobSteps

\* Going to another job step keeps JobInv.
LEMMA GoesInv ==
    ASSUME JobInv, NEW h \in Slots, handler[h].step \in JobSteps, NEW step \in JobSteps,
           Goes(h, step), UNCHANGED <<events, crashes>>
    PROVE  JobInv'
  <1>1. handler' = [handler EXCEPT ![h] = [handler[h] EXCEPT !.step = step]]
    BY DEF Goes, JobInv, JobTypes
  <1> QED BY <1>1, HandlerPatched, JobGoesOn DEF JobInv

\* Entering the catch block keeps JobInv.
LEMMA FailsInv ==
    ASSUME JobInv, NEW h \in Slots, handler[h].step \in JobSteps, NEW error \in Errors,
           Fails(h, error), UNCHANGED <<events, crashes>>
    PROVE  JobInv'
  <1>1. /\ [handler[h] EXCEPT !.step = "fail", !.error = error] \in Handler
        /\ [handler[h] EXCEPT !.step = "fail", !.error = error].event = handler[h].event
    BY HandlerPatched, StepDefs DEF JobInv
  <1>2. handler' = [handler EXCEPT ![h] = [handler[h] EXCEPT !.step = "fail", !.error = error]]
    BY DEF Fails, JobInv, JobTypes
  <1> QED BY <1>1, <1>2, JobGoesOn

\* What a handler that runs a job knows.
LEMMA HandlerRecord ==
    ASSUME TypeInv, NEW h \in Slots, handler[h].step \in JobSteps
    PROVE  /\ handler[h].rec \in Recordings /\ row[handler[h].rec] \in Row
           /\ handler[h].status \in RowStates /\ handler[h].key \in Keys
           /\ handler[h].session \in 0 .. MaxSessions /\ handler[h].video \in 0 .. MaxSessions
           /\ handler[h].error \in Errors
  BY HandlerCases DEF TypeInv, StoreTypes, JobInv, Handler

\* A job that a slot may take.
LEMMA JobTaken ==
    ASSUME TypeInv, NEW h, NEW e \in EventIds, NEW type \in IntentTypes, Takes(h, e, type)
    PROVE  /\ h \in Slots /\ events[e] \in Event /\ events[e].state = "waiting"
           /\ events[e].rec \in Recordings /\ row[events[e].rec] \in Row
  <1>1. events[e] \in Event
    BY EventCases DEF Takes, TypeInv, JobInv
  <1> QED BY <1>1 DEF Takes, Slots, TypeInv, StoreTypes, Event

\* The table after a compare-and-set.
LEMMA RowAfterType ==
    ASSUME StoreTypes, NEW r \in Recordings, NEW expected, NEW new \in Row,
           row' = RowAfter(r, expected, new)
    PROVE  row' \in [Recordings -> Row]
  BY DEF StoreTypes, RowAfter
-----------------------------------------------------------------------------
(* The upload handler *)

\* The rows the upload handler writes.
LEMMA UploadRows ==
    ASSUME PipelineAssumption, StoreTypes, NEW r \in Recordings
    PROVE  /\ \A status \in RowStates : RedirectTarget(status) \in RowStates
           /\ [row[r] EXCEPT !.status = "YOUTUBE_UPLOADING", !.code = "none"] \in Row
           /\ \A error \in Errors : FailedRow(r, error) \in Row
           /\ \A video \in 0 .. MaxSessions :
                 LET saved == [row[r] EXCEPT !.video = video, !.session = None]
                 IN  saved \in Row /\ [saved EXCEPT !.status = "YOUTUBE_PROCESSING"] \in Row
  <1>1. None \in 0 .. MaxSessions
    BY DEF PipelineAssumption, None
  <1>2. row[r] \in Row
    BY DEF StoreTypes
  <1>3. \A status \in RowStates : RedirectTarget(status) \in RowStates
    BY StateNames DEF RedirectTarget
  <1>4. [row[r] EXCEPT !.status = "YOUTUBE_UPLOADING", !.code = "none"] \in Row
    BY <1>2, StateNames DEF Row, Codes
  <1>5. \A error \in Errors : FailedRow(r, error) \in Row
    BY <1>1, <1>2, StateNames DEF FailedRow, Row, Codes, Errors
  <1>6. ASSUME NEW video \in 0 .. MaxSessions
        PROVE  LET saved == [row[r] EXCEPT !.video = video, !.session = None]
               IN  saved \in Row /\ [saved EXCEPT !.status = "YOUTUBE_PROCESSING"] \in Row
    BY <1>1, <1>2, StateNames DEF Row
  <1> QED BY <1>3, <1>4, <1>5, <1>6

\* Making a video keeps the types of what YouTube holds.
LEMMA InsertTypes ==
    ASSUME StoreTypes, NEW r \in Recordings, NEW s \in 0 .. MaxSessions, Insert(r, s)
    PROVE  /\ inserted' \in [Recordings -> SUBSET (0 .. MaxSessions)]
           /\ live' \in [Recordings -> SUBSET (0 .. MaxSessions)]
  BY DEF StoreTypes, Insert

\* The upload handler keeps TypeInv.
LEMMA UploadTypes ==
    ASSUME PipelineAssumption, TypeInv, UploadNext
    PROVE  TypeInv'
  <1> USE DEF uploadUnchanged, processVars, storageVars, providerVars, At
  <1>0. YoutubeSlots \subseteq Slots
    BY DEF Slots
  <1>1. ASSUME NEW h \in YoutubeSlots, NEW e \in EventIds, UploadStart(h, e) PROVE TypeInv'
    <2>1. Takes(h, e, "youtube.upload") /\ "youtube.upload" \in IntentTypes
      BY <1>1 DEF UploadStart, IntentTypes
    <2>2. CASE NothingToDo(e)
      <3>1. JobInv'
        BY <1>1, <2>1, <2>2, JobTaken, NothingToDoInv DEF UploadStart, TypeInv
      <3> QED BY <1>1, <3>1 DEF TypeInv, StoreTypes, UploadStart
    <2>3. CASE ~NothingToDo(e)
      <3>1. PICK job \in Handler : job.event = e /\ Starts(h, e, job)
        <4>1. row[events[e].rec].status \in RowStates
          BY <2>1, JobTaken DEF Row
        <4>2. "claim" \in JobSteps /\ "redirect" \in JobSteps
          BY StepDefs
        <4>e. events[e] \in Event
          BY <2>1, JobTaken
        <4>3. Job("claim", e) \in Handler /\ Job("claim", e).event = e
          BY <4>e, <4>2, JobType
        <4>4. /\ [Job("redirect", e) EXCEPT !.status = row[events[e].rec].status] \in Handler
              /\ [Job("redirect", e) EXCEPT !.status = row[events[e].rec].status].event = e
          BY <4>e, <4>1, <4>2, JobType
        <4> QED BY <1>1, <2>3, <4>3, <4>4 DEF UploadStart
      <3>2. JobInv'
        BY <1>1, <2>1, <3>1, JobTaken, JobStarts DEF UploadStart, TypeInv
      <3> QED BY <1>1, <3>2 DEF TypeInv, StoreTypes, UploadStart
    <2> QED BY <2>2, <2>3
  <1>2. ASSUME NEW h \in YoutubeSlots, UploadRedirect(h) PROVE TypeInv'
    <2>1. handler[h].step \in JobSteps
      BY <1>2, StepDefs DEF UploadRedirect
    <2>2. row' \in [Recordings -> Row]
      BY <1>0, <1>2, <2>1, HandlerRecord, UploadRows, FieldWritten, RowAfterType
         DEF UploadRedirect, TypeInv
    <2>3. JobInv'
      BY <1>0, <1>2, <2>1, HandlerRecord, JobCompletedWithIntentInv
         DEF UploadRedirect, TypeInv, IntentTypes
    <2> QED BY <1>2, <2>2, <2>3 DEF TypeInv, StoreTypes, UploadRedirect
  <1>3. ASSUME NEW h \in YoutubeSlots, UploadClaim(h) PROVE TypeInv'
    <2>1. handler[h].step \in JobSteps
      BY <1>3, StepDefs DEF UploadClaim
    <2>2. handler[h].rec \in Recordings
      BY <1>0, <2>1, HandlerRecord
    <2>3. CASE JobCompleted(h) /\ UNCHANGED <<row, overtaken>>
      <3>1. JobInv'
        BY <1>0, <1>3, <2>1, <2>3, JobCompletedInv DEF UploadClaim, TypeInv
      <3> QED BY <1>3, <2>3, <3>1 DEF TypeInv, StoreTypes, UploadClaim
    <2>4. CASE ~(JobCompleted(h) /\ UNCHANGED <<row, overtaken>>)
      <3>1. row' \in [Recordings -> Row]
        <4>1. row' = [row EXCEPT ![handler[h].rec] =
                         [row[handler[h].rec] EXCEPT !.status = "YOUTUBE_UPLOADING",
                                                     !.code = "none"]]
          BY <1>3, <2>2, <2>4 DEF UploadClaim, TypeInv, StoreTypes
        <4> QED BY <2>2, <4>1, UploadRows, RowWritten DEF TypeInv
      <3>2. row[handler[h].rec].session \in 0 .. MaxSessions
        BY <2>2 DEF TypeInv, StoreTypes, Row
      <3>3. PICK job \in Handler :
                job.event = handler[h].event /\ handler' = [handler EXCEPT ![h] = job]
        <4>0. /\ h \in Slots /\ JobTypes
              /\ "fail" \in JobSteps /\ "session" \in JobSteps /\ "OTHER" \in Errors
          BY <1>0, StepDefs DEF TypeInv, JobInv, Errors
        <4>1. /\ [handler[h] EXCEPT !.step = "fail", !.error = "OTHER"] \in Handler
              /\ [handler[h] EXCEPT !.step = "fail", !.error = "OTHER"].event = handler[h].event
          BY <2>1, <4>0, HandlerPatched
        <4>2. /\ [handler[h] EXCEPT !.step = "session",
                                    !.session = row[handler[h].rec].session] \in Handler
              /\ [handler[h] EXCEPT !.step = "session",
                                    !.session = row[handler[h].rec].session].event
                    = handler[h].event
          BY <2>1, <3>2, <4>0, HandlerPatched
        <4> QED BY <1>0, <1>3, <2>4, <4>1, <4>2 DEF UploadClaim, TypeInv, JobInv, JobTypes
      <3>4. UNCHANGED <<events, crashes>>
        BY <1>3, <2>4 DEF UploadClaim
      <3>5. JobInv'
        BY <1>0, <2>1, <3>3, <3>4, JobGoesOn DEF TypeInv
      <3>6. overtaken' \subseteq Recordings
        BY <1>3, <2>2 DEF TypeInv, StoreTypes, UploadClaim
      <3> QED BY <1>3, <3>1, <3>5, <3>6 DEF TypeInv, StoreTypes, UploadClaim
    <2> QED BY <2>3, <2>4
  <1>4. ASSUME NEW h \in YoutubeSlots, OpenSession(h) PROVE TypeInv'
    <2> DEFINE r == handler[h].rec
    <2>1. handler[h].step \in JobSteps
      BY <1>4, StepDefs DEF OpenSession
    <2>2. r \in Recordings
      BY <1>0, <2>1, HandlerRecord
    <2>3. opened[r] + 1 \in 0 .. MaxSessions
      BY <1>4, <2>2 DEF OpenSession, TypeInv, StoreTypes, PipelineAssumption
    <2>4. opened' \in [Recordings -> 0 .. MaxSessions]
      BY <1>4, <2>2, <2>3 DEF OpenSession, TypeInv, StoreTypes
    <2>5. /\ [handler[h] EXCEPT !.step = "persist", !.session = opened[r] + 1] \in Handler
          /\ [handler[h] EXCEPT !.step = "persist", !.session = opened[r] + 1].event
                = handler[h].event
      BY <1>0, <2>1, <2>3, HandlerPatched, StepDefs DEF TypeInv, JobInv
    <2>6. handler' = [handler EXCEPT ![h] =
                         [handler[h] EXCEPT !.step = "persist", !.session = opened[r] + 1]]
      BY <1>0, <1>4 DEF OpenSession, TypeInv, JobInv, JobTypes
    <2>7. JobInv'
      BY <1>0, <1>4, <2>1, <2>5, <2>6, JobGoesOn DEF OpenSession, TypeInv
    <2> QED BY <1>4, <2>4, <2>7 DEF TypeInv, StoreTypes, OpenSession
  <1>5. ASSUME NEW h \in YoutubeSlots, PersistSession(h) PROVE TypeInv'
    <2>1. handler[h].step \in JobSteps
      BY <1>5, StepDefs DEF PersistSession
    <2>2. row' \in [Recordings -> Row]
      BY <1>0, <1>5, <2>1, HandlerRecord, FieldWritten DEF PersistSession, TypeInv, StoreTypes
    <2>3. JobInv'
      BY <1>0, <1>5, <2>1, GoesInv, StepDefs DEF PersistSession, TypeInv
    <2> QED BY <1>5, <2>2, <2>3 DEF TypeInv, StoreTypes, PersistSession
  <1>6. ASSUME NEW h \in YoutubeSlots, ProbeSession(h) PROVE TypeInv'
    <2>1. handler[h].step \in JobSteps
      BY <1>6, StepDefs DEF ProbeSession
    <2>2. JobInv'
      BY <1>0, <1>6, <2>1, GoesInv, FailsInv, StepDefs DEF ProbeSession, TypeInv, Errors
    <2> QED BY <1>6, <2>2 DEF TypeInv, StoreTypes, ProbeSession
  <1>7. ASSUME NEW h \in YoutubeSlots, SendAccepted(h) \/ SendUnclear(h) \/ SendPartial(h)
        PROVE  TypeInv'
    <2>1. handler[h].step \in JobSteps
      BY <1>7, StepDefs DEF SendAccepted, SendUnclear, SendPartial, Sending
    <2>2. /\ inserted' \in [Recordings -> SUBSET (0 .. MaxSessions)]
          /\ live' \in [Recordings -> SUBSET (0 .. MaxSessions)]
      <3>1. CASE UNCHANGED <<inserted, live>>
        BY <3>1 DEF TypeInv, StoreTypes
      <3>2. CASE Insert(handler[h].rec, handler[h].session)
        BY <1>0, <2>1, <3>2, HandlerRecord, InsertTypes DEF TypeInv
      <3> QED BY <1>7, <3>1, <3>2 DEF SendAccepted, SendUnclear, SendPartial
    <2>3. CASE JobCompleted(h)
      <3>1. JobInv'
        BY <1>0, <1>7, <2>1, <2>3, JobCompletedInv
           DEF SendAccepted, SendUnclear, SendPartial, Sending, TypeInv
      <3> QED BY <1>7, <2>2, <3>1
              DEF TypeInv, StoreTypes, SendAccepted, SendUnclear, SendPartial, Sending
    <2>4. CASE (Goes(h, "save") \/ Fails(h, "AMBIGUOUS")) /\ UNCHANGED events
      <3>1. JobInv'
        BY <1>0, <1>7, <2>1, <2>4, GoesInv, FailsInv, StepDefs
           DEF SendAccepted, SendUnclear, SendPartial, Sending, TypeInv, Errors
      <3> QED BY <1>7, <2>2, <3>1
              DEF TypeInv, StoreTypes, SendAccepted, SendUnclear, SendPartial, Sending
    <2> QED BY <1>7, <2>3, <2>4 DEF SendAccepted, SendUnclear, SendPartial
  <1>8. ASSUME NEW h \in YoutubeSlots, NEW error \in {"QUOTA", "OTHER", "REAUTH"},
               UploadThrows(h, error)
        PROVE  TypeInv'
    <2>1. handler[h].step \in JobSteps
      BY <1>8, StepDefs DEF UploadThrows
    <2>2. JobInv'
      BY <1>0, <1>8, <2>1, FailsInv DEF UploadThrows, TypeInv, Errors
    <2> QED BY <1>8, <2>2 DEF TypeInv, StoreTypes, UploadThrows
  <1>9. ASSUME NEW h \in YoutubeSlots, SaveVideo(h) PROVE TypeInv'
    <2>1. handler[h].step \in JobSteps
      BY <1>9, StepDefs DEF SaveVideo
    <2>2. row' \in [Recordings -> Row]
      <3> DEFINE r == handler[h].rec
                 saved == [row[r] EXCEPT !.video = handler[h].session, !.session = None]
      <3>1. r \in Recordings /\ handler[h].session \in 0 .. MaxSessions
        BY <1>0, <2>1, HandlerRecord
      <3>2. saved \in Row /\ [saved EXCEPT !.status = "YOUTUBE_PROCESSING"] \in Row
        BY <3>1, UploadRows DEF TypeInv
      <3>3. \E new \in Row : row' = [row EXCEPT ![r] = new]
        BY <1>9, <3>2 DEF SaveVideo
      <3> QED BY <3>1, <3>3, RowWritten DEF TypeInv
    <2>3. JobInv'
      BY <1>0, <1>9, <2>1, HandlerRecord, JobCompletedInv, JobCompletedWithIntentInv
         DEF SaveVideo, TypeInv, IntentTypes
    <2> QED BY <1>9, <2>2, <2>3 DEF TypeInv, StoreTypes, SaveVideo
  <1>10. ASSUME NEW h \in YoutubeSlots, UploadFail(h) PROVE TypeInv'
    <2>1. handler[h].step \in JobSteps
      BY <1>10, StepDefs DEF UploadFail
    <2>2. row' \in [Recordings -> Row]
      BY <1>0, <1>10, <2>1, HandlerRecord, UploadRows, RowAfterType DEF UploadFail, TypeInv
    <2>3. reauth' \subseteq Owners
      BY <1>10 DEF UploadFail, ConnectionsAfter, TypeInv, StoreTypes
    <2>4. JobInv'
      BY <1>0, <1>10, <2>1, JobCompletedInv DEF UploadFail, TypeInv
    <2> QED BY <1>10, <2>2, <2>3, <2>4 DEF TypeInv, StoreTypes, UploadFail
  <1>11. ASSUME NEW r \in Recordings, SessionExpires(r) PROVE TypeInv'
    <2>1. expired' \in [Recordings -> SUBSET (0 .. MaxSessions)]
      BY <1>11 DEF SessionExpires, TypeInv, StoreTypes, Row
    <2>2. JobInv'
      BY <1>11, JobsUntouched DEF SessionExpires, TypeInv
    <2> QED BY <1>11, <2>1, <2>2 DEF TypeInv, StoreTypes, SessionExpires
  <1> QED
    BY <1>1, <1>2, <1>3, <1>4, <1>5, <1>6, <1>7, <1>8, <1>9, <1>10, <1>11 DEF UploadNext
-----------------------------------------------------------------------------
(* The poll handler *)

\* The poll handler keeps TypeInv.
LEMMA PollTypes ==
    ASSUME PipelineAssumption, TypeInv, PollNext
    PROVE  TypeInv'
  <1> USE DEF pollUnchanged, processVars, storageVars, providerVars, At
  <1>0. YoutubeSlots \subseteq Slots
    BY DEF Slots
  <1>1. ASSUME NEW h \in YoutubeSlots, NEW e \in EventIds, PollStart(h, e) PROVE TypeInv'
    <2>1. Takes(h, e, "youtube.poll-processing") /\ "youtube.poll-processing" \in IntentTypes
      BY <1>1 DEF PollStart, IntentTypes
    <2>2. CASE NothingToDo(e)
      <3>1. JobInv'
        BY <1>1, <2>1, <2>2, JobTaken, NothingToDoInv DEF PollStart, TypeInv
      <3> QED BY <1>1, <3>1 DEF TypeInv, StoreTypes, PollStart
    <2>3. CASE ~NothingToDo(e)
      <3>1. row[events[e].rec].video \in 0 .. MaxSessions
        BY <2>1, JobTaken DEF Row
      <3>2. /\ [Job("poll", e) EXCEPT !.video = row[events[e].rec].video] \in Handler
            /\ [Job("poll", e) EXCEPT !.video = row[events[e].rec].video].event = e
        <4>1. "poll" \in JobSteps
          BY StepDefs
        <4>2. events[e] \in Event
          BY <2>1, JobTaken
        <4> QED BY <3>1, <4>1, <4>2, JobType
      <3>3. JobInv'
        BY <1>1, <2>1, <2>3, <3>2, JobTaken, JobStarts DEF PollStart, TypeInv
      <3> QED BY <1>1, <3>3 DEF TypeInv, StoreTypes, PollStart
    <2> QED BY <2>2, <2>3
  <1>2. ASSUME NEW h \in YoutubeSlots, PollReady(h) \/ PollFailed(h) \/ PollPrivate(h)
        PROVE  TypeInv'
    <2> DEFINE r == handler[h].rec
               hidden == [row[r] EXCEPT !.privacy = "private"]
    <2>1. handler[h].step \in JobSteps
      BY <1>2, StepDefs DEF PollReady, PollFailed, PollPrivate
    <2>2. r \in Recordings /\ row[r] \in Row
      BY <1>0, <2>1, HandlerRecord
    <2>3. /\ [row[r] EXCEPT !.status = "READY", !.privacy = "unlisted"] \in Row
          /\ [row[r] EXCEPT !.status = "FAILED", !.code = "OTHER"] \in Row
          /\ hidden \in Row /\ [hidden EXCEPT !.status = "FAILED", !.code = "OTHER"] \in Row
      BY <2>2, StateNames DEF Row, Codes
    <2>4. row' \in [Recordings -> Row]
      <3>1. CASE PollReady(h) \/ PollFailed(h)
        BY <2>2, <2>3, <3>1, RowAfterType DEF PollReady, PollFailed, TypeInv
      <3>2. CASE PollPrivate(h)
        <4>1. \E new \in Row : row' = [row EXCEPT ![r] = new]
          BY <2>3, <3>2 DEF PollPrivate
        <4> QED BY <2>2, <4>1, RowWritten DEF TypeInv
      <3> QED BY <1>2, <3>1, <3>2
    <2>5. JobInv'
      BY <1>0, <1>2, <2>1, JobCompletedInv DEF PollReady, PollFailed, PollPrivate, TypeInv
    <2> QED BY <1>2, <2>4, <2>5 DEF TypeInv, StoreTypes, PollReady, PollFailed, PollPrivate
  <1>3. ASSUME NEW h \in YoutubeSlots, PollAgain(h) PROVE TypeInv'
    <2>1. handler[h].step \in JobSteps
      BY <1>3, StepDefs DEF PollAgain
    <2>2. JobInv'
      BY <1>0, <1>3, <2>1, HandlerRecord, JobCompletedWithIntentInv
         DEF PollAgain, TypeInv, IntentTypes
    <2> QED BY <1>3, <2>2 DEF TypeInv, StoreTypes, PollAgain
  <1> QED BY <1>1, <1>2, <1>3 DEF PollNext
-----------------------------------------------------------------------------
(* The jobs that take things away *)

\* The deletion, cleanup and expiry handlers keep TypeInv.
LEMMA CleanupTypes ==
    ASSUME PipelineAssumption, TypeInv, CleanupNext
    PROVE  TypeInv'
  <1> USE DEF cleanupUnchanged, processVars, At
  <1>0. YoutubeSlots \subseteq Slots /\ MaintenanceSlots \subseteq Slots
    BY DEF Slots
  <1>1. ASSUME NEW h \in YoutubeSlots, NEW e \in EventIds, DeleteStart(h, e) PROVE TypeInv'
    <2>1. Takes(h, e, "youtube.delete") /\ "youtube.delete" \in IntentTypes
      BY <1>1 DEF DeleteStart, IntentTypes
    <2>2. CASE NothingToDo(e)
      <3>1. JobInv'
        BY <1>1, <2>1, <2>2, JobTaken, NothingToDoInv DEF DeleteStart, TypeInv
      <3> QED BY <1>1, <3>1 DEF TypeInv, StoreTypes, DeleteStart
    <2>3. CASE ~NothingToDo(e)
      <3>1. row[events[e].rec].video \in 0 .. MaxSessions
        BY <2>1, JobTaken DEF Row
      <3>2. /\ [Job("delete", e) EXCEPT !.video = row[events[e].rec].video] \in Handler
            /\ [Job("delete", e) EXCEPT !.video = row[events[e].rec].video].event = e
        <4>1. "delete" \in JobSteps
          BY StepDefs
        <4>2. events[e] \in Event
          BY <2>1, JobTaken
        <4> QED BY <3>1, <4>1, <4>2, JobType
      <3>3. JobInv'
        BY <1>1, <2>1, <2>3, <3>2, JobTaken, JobStarts DEF DeleteStart, TypeInv
      <3> QED BY <1>1, <3>3 DEF TypeInv, StoreTypes, DeleteStart
    <2> QED BY <2>2, <2>3
  <1>2. ASSUME NEW h \in YoutubeSlots, RemoveVideo(h) PROVE TypeInv'
    <2>1. handler[h].step \in JobSteps
      BY <1>2, StepDefs DEF RemoveVideo
    <2>2. live' \in [Recordings -> SUBSET (0 .. MaxSessions)]
      BY <1>2 DEF RemoveVideo, TypeInv, StoreTypes
    <2>3. JobInv'
      BY <1>0, <1>2, <2>1, GoesInv, StepDefs DEF RemoveVideo, TypeInv
    <2> QED BY <1>2, <2>2, <2>3 DEF TypeInv, StoreTypes, RemoveVideo
  <1>3. ASSUME NEW h \in YoutubeSlots, DeleteThrows(h) PROVE TypeInv'
    <2>1. handler[h].step \in JobSteps
      BY <1>3, StepDefs DEF DeleteThrows
    <2>2. JobInv'
      BY <1>0, <1>3, <2>1, JobFailedInv DEF DeleteThrows, TypeInv
    <2> QED BY <1>3, <2>2 DEF TypeInv, StoreTypes, DeleteThrows
  <1>4. ASSUME NEW h \in YoutubeSlots, ForgetVideo(h) PROVE TypeInv'
    <2>1. handler[h].step \in JobSteps
      BY <1>4, StepDefs DEF ForgetVideo
    <2>2. handler[h].rec \in Recordings /\ row[handler[h].rec] \in Row
      BY <1>0, <2>1, HandlerRecord
    <2>3. [row[handler[h].rec] EXCEPT !.video = None, !.privacy = "null"] \in Row
      <3>1. None \in 0 .. MaxSessions
        BY DEF None, PipelineAssumption
      <3> QED BY <2>2, <3>1 DEF Row
    <2>4. row' = [row EXCEPT ![handler[h].rec] =
                     [row[handler[h].rec] EXCEPT !.video = None, !.privacy = "null"]]
      BY <1>4, <2>2 DEF ForgetVideo, TypeInv, StoreTypes
    <2>5. row' \in [Recordings -> Row]
      BY <2>2, <2>3, <2>4, RowWritten DEF TypeInv
    <2>6. JobInv'
      BY <1>0, <1>4, <2>1, GoesInv, StepDefs DEF ForgetVideo, TypeInv
    <2> QED BY <1>4, <2>5, <2>6 DEF TypeInv, StoreTypes, ForgetVideo
  <1>5. ASSUME NEW h \in MaintenanceSlots, NEW e \in EventIds, CleanupStart(h, e) PROVE TypeInv'
    <2>1. Takes(h, e, "storage.cleanup") /\ "storage.cleanup" \in IntentTypes
      BY <1>5 DEF CleanupStart, IntentTypes
    <2>2. row[events[e].rec].key \in Keys
      BY <2>1, JobTaken DEF Row
    <2>3. Job("finish", e) \in Handler /\ Job("finish", e).event = e
      BY <2>1, JobTaken, JobType, StepDefs
    <2>4. /\ [Job("remove", e) EXCEPT !.key = row[events[e].rec].key] \in Handler
          /\ [Job("remove", e) EXCEPT !.key = row[events[e].rec].key].event = e
      <3>1. "remove" \in JobSteps
        BY StepDefs
      <3>2. events[e] \in Event
        BY <2>1, JobTaken
      <3> QED BY <2>2, <3>1, <3>2, JobType
    <2>5. JobInv'
      BY <1>5, <2>1, <2>3, <2>4, JobTaken, JobStarts DEF CleanupStart, TypeInv
    <2> QED BY <1>5, <2>5 DEF TypeInv, StoreTypes, CleanupStart
  <1>6. ASSUME NEW h \in MaintenanceSlots, RemoveObject(h) PROVE TypeInv'
    <2>1. handler[h].step \in JobSteps
      BY <1>6, StepDefs DEF RemoveObject
    <2>2. object' \in [Recordings -> BOOLEAN]
      BY <1>0, <1>6, <2>1, HandlerRecord DEF RemoveObject, TypeInv, StoreTypes
    <2>3. JobInv'
      BY <1>0, <1>6, <2>1, GoesInv, StepDefs DEF RemoveObject, TypeInv
    <2> QED BY <1>6, <2>2, <2>3 DEF TypeInv, StoreTypes, RemoveObject
  <1>7. ASSUME NEW h \in MaintenanceSlots, ForgetKey(h) PROVE TypeInv'
    <2>1. handler[h].step \in JobSteps
      BY <1>7, StepDefs DEF ForgetKey
    <2>2. handler[h].rec \in Recordings
      BY <1>0, <2>1, HandlerRecord
    <2>3. row' \in [Recordings -> Row]
      BY <1>7, <2>2, FieldWritten DEF ForgetKey, TypeInv, StoreTypes, Keys
    <2>4. JobInv'
      BY <1>0, <1>7, <2>1, GoesInv, StepDefs DEF ForgetKey, TypeInv
    <2> QED BY <1>7, <2>3, <2>4 DEF TypeInv, StoreTypes, ForgetKey
  <1>8. ASSUME NEW h \in Slots, FinishCheck(h) PROVE TypeInv'
    <2>1. handler[h].step \in JobSteps
      BY <1>8, StepDefs DEF FinishCheck
    <2>2. JobInv'
      BY <1>8, <2>1, GoesInv, JobCompletedInv, StepDefs DEF FinishCheck, TypeInv
    <2> QED BY <1>8, <2>2 DEF TypeInv, StoreTypes, FinishCheck
  <1>9. ASSUME NEW h \in Slots, FinishDelete(h) PROVE TypeInv'
    <2>1. handler[h].step \in JobSteps
      BY <1>9, StepDefs DEF FinishDelete
    <2>2. row' \in [Recordings -> Row]
      BY <1>9, <2>1, HandlerRecord, FieldWritten, StateNames, RowAfterType
         DEF FinishDelete, TypeInv
    <2>3. JobInv'
      BY <1>9, <2>1, JobCompletedInv DEF FinishDelete, TypeInv
    <2> QED BY <1>9, <2>2, <2>3 DEF TypeInv, StoreTypes, FinishDelete
  <1>10. ASSUME NEW h \in MaintenanceSlots, NEW r \in Recordings, ExpireRow(h, r) PROVE TypeInv'
    <2>1. [row[r] EXCEPT !.status = "EXPIRED", !.key = "null"] \in Row
      <3>1. row[r] \in Row /\ "EXPIRED" \in RowStates
        BY StateNames DEF TypeInv, StoreTypes
      <3> QED BY <3>1 DEF Row, Keys
    <2>2. row' = [row EXCEPT ![r] = [row[r] EXCEPT !.status = "EXPIRED", !.key = "null"]]
      BY <1>10 DEF ExpireRow, TypeInv, StoreTypes
    <2>3. row' \in [Recordings -> Row]
      BY <2>1, <2>2, RowWritten DEF TypeInv
    <2>4. [step |-> "intent", rec |-> r] \in Sweeper
      BY StepDefs DEF Sweeper
    <2>5. JobInv'
      BY <1>0, <1>10, <2>4, SweeperInv DEF ExpireRow, TypeInv
    <2> QED BY <1>10, <2>3, <2>5 DEF TypeInv, StoreTypes, ExpireRow
  <1>11. ASSUME NEW h \in MaintenanceSlots, ExpireIntent(h) PROVE TypeInv'
    <2>1. handler[h].rec \in Recordings
      BY <1>0, <1>11, HandlerCases DEF ExpireIntent, TypeInv, JobInv, Sweeper
    <2>2. PICK e \in Free : events' = [events EXCEPT ![e] = Intent("storage.cleanup", handler[h].rec)]
      BY <1>11 DEF ExpireIntent, insertOutboxEvent
    <2>3. Intent("storage.cleanup", handler[h].rec) \in Event
      BY <2>1, IntentType DEF IntentTypes
    <2>4. JobInv'
      BY <1>0, <1>11, <2>2, <2>3, SlotFreed DEF ExpireIntent, TypeInv
    <2> QED BY <1>11, <2>4 DEF TypeInv, StoreTypes, ExpireIntent
  <1> QED
    BY <1>1, <1>2, <1>3, <1>4, <1>5, <1>6, <1>7, <1>8, <1>9, <1>10, <1>11 DEF CleanupNext
-----------------------------------------------------------------------------
(* The worker process *)

\* An event outside the jobs that run is replaced.
LEMMA EventReplaced ==
    ASSUME JobInv, NEW e \in EventIds, events[e].state # "active", NEW new \in Event \cup {NoEvent},
           events' = [events EXCEPT ![e] = new], UNCHANGED <<handler, crashes>>
    PROVE  JobInv'
  <1>1. JobTypes'
    BY DEF JobInv, JobTypes
  <1>2. ASSUME NEW g \in Slots, handler[g].step \in JobSteps
        PROVE  handler[g].event \in EventIds /\ handler[g].event # e
    BY <1>2, HeldJob DEF JobInv, JobsHeld
  <1>3. JobsHeld'
    BY <1>2 DEF JobInv, JobsHeld, JobTypes
  <1> QED BY <1>1, <1>3 DEF JobInv

\* The scanner's and the recovery's insertions keep JobInv.
LEMMA ScanInsertInv ==
    ASSUME PipelineAssumption, TypeInv, ScanInsert
    PROVE  JobInv'
  <1> USE DEF workerUnchanged
  <1>1. PICK place \in [scan -> Free] :
            events' = [e \in EventIds |->
                          IF \E r \in scan : place[r] = e
                          THEN Intent("youtube.upload", CHOOSE r \in scan : place[r] = e)
                          ELSE events[e]]
    BY DEF ScanInsert
  <1>2. ASSUME NEW e \in EventIds, \E r \in scan : place[r] = e
        PROVE  Intent("youtube.upload", CHOOSE r \in scan : place[r] = e) \in Event /\ e \in Free
    <2>1. (CHOOSE r \in scan : place[r] = e) \in Recordings
      BY <1>2 DEF TypeInv, StoreTypes
    <2>2. e \in Free
      BY <1>1, <1>2
    <2> QED BY <2>1, <2>2, IntentType DEF IntentTypes
  <1>3. JobTypes'
    BY <1>1, <1>2 DEF ScanInsert, TypeInv, JobInv, JobTypes
  <1>4. ASSUME NEW g \in Slots, handler[g].step \in JobSteps
        PROVE  /\ handler[g].event \in EventIds
               /\ events'[handler[g].event] = events[handler[g].event]
    BY <1>1, <1>2, <1>4, HeldJob DEF TypeInv
  <1>5. JobsHeld'
    BY <1>4 DEF ScanInsert, TypeInv, JobInv, JobsHeld
  <1> QED BY <1>3, <1>5 DEF JobInv

\* A crash empties every slot and leaves no active job.
LEMMA CrashInv ==
    ASSUME PipelineAssumption, TypeInv, Crash
    PROVE  JobInv'
  <1>1. ASSUME NEW ev \in Event
        PROVE  AfterStall(ev) \in Event \cup {NoEvent}
    <2>1. ASSUME ev.stalls < MaxStalls
          PROVE  ev.stalls + 1 \in 0 .. MaxStalls
      BY <2>1 DEF Event, PipelineAssumption
    <2>2. ASSUME NEW n \in 0 .. MaxStalls
          PROVE  [ev EXCEPT !.state = "waiting", !.stalls = n] \in Event
      BY DEF Event, JobStates
    <2> QED BY <2>1, <2>2 DEF AfterStall
  <1>2. AfterStall(NoEvent) = NoEvent
    BY DEF AfterStall
  <1>3. JobTypes'
    BY <1>1, <1>2 DEF Crash, TypeInv, JobInv, JobTypes
  <1>4. JobsHeld'
    BY StepDefs DEF Crash, JobsHeld, Idle
  <1> QED BY <1>3, <1>4 DEF JobInv

\* Dispatch, scanner, crash and recovery keep TypeInv.
LEMMA WorkerTypes ==
    ASSUME PipelineAssumption, TypeInv, WorkerNext
    PROVE  TypeInv'
  <1> USE DEF workerUnchanged, processVars, storageVars, providerVars
  <1>1. ASSUME NEW e \in EventIds, Dispatch(e) \/ Acknowledge(e) PROVE TypeInv'
    <2>1. events[e] \in Event /\ events[e].state # "active"
      BY <1>1, EventCases DEF Dispatch, Acknowledge, TypeInv, JobInv
    <2>2. [events[e] EXCEPT !.state = "waiting"] \in Event
      BY <2>1 DEF Event, JobStates
    <2>3. \E new \in Event \cup {NoEvent} : events' = [events EXCEPT ![e] = new]
      BY <1>1, <2>2 DEF Dispatch, Acknowledge, TypeInv, JobInv, JobTypes
    <2>4. JobInv'
      BY <1>1, <2>1, <2>3, EventReplaced DEF Dispatch, Acknowledge, TypeInv
    <2> QED BY <1>1, <2>4 DEF TypeInv, StoreTypes, Dispatch, Acknowledge
  <1>2. CASE ScanSelect
    <2>1. JobInv'
      BY <1>2, JobsUntouched DEF ScanSelect, TypeInv
    <2> QED BY <1>2, <2>1 DEF TypeInv, StoreTypes, ScanSelect
  <1>3. CASE ScanInsert
    BY <1>3, ScanInsertInv DEF TypeInv, StoreTypes, ScanInsert
  <1>4. ASSUME NEW r \in Recordings, DeferralLapses(r) PROVE TypeInv'
    <2>1. [row[r] EXCEPT !.deferred = FALSE] \in Row
      <3>1. row[r] \in Row
        BY DEF TypeInv, StoreTypes
      <3> QED BY <3>1 DEF Row
    <2>2. row' \in [Recordings -> Row]
      BY <1>4, <2>1 DEF TypeInv, StoreTypes, DeferralLapses
    <2>3. JobInv'
      BY <1>4, JobsUntouched DEF DeferralLapses, TypeInv
    <2> QED BY <1>4, <2>2, <2>3 DEF TypeInv, StoreTypes, DeferralLapses
  <1>5. ASSUME NEW r \in Recordings, RecoverProcessing(r) \/ RecoverStale(r) PROVE TypeInv'
    <2>1. JobInv'
      BY <1>5, IntentInserted DEF RecoverProcessing, RecoverStale, TypeInv, IntentTypes
    <2> QED BY <1>5, <2>1 DEF TypeInv, StoreTypes, RecoverProcessing, RecoverStale
  <1>6. CASE Crash
    BY <1>6, CrashInv DEF TypeInv, StoreTypes, Crash
  <1>7. CASE RecoverSelectProcessing \/ RecoverSelectStale \/ StartWorkers
    <2>1. JobInv'
      BY <1>7, JobsUntouched DEF RecoverSelectProcessing, RecoverSelectStale, StartWorkers, TypeInv
    <2> QED BY <1>7, <2>1
            DEF TypeInv, StoreTypes, RecoverSelectProcessing, RecoverSelectStale, StartWorkers
  <1>8. ASSUME NEW o \in Owners, Reconnect(o) PROVE TypeInv'
    <2>1. JobInv'
      BY <1>8, JobsUntouched DEF Reconnect, TypeInv
    <2> QED BY <1>8, <2>1 DEF TypeInv, StoreTypes, Reconnect
  <1> QED BY <1>1, <1>2, <1>3, <1>4, <1>5, <1>6, <1>7, <1>8 DEF WorkerNext
-----------------------------------------------------------------------------
(* Type correctness *)

\* TypeInv holds initially.
LEMMA InitTypes ==
    ASSUME PipelineAssumption, Init
    PROVE  TypeInv
  <1>1. JobInv
    BY StepDefs DEF Init, JobInv, JobTypes, JobsHeld, Idle
  <1>2. row \in [Recordings -> Row]
    BY EmptyRowType DEF Init
  <1>3. 0 \in 0 .. MaxSessions
    BY DEF PipelineAssumption
  <1>4. StoreTypes
    BY <1>2, <1>3 DEF Init, StoreTypes
  <1> QED BY <1>1, <1>4 DEF TypeInv

\* Every step keeps TypeInv.
LEMMA TypesPreserved ==
    ASSUME PipelineAssumption, TypeInv, [Next]_vars
    PROVE  TypeInv'
  <1>1. CASE UNCHANGED vars
    <2>1. JobInv'
      BY <1>1, JobsUntouched DEF vars, TypeInv
    <2> QED BY <1>1, <2>1 DEF vars, TypeInv, StoreTypes
  <1>2. CASE Next
    BY <1>2, RequestTypes, UploadTypes, PollTypes, CleanupTypes, WorkerTypes DEF Next
  <1> QED BY <1>1, <1>2

\* For every number of recordings, slots, requests, attempts and crashes, every
\* state is well typed and every running handler of the worker holds a distinct
\* active job: no two slots ever run the same delivery.
THEOREM TypesInvariant == Spec => []TypeInv
  <1>1. Init => TypeInv
    BY InitTypes, PipelineAssumption
  <1>2. TypeInv /\ [Next]_vars => TypeInv'
    BY TypesPreserved, PipelineAssumption
  <1> QED BY <1>1, <1>2, PTL DEF Spec

\* Every reachable state of the composed pipeline is well typed, whatever the
\* values of the constants: what the run core checks on one instance.
THEOREM TypeCorrect == Spec => []TypeOK
  <1>1. TypeInv => TypeOK
    BY TypeInvIsTypeOK
  <1> QED BY <1>1, TypesInvariant, PTL
=============================================================================
