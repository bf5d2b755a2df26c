------------------------ MODULE PipelineSafetyProofs -------------------------
(***************************************************************************)
(* UploadExclusive, VideoWhenProcessed and SourceRetained of               *)
(* RecordingPipeline hold for every number of recordings, requests, slots, *)
(* intents, retries and crashes.  Each is made inductive by saying what    *)
(* the jobs and requests in flight may rely on.                            *)
(***************************************************************************)
EXTENDS RecordingPipelineProofs

\* No source is wanted any more; nothing leaves this set.
RetiredStates == GoneStates \cup {"EXPIRED"}

\* The event is in use.
Live(e) == events[e] # NoEvent

\* A job may delete the video only of a recording that is being deleted.
DeletesGone ==
    /\ \A e \in EventIds : Live(e) /\ events[e].type = "youtube.delete" =>
          row[events[e].rec].status \in GoneStates
    /\ \A h \in Slots : handler[h].step \in DeleteSteps =>
          row[handler[h].rec].status \in GoneStates

\* What a handler of youtube.upload knows at its steps.
UploadKnows ==
    \A h \in Slots :
        /\ handler[h].step = "redirect" =>
              \/ row[handler[h].rec].video # None
              \/ row[handler[h].rec].status \in GoneStates
        /\ handler[h].step \in {"persist", "send", "save"} => handler[h].session # None

\* A row not inserted yet has no video.
NoRowNoVideo == \A r \in Recordings : row[r].status = NoRow => row[r].video = None

\* The inductive invariant of uploads.
UploadInv == UploadExclusive /\ DeletesGone /\ UploadKnows /\ NoRowNoVideo

\* A video id that was saved, or is about to be, is one YouTube gave.
VideosAreReal ==
    /\ \A r \in Recordings : row[r].video # None => row[r].video \in inserted[r]
    /\ \A h \in Slots : handler[h].step = "save" => handler[h].session \in inserted[handler[h].rec]

\* The inductive invariant of videos.
VideoInv == VideoWhenProcessed /\ VideosAreReal

\* The rows a completion request has seen its object for.
Checked(r) ==
    /\ row[r].status # NoRow
    /\ row[r].status = "STAGING" => row[r].key = "object" /\ object[r]

\* A completion that checked the object will find it when it commits.
CompletionChecked ==
    \A q \in Requests : request[q].op = "complete" => Checked(request[q].rec)

\* The rows whose source may go.
Retired(r) == row[r].status \in RetiredStates

\* The slots on their way to forget a key or an expired object.
Forgetting(h) == handler[h].step \in CleanupSteps \cup ExpireSteps

\* Objects are removed, and keys forgotten, of retired recordings only.
CleansRetired ==
    /\ \A e \in EventIds :
          Live(e) /\ events[e].type = "storage.cleanup" => Retired(events[e].rec)
    /\ \A h \in Slots : Forgetting(h) => Retired(handler[h].rec)

\* The inductive invariant of the source object.
SourceInv == SourceRetained /\ CompletionChecked /\ CleansRetired
-----------------------------------------------------------------------------
(* What the handlers and the worker leave alone *)

\* The event keeps its type and its recording.
SameJob(e) == Live(e) /\ events'[e].type = events[e].type /\ events'[e].rec = events[e].rec

\* A step inserts intents of these types only.
InsertsOnly(types) ==
    \A e \in EventIds : events'[e] # NoEvent => SameJob(e) \/ events'[e].type \in types

\* A step moves handlers to these steps only.
MovesOnly(steps) ==
    \A h \in Slots : handler'[h] = handler[h] \/ handler'[h].step \in steps \cup {"idle"}

\* A step keeps the key and the video, and moves the status along the upload path.
PathMoves ==
    {<<"QUEUED", "YOUTUBE_UPLOADING">>, <<"YOUTUBE_UPLOADING", "YOUTUBE_PROCESSING">>,
     <<"YOUTUBE_UPLOADING", "QUEUED">>, <<"YOUTUBE_UPLOADING", "FAILED">>,
     <<"YOUTUBE_PROCESSING", "READY">>, <<"YOUTUBE_PROCESSING", "FAILED">>}

\* The recording moved at most along the published transitions, or was created.
OnPath(r) ==
    /\ row'[r].key = row[r].key
    /\ \/ row'[r].status = row[r].status
       \/ <<row[r].status, row'[r].status>> \in PathMoves

\* What remains of an ended job is the same job.
LEMMA ReturnedSame ==
    ASSUME JobInv, NEW e \in EventIds, events[e] \in Event, Returned(e) # NoEvent
    PROVE  Returned(e).type = events[e].type /\ Returned(e).rec = events[e].rec
  BY DEF Returned, Event

\* What JobCompleted does to slots and events.
LEMMA JobCompletedFrame ==
    ASSUME JobInv, NEW h \in Slots, handler[h].step \in JobSteps, JobCompleted(h)
    PROVE  InsertsOnly({}) /\ MovesOnly({})
  <1>1. handler[h].event \in EventIds /\ events[handler[h].event] \in Event
    BY HeldJob
  <1>2. Live(handler[h].event)
    BY <1>1, EventCases DEF Live, JobInv
  <1>3. InsertsOnly({})
    BY <1>1, <1>2, ReturnedSame DEF InsertsOnly, SameJob, Live, JobCompleted, JobInv, JobTypes
  <1>4. MovesOnly({})
    BY DEF MovesOnly, JobCompleted, Idle, JobInv, JobTypes
  <1> QED BY <1>3, <1>4

\* What JobFailed does to slots and events.
LEMMA JobFailedFrame ==
    ASSUME JobInv, NEW h \in Slots, handler[h].step \in JobSteps, JobFailed(h)
    PROVE  InsertsOnly({}) /\ MovesOnly({})
  <1>1. handler[h].event \in EventIds /\ events[handler[h].event] \in Event
    BY HeldJob
  <1>2. Live(handler[h].event)
    BY <1>1, EventCases DEF Live, JobInv
  <1>3. InsertsOnly({})
    BY <1>1, <1>2 DEF InsertsOnly, SameJob, Live, JobFailed, Retried, Event, JobInv, JobTypes
  <1>4. MovesOnly({})
    BY DEF MovesOnly, JobFailed, Idle, JobInv, JobTypes
  <1> QED BY <1>3, <1>4

\* What JobCompletedWithIntent does to slots and events.
LEMMA JobCompletedWithIntentFrame ==
    ASSUME JobInv, NEW h \in Slots, handler[h].step \in JobSteps,
           NEW type, NEW r, JobCompletedWithIntent(h, type, r)
    PROVE  InsertsOnly({type}) /\ MovesOnly({})
  <1> DEFINE done == handler[h].event
  <1>1. done \in EventIds /\ events[done] \in Event
    BY HeldJob
  <1>2. Live(done)
    BY <1>1, EventCases DEF Live, JobInv
  <1>3. PICK e \in Free \cup {done} :
            events' = [events EXCEPT ![done] = Returned(done), ![e] = Intent(type, r)]
    BY DEF JobCompletedWithIntent
  <1>4. ASSUME NEW f \in EventIds, events'[f] # NoEvent
        PROVE  SameJob(f) \/ events'[f].type = type
    BY <1>1, <1>2, <1>3, <1>4, ReturnedSame
       DEF SameJob, Live, JobInv, JobTypes, Free, Intent
  <1>5. MovesOnly({})
    BY DEF MovesOnly, JobCompletedWithIntent, Idle, JobInv, JobTypes
  <1> QED BY <1>4, <1>5 DEF InsertsOnly

\* What Starts does to slots and events.
LEMMA StartsFrame ==
    ASSUME TypeInv, NEW h, NEW e \in EventIds, NEW type \in IntentTypes, Takes(h, e, type),
           NEW job, NEW steps,
           NothingToDo(e) \/ (Starts(h, e, job) /\ job.step \in steps)
    PROVE  InsertsOnly({}) /\ MovesOnly(steps)
  <1>1. h \in Slots /\ events[e] \in Event
    BY JobTaken
  <1>2. InsertsOnly({})
    BY <1>1 DEF InsertsOnly, SameJob, Live, Takes, NothingToDo, Starts, Event, TypeInv, JobInv, JobTypes
  <1>3. MovesOnly(steps)
    BY <1>1 DEF MovesOnly, NothingToDo, Starts, TypeInv, JobInv, JobTypes
  <1> QED BY <1>2, <1>3

\* What a step within a handler does to slots and events.
LEMMA StepFrame ==
    ASSUME JobInv, NEW h \in Slots, handler[h].step \in JobSteps, NEW step, NEW steps,
           step \in steps,
           \/ Goes(h, step)
           \/ step = "fail" /\ \E error \in Errors : Fails(h, error)
           \/ \E session : handler' = [handler EXCEPT ![h] = [handler[h] EXCEPT
                                                            !.step = step, !.session = session]]
           \/ \E error : handler' = [handler EXCEPT ![h] = [handler[h] EXCEPT
                                                            !.step = step, !.error = error]]
    PROVE  MovesOnly(steps)
  <1>1. handler[h] \in Handler
    BY HandlerCases DEF JobInv
  <1>2. ASSUME NEW g \in Slots
        PROVE  handler'[g] = handler[g] \/ handler'[g].step = step
    BY <1>1 DEF Goes, Fails, JobInv, JobTypes, Handler
  <1> QED BY <1>2 DEF MovesOnly

\* Events that stay put, or only gain intents, keep their jobs.
LEMMA EventsUntouched ==
    ASSUME JobInv, UNCHANGED events
    PROVE  InsertsOnly({})
  BY DEF InsertsOnly, SameJob, Live

\* A compare-and-set moves the status as its table says.
LEMMA PathWritten ==
    ASSUME StoreTypes, NEW r \in Recordings, NEW from, NEW new \in Row, new.key = row[r].key,
           new.status = from \/ <<from, new.status>> \in PathMoves,
           row' = RowAfter(r, from, new)
    PROVE  \A s \in Recordings : OnPath(s)
  BY DEF StoreTypes, RowAfter, transitionAllowed, OnPath

\* The row a compare-and-set replaced.
LEMMA RowReplaced ==
    ASSUME StoreTypes, NEW r \in Recordings, NEW new, new.key = row[r].key,
           new.status = row[r].status \/ <<row[r].status, new.status>> \in PathMoves,
           row' = [row EXCEPT ![r] = new]
    PROVE  \A s \in Recordings : OnPath(s)
  BY DEF StoreTypes, OnPath

\* The status after a compare-and-set.
LEMMA MovedTo ==
    ASSUME JobInv, NEW h \in Slots, NEW new, NEW steps, new.step \in steps,
           handler' = [handler EXCEPT ![h] = new]
    PROVE  MovesOnly(steps)
  BY DEF JobInv, JobTypes, MovesOnly

\* A row nobody wrote.
LEMMA RowKept ==
    ASSUME UNCHANGED row
    PROVE  \A s \in Recordings : OnPath(s)
  BY DEF OnPath

\* An upload job.
LEMMA UploadFrame ==
    ASSUME PipelineAssumption, TypeInv, UploadNext
    PROVE  /\ InsertsOnly({"youtube.poll-processing"}) /\ MovesOnly(UploadSteps)
           /\ \A r \in Recordings : OnPath(r)
  <1> USE DEF At
  <1> DEFINE Goal == /\ InsertsOnly({"youtube.poll-processing"}) /\ MovesOnly(UploadSteps)
                     /\ \A r \in Recordings : OnPath(r)
  <1>0. /\ YoutubeSlots \subseteq Slots /\ JobInv /\ StoreTypes
        /\ InsertsOnly({}) => InsertsOnly({"youtube.poll-processing"})
        /\ MovesOnly({}) => MovesOnly(UploadSteps)
        /\ UNCHANGED handler => MovesOnly({})
    BY DEF Slots, TypeInv, InsertsOnly, MovesOnly
  <1>u. UploadSteps = {"redirect", "claim", "session", "persist", "send", "save", "fail"}
    BY DEF UploadSteps
  <1>1. ASSUME NEW h \in YoutubeSlots, NEW e \in EventIds, UploadStart(h, e) PROVE Goal
    <2>1. Takes(h, e, "youtube.upload") /\ "youtube.upload" \in IntentTypes /\ UNCHANGED row
      BY <1>1 DEF UploadStart, IntentTypes
    <2>2. \E job : NothingToDo(e) \/ (Starts(h, e, job) /\ job.step \in UploadSteps)
      BY <1>1, <1>u DEF UploadStart, Job
    <2> QED BY <1>0, <2>1, <2>2, StartsFrame, RowKept
  <1>2. ASSUME NEW h \in YoutubeSlots, UploadRedirect(h) PROVE Goal
    <2>1. handler[h].step \in JobSteps
      BY <1>2, StepDefs DEF UploadRedirect
    <2> DEFINE r == handler[h].rec
               from == handler[h].status
               new == [row[r] EXCEPT !.status = RedirectTarget(from)]
    <2>2. r \in Recordings /\ row[r] \in Row /\ from \in RowStates
      BY <1>0, <2>1, HandlerRecord
    <2>3. new \in Row /\ new.key = row[r].key /\ new.status = RedirectTarget(from)
      BY <2>2, UploadRows, <1>0, FieldWritten DEF Row
    <2>4. RedirectTarget(from) = from \/ <<from, RedirectTarget(from)>> \in PathMoves
      BY DEF RedirectTarget, PathMoves
    <2>5. \A s \in Recordings : OnPath(s)
      BY <1>0, <1>2, <2>2, <2>3, <2>4, PathWritten DEF UploadRedirect
    <2> QED BY <1>0, <1>2, <2>1, <2>5, JobCompletedWithIntentFrame DEF UploadRedirect
  <1>3. ASSUME NEW h \in YoutubeSlots, UploadClaim(h) PROVE Goal
    <2>1. handler[h].step \in JobSteps
      BY <1>3, StepDefs DEF UploadClaim
    <2>2. handler[h].rec \in Recordings
      BY <1>0, <2>1, HandlerRecord
    <2>3. CASE JobCompleted(h) /\ UNCHANGED <<row, overtaken>>
      BY <1>0, <2>1, <2>3, JobCompletedFrame, RowKept
    <2>4. CASE ~(JobCompleted(h) /\ UNCHANGED <<row, overtaken>>)
      <3> DEFINE r == handler[h].rec
                 new == [row[r] EXCEPT !.status = "YOUTUBE_UPLOADING", !.code = "none"]
                 failed == [handler[h] EXCEPT !.step = "fail", !.error = "OTHER"]
                 taken == [handler[h] EXCEPT !.step = "session", !.session = row[r].session]
      <3>1. \A s \in Recordings : OnPath(s)
        <4>1. row' = [row EXCEPT ![r] = new] /\ row[r].status = "QUEUED"
          BY <1>0, <1>3, <2>2, <2>4 DEF UploadClaim, transitionAllowed, StoreTypes
        <4>2. new.key = row[r].key /\ new.status = "YOUTUBE_UPLOADING"
          BY <1>0, <2>2 DEF StoreTypes, Row
        <4> QED BY <1>0, <2>2, <4>1, <4>2, RowReplaced DEF PathMoves
      <3>2. failed.step \in UploadSteps /\ taken.step \in UploadSteps
        BY <1>0, <1>u, <2>1, HandlerCases DEF JobInv, Handler
      <3>3. MovesOnly(UploadSteps)
        <4>1. handler' = [handler EXCEPT ![h] = failed] \/ handler' = [handler EXCEPT ![h] = taken]
          BY <1>0, <1>3, <2>4 DEF UploadClaim, JobInv, JobTypes
        <4> QED BY <1>0, <3>2, <4>1, MovedTo
      <3> QED BY <1>0, <1>3, <2>4, <3>1, <3>3, EventsUntouched DEF UploadClaim
    <2> QED BY <2>3, <2>4
  <1>4. ASSUME NEW h \in YoutubeSlots, OpenSession(h) PROVE Goal
    <2>1. handler[h].step \in JobSteps
      BY <1>4, StepDefs DEF OpenSession
    <2>2. handler' = [handler EXCEPT ![h] = [handler[h] EXCEPT
                         !.step = "persist", !.session = opened[handler[h].rec] + 1]]
      BY <1>0, <1>4 DEF OpenSession, JobInv, JobTypes
    <2>3. MovesOnly(UploadSteps)
      BY <1>0, <1>u, <2>1, <2>2, StepFrame
    <2> QED BY <1>0, <1>4, <2>3, EventsUntouched, RowKept DEF OpenSession
  <1>5. ASSUME NEW h \in YoutubeSlots, PersistSession(h) PROVE Goal
    <2>1. handler[h].step \in JobSteps
      BY <1>5, StepDefs DEF PersistSession
    <2>2. \A s \in Recordings : OnPath(s)
      BY <1>0, <1>5, <2>1, HandlerRecord DEF PersistSession, OnPath, StoreTypes, Row
    <2> QED BY <1>0, <1>u, <1>5, <2>1, <2>2, StepFrame, EventsUntouched DEF PersistSession
  <1>6. ASSUME NEW h \in YoutubeSlots, ProbeSession(h) PROVE Goal
    <2>1. handler[h].step \in JobSteps
      BY <1>6, StepDefs DEF ProbeSession
    <2>2. MovesOnly(UploadSteps)
      BY <1>0, <1>u, <1>6, <2>1, StepFrame DEF ProbeSession, Errors
    <2> QED BY <1>0, <1>6, <2>2, EventsUntouched, RowKept DEF ProbeSession
  <1>7. ASSUME NEW h \in YoutubeSlots, SendAccepted(h) \/ SendUnclear(h) PROVE Goal
    <2>1. handler[h].step \in JobSteps /\ UNCHANGED row
      BY <1>7, StepDefs DEF SendAccepted, SendUnclear, Sending
    <2>2. MovesOnly(UploadSteps)
      BY <1>0, <1>u, <1>7, <2>1, StepFrame DEF SendAccepted, SendUnclear, Errors
    <2> QED BY <1>0, <1>7, <2>1, <2>2, EventsUntouched, RowKept DEF SendAccepted, SendUnclear
  <1>8. ASSUME NEW h \in YoutubeSlots, SendPartial(h) PROVE Goal
    <2>1. handler[h].step \in JobSteps /\ UNCHANGED row
      BY <1>8, StepDefs DEF SendPartial, Sending
    <2> QED BY <1>0, <1>8, <2>1, JobCompletedFrame, RowKept DEF SendPartial
  <1>9. ASSUME NEW h \in YoutubeSlots, NEW error \in {"QUOTA", "OTHER", "REAUTH"},
               UploadThrows(h, error)
        PROVE  Goal
    <2>1. handler[h].step \in JobSteps
      BY <1>9, StepDefs DEF UploadThrows
    <2>2. MovesOnly(UploadSteps)
      BY <1>0, <1>u, <1>9, <2>1, StepFrame DEF UploadThrows, Errors
    <2> QED BY <1>0, <1>9, <2>2, EventsUntouched, RowKept DEF UploadThrows
  <1>10. ASSUME NEW h \in YoutubeSlots, SaveVideo(h) PROVE Goal
    <2>1. handler[h].step \in JobSteps
      BY <1>10, StepDefs DEF SaveVideo
    <2>2. \A s \in Recordings : OnPath(s)
      <3> DEFINE r == handler[h].rec
                 saved == [row[r] EXCEPT !.video = handler[h].session, !.session = None]
                 moved == [saved EXCEPT !.status = "YOUTUBE_PROCESSING"]
      <3>1. r \in Recordings /\ row[r] \in Row
        BY <1>0, <2>1, HandlerRecord
      <3>2. /\ saved.key = row[r].key /\ saved.status = row[r].status
            /\ moved.key = row[r].key /\ moved.status = "YOUTUBE_PROCESSING"
        BY <3>1 DEF Row
      <3>3. \/ row' = [row EXCEPT ![r] = saved]
            \/ row' = [row EXCEPT ![r] = moved] /\ row[r].status = "YOUTUBE_UPLOADING"
        BY <1>10 DEF SaveVideo, transitionAllowed
      <3> QED BY <1>0, <3>1, <3>2, <3>3, RowReplaced DEF PathMoves
    <2> QED
      BY <1>0, <1>10, <2>1, <2>2, JobCompletedFrame, JobCompletedWithIntentFrame DEF SaveVideo
  <1>11. ASSUME NEW h \in YoutubeSlots, UploadFail(h) PROVE Goal
    <2>1. handler[h].step \in JobSteps
      BY <1>11, StepDefs DEF UploadFail
    <2> DEFINE r == handler[h].rec
               new == FailedRow(r, handler[h].error)
    <2>2. r \in Recordings /\ row[r] \in Row /\ handler[h].error \in Errors
      BY <1>0, <2>1, HandlerRecord
    <2>3. new \in Row
      BY <1>0, <2>2, UploadRows
    <2>4. new.key = row[r].key /\ <<"YOUTUBE_UPLOADING", new.status>> \in PathMoves
      BY <2>2 DEF FailedRow, PathMoves, Row
    <2>5. \A s \in Recordings : OnPath(s)
      BY <1>0, <1>11, <2>2, <2>3, <2>4, PathWritten DEF UploadFail
    <2> QED BY <1>0, <1>11, <2>1, <2>5, JobCompletedFrame DEF UploadFail
  <1>12. ASSUME NEW r \in Recordings, SessionExpires(r) PROVE Goal
    BY <1>0, <1>12, EventsUntouched, RowKept DEF SessionExpires
  <1> QED
    BY <1>1, <1>2, <1>3, <1>4, <1>5, <1>6, <1>7, <1>8, <1>9, <1>10, <1>11, <1>12 DEF UploadNext

\* A poll job.
LEMMA PollFrame ==
    ASSUME PipelineAssumption, TypeInv, PollNext
    PROVE  /\ InsertsOnly({"youtube.poll-processing"}) /\ MovesOnly(PollSteps)
           /\ \A r \in Recordings : OnPath(r) /\ row'[r].video = row[r].video
           /\ \A r \in Recordings :
                 row'[r].status = row[r].status \/ row[r].status = "YOUTUBE_PROCESSING"
  <1> USE DEF At
  <1> DEFINE Goal == /\ InsertsOnly({"youtube.poll-processing"}) /\ MovesOnly(PollSteps)
                     /\ \A r \in Recordings : OnPath(r) /\ row'[r].video = row[r].video
                     /\ \A r \in Recordings :
                           row'[r].status = row[r].status \/ row[r].status = "YOUTUBE_PROCESSING"
  <1>0. /\ YoutubeSlots \subseteq Slots /\ JobInv /\ StoreTypes
        /\ InsertsOnly({}) => InsertsOnly({"youtube.poll-processing"})
        /\ MovesOnly({}) => MovesOnly(PollSteps)
    BY DEF Slots, TypeInv, InsertsOnly, MovesOnly
  <1>1. ASSUME NEW h \in YoutubeSlots, NEW e \in EventIds, PollStart(h, e) PROVE Goal
    <2>1. Takes(h, e, "youtube.poll-processing") /\ "youtube.poll-processing" \in IntentTypes
      BY <1>1 DEF PollStart, IntentTypes
    <2>2. \E job : NothingToDo(e) \/ (Starts(h, e, job) /\ job.step \in PollSteps)
      BY <1>1 DEF PollStart, Job, PollSteps
    <2> QED BY <1>0, <1>1, <2>1, <2>2, StartsFrame, RowKept DEF PollStart
  <1>2. ASSUME NEW h \in YoutubeSlots, PollReady(h) \/ PollFailed(h) \/ PollPrivate(h)
        PROVE  Goal
    <2> DEFINE r == handler[h].rec
               ready == [row[r] EXCEPT !.status = "READY", !.privacy = "unlisted"]
               failed == [row[r] EXCEPT !.status = "FAILED", !.code = "OTHER"]
               hidden == [row[r] EXCEPT !.privacy = "private"]
               both == [hidden EXCEPT !.status = "FAILED", !.code = "OTHER"]
    <2>1. handler[h].step \in JobSteps
      BY <1>2, StepDefs DEF PollReady, PollFailed, PollPrivate
    <2>2. r \in Recordings /\ row[r] \in Row
      BY <1>0, <2>1, HandlerRecord
    <2>3. \A new \in {ready, failed, hidden, both} :
              new.key = row[r].key /\ new.video = row[r].video
      BY <2>2 DEF Row
    <2>4. /\ ready.status = "READY" /\ failed.status = "FAILED" /\ both.status = "FAILED"
          /\ hidden.status = row[r].status
      BY <2>2 DEF Row
    <2>5. \/ row' = row
          \/ row' = [row EXCEPT ![r] = hidden]
          \/ /\ row[r].status = "YOUTUBE_PROCESSING"
             /\ \E new \in {ready, failed, both} : row' = [row EXCEPT ![r] = new]
      BY <1>2 DEF PollReady, PollFailed, PollPrivate, RowAfter, transitionAllowed
    <2>6. \A s \in Recordings : OnPath(s)
      <3>1. CASE row' = row
        BY <3>1, RowKept
      <3>2. CASE row' # row
        <4>1. PICK new \in {ready, failed, hidden, both} :
                /\ row' = [row EXCEPT ![r] = new]
                /\ \/ new.status = row[r].status
                   \/ <<row[r].status, new.status>> \in PathMoves
          BY <2>4, <2>5, <3>2 DEF PathMoves
        <4> HIDE DEF ready, failed, hidden, both
        <4> QED BY <1>0, <2>2, <2>3, <4>1, RowReplaced
      <3> QED BY <3>1, <3>2
    <2>7. \A s \in Recordings :
              /\ row'[s].video = row[s].video
              /\ row'[s].status = row[s].status \/ row[s].status = "YOUTUBE_PROCESSING"
      BY <1>0, <2>2, <2>3, <2>4, <2>5 DEF StoreTypes
    <2> QED
      BY <1>0, <1>2, <2>1, <2>6, <2>7, JobCompletedFrame DEF PollReady, PollFailed, PollPrivate
  <1>3. ASSUME NEW h \in YoutubeSlots, PollAgain(h) PROVE Goal
    <2>1. handler[h].step \in JobSteps
      BY <1>3, StepDefs DEF PollAgain
    <2> QED BY <1>0, <1>3, <2>1, JobCompletedWithIntentFrame, RowKept DEF PollAgain
  <1> QED BY <1>1, <1>2, <1>3 DEF PollNext

\* The worker around its handlers.
LEMMA WorkerFrame ==
    ASSUME PipelineAssumption, TypeInv, WorkerNext
    PROVE  /\ InsertsOnly({"youtube.poll-processing", "youtube.upload"}) /\ MovesOnly({})
           /\ \A r \in Recordings : /\ row'[r].key = row[r].key /\ row'[r].video = row[r].video
                                   /\ row'[r].status = row[r].status
  <1> DEFINE Types == {"youtube.poll-processing", "youtube.upload"}
             RowsKept == \A r \in Recordings : /\ row'[r].key = row[r].key
                                              /\ row'[r].video = row[r].video
                                              /\ row'[r].status = row[r].status
             Goal == InsertsOnly(Types) /\ MovesOnly({}) /\ RowsKept
  <1>0. /\ JobInv /\ StoreTypes
        /\ InsertsOnly({}) => InsertsOnly(Types)
        /\ UNCHANGED handler => MovesOnly({})
        /\ UNCHANGED row => RowsKept
    BY DEF TypeInv, InsertsOnly, MovesOnly
  <1>1. ASSUME NEW e \in EventIds, Dispatch(e) \/ Acknowledge(e) PROVE Goal
    <2>1. events[e] \in Event
      BY <1>0, <1>1, EventCases DEF Dispatch, Acknowledge, JobInv
    <2>2. InsertsOnly({})
      BY <1>0, <1>1, <2>1
         DEF Dispatch, Acknowledge, InsertsOnly, SameJob, Live, Event, JobInv, JobTypes
    <2> QED BY <1>0, <1>1, <2>2 DEF Dispatch, Acknowledge
  <1>2. CASE ScanSelect \/ RecoverSelectProcessing \/ RecoverSelectStale \/ StartWorkers
    BY <1>0, <1>2, EventsUntouched
       DEF ScanSelect, RecoverSelectProcessing, RecoverSelectStale, StartWorkers
  <1>3. CASE ScanInsert
    <2>1. InsertsOnly(Types)
      BY <1>0, <1>3 DEF ScanInsert, InsertsOnly, SameJob, Live, Intent
    <2> QED BY <1>0, <1>3, <2>1 DEF ScanInsert
  <1>4. ASSUME NEW r \in Recordings, DeferralLapses(r) PROVE Goal
    <2>1. RowsKept
      BY <1>0, <1>4 DEF DeferralLapses, StoreTypes, Row
    <2> QED BY <1>0, <1>4, <2>1, EventsUntouched DEF DeferralLapses
  <1>5. ASSUME NEW r \in Recordings, RecoverProcessing(r) \/ RecoverStale(r) PROVE Goal
    <2>1. InsertsOnly(Types)
      BY <1>0, <1>5 DEF RecoverProcessing, RecoverStale, insertOutboxEvent, InsertsOnly, SameJob,
                        Live, Intent, Free, JobInv, JobTypes
    <2> QED BY <1>0, <1>5, <2>1 DEF RecoverProcessing, RecoverStale
  <1>6. CASE Crash
    <2>1. ASSUME NEW e \in EventIds, events'[e] # NoEvent
          PROVE  SameJob(e)
      <3>1. events'[e] = AfterStall(events[e])
        BY <1>6 DEF Crash
      <3>2. events[e] \in Event
        BY <1>0, <2>1, <3>1, EventCases DEF AfterStall, JobInv
      <3> QED BY <1>0, <2>1, <3>1, <3>2, EventCases DEF AfterStall, SameJob, Live, Event, JobInv
    <2>2. InsertsOnly(Types) /\ MovesOnly({})
      BY <1>6, <2>1 DEF InsertsOnly, MovesOnly, Crash, Idle
    <2> QED BY <1>0, <1>6, <2>2 DEF Crash
  <1>7. ASSUME NEW o \in Owners, Reconnect(o) PROVE Goal
    BY <1>0, <1>7, EventsUntouched DEF Reconnect
  <1> QED BY <1>1, <1>2, <1>3, <1>4, <1>5, <1>6, <1>7 DEF WorkerNext
-----------------------------------------------------------------------------
(* SourceRetained *)

\* What a completion request saw stays true while the row may still be confirmed.
LEMMA CompletionKept ==
    ASSUME StoreTypes, CompletionChecked,
           \A q \in Requests : request'[q].op = "complete" => request'[q] = request[q],
           \A r \in Recordings : Checked(r) => Checked(r)'
    PROVE  CompletionChecked'
  <1>1. ASSUME NEW q \in Requests, request'[q].op = "complete"
        PROVE  Checked(request[q].rec)'
    <2>1. request[q].op = "complete" /\ request[q].rec \in Recordings
      BY <1>1, RequestRecord
    <2>2. PICK r \in Recordings : r = request[q].rec
      BY <2>1
    <2>3. Checked(r)'
      BY <2>1, <2>2 DEF CompletionChecked
    <2> QED BY <1>1, <2>2, <2>3 DEF Checked
  <1> QED BY <1>1 DEF CompletionChecked

\* The recording of a job or a sweeper's row.
LEMMA JobRecordings ==
    ASSUME TypeInv
    PROVE  /\ \A e \in EventIds : Live(e) => events[e].rec \in Recordings
           /\ \A h \in Slots : Forgetting(h) => handler[h].rec \in Recordings
  <1>1. ASSUME NEW h \in Slots, Forgetting(h)
        PROVE  handler[h].rec \in Recordings
    BY <1>1, StepDefs, HandlerCases
       DEF Forgetting, CleanupSteps, TypeInv, JobInv, Handler, Sweeper
  <1> QED BY <1>1, EventCases DEF TypeInv, JobInv, Live, Event

\* A handler that removes an object works on a row that no longer needs it.
LEMMA CleansKept ==
    ASSUME TypeInv, CleansRetired,
           \A r \in Recordings : Retired(r) => Retired(r)',
           \A e \in EventIds : events'[e] # NoEvent /\ events'[e].type = "storage.cleanup" =>
              SameJob(e) \/ row'[events'[e].rec].status \in RetiredStates,
           \A h \in Slots : handler'[h] = handler[h]
                          \/ (Forgetting(h)' => row'[handler'[h].rec].status \in RetiredStates)
    PROVE  CleansRetired'
  <1>1. ASSUME NEW e \in EventIds, Live(e)', events'[e].type = "storage.cleanup"
        PROVE  row'[events'[e].rec].status \in RetiredStates
    <2>1. CASE SameJob(e)
      BY <1>1, <2>1, JobRecordings DEF SameJob, CleansRetired, Retired
    <2> QED BY <1>1, <2>1 DEF Live
  <1>2. ASSUME NEW h \in Slots, Forgetting(h)'
        PROVE  row'[handler'[h].rec].status \in RetiredStates
    <2>1. CASE handler'[h] = handler[h]
      <3>1. Forgetting(h)
        BY <1>2, <2>1 DEF Forgetting
      <3> QED BY <2>1, <3>1, JobRecordings DEF CleansRetired, Retired
    <2> QED BY <1>2, <2>1
  <1> QED BY <1>1, <1>2 DEF CleansRetired, Retired

\* SourceInv survives a step that touches no key, object or status it depends on.
LEMMA SourceFrame ==
    ASSUME PipelineAssumption, TypeInv, SourceInv,
           InsertsOnly({"youtube.poll-processing", "youtube.upload"}),
           MovesOnly(UploadSteps \cup PollSteps), UNCHANGED <<request, object>>,
           \A r \in Recordings : OnPath(r)
    PROVE  SourceInv'
  <1>1. \A r \in Recordings :
            /\ Retired(r) => Retired(r)'
            /\ row'[r].status \in KeptStates => row[r].status \in KeptStates
            /\ Checked(r) => Checked(r)'
            /\ row'[r].key = row[r].key
    BY DEF OnPath, PathMoves, Retired, RetiredStates, GoneStates, KeptStates, Checked, NoRow
  <1>2. SourceRetained'
    BY <1>1 DEF SourceInv, SourceRetained
  <1>3. CompletionChecked'
    BY <1>1, CompletionKept DEF SourceInv, TypeInv
  <1>4. CleansRetired'
    <2>1. \A e \in EventIds : events'[e] # NoEvent /\ events'[e].type = "storage.cleanup" =>
              SameJob(e)
      BY DEF InsertsOnly
    <2>2. \A h \in Slots : handler'[h] = handler[h] \/ ~Forgetting(h)'
      BY DEF MovesOnly, Forgetting, CleanupSteps, ExpireSteps, UploadSteps, PollSteps
    <2> QED BY <1>1, <2>1, <2>2, CleansKept DEF SourceInv
  <1> QED BY <1>2, <1>3, <1>4 DEF SourceInv

\* The web requests and the browser.
LEMMA SourceRequests ==
    ASSUME PipelineAssumption, TypeInv, SourceInv, RequestNext
    PROVE  SourceInv'
  <1> USE DEF webUnchanged, storageVars
  <1>0. /\ StoreTypes /\ JobInv /\ SourceRetained /\ CompletionChecked /\ CleansRetired
    BY DEF TypeInv, SourceInv
  <1>s. UNCHANGED events => \A e \in EventIds : events'[e] # NoEvent => SameJob(e)
    BY DEF SameJob, Live
  <1>1. ASSUME NEW q \in Requests, NEW r \in Recordings, CreateInsert(q, r) PROVE SourceInv'
    <2>1. /\ row[r].status = NoRow /\ row'[r].status = "STAGING" /\ row'[r].key = "pending"
          /\ \A s \in Recordings : s # r => row'[s] = row[s]
      BY <1>0, <1>1 DEF CreateInsert, StoreTypes, EmptyRow
    <2>2. SourceRetained'
      BY <1>0, <1>1, <2>1 DEF CreateInsert, SourceRetained, KeptStates
    <2>3. \A p \in Requests : request'[p].op = "complete" => request'[p] = request[p]
      BY <1>0, <1>1 DEF CreateInsert, Reading, StoreTypes
    <2>4. \A s \in Recordings : Checked(s) => Checked(s)'
      BY <1>1, <2>1 DEF CreateInsert, Checked
    <2>5. \A s \in Recordings : Retired(s) => Retired(s)'
      BY <2>1 DEF Retired, RetiredStates, GoneStates, NoRow
    <2>6. UNCHANGED <<events, handler>>
      BY <1>1 DEF CreateInsert
    <2> QED BY <1>0, <1>s, <2>2, <2>3, <2>4, <2>5, <2>6, CompletionKept, CleansKept DEF SourceInv
  <1>2. ASSUME NEW q \in Requests, CreateFinish(q) PROVE SourceInv'
    <2>1. request[q].rec \in Recordings
      BY <1>0, <1>2, RequestRecord DEF CreateFinish
    <2>2. \A s \in Recordings : /\ row'[s].status = row[s].status
                               /\ row'[s].key \in {row[s].key, "object"}
      BY <1>0, <1>2, <2>1 DEF CreateFinish, StoreTypes, Row
    <2>3. SourceRetained'
      BY <1>0, <1>2, <2>2 DEF CreateFinish, SourceRetained
    <2>4. \A p \in Requests : request'[p].op = "complete" => request'[p] = request[p]
      BY <1>0, <1>2 DEF CreateFinish, Answered, NoRequest, StoreTypes
    <2>5. \A s \in Recordings : (Checked(s) => Checked(s)') /\ (Retired(s) => Retired(s)')
      BY <1>2, <2>2 DEF CreateFinish, Checked, Retired
    <2>6. UNCHANGED <<events, handler>>
      BY <1>2 DEF CreateFinish
    <2> QED BY <1>0, <1>s, <2>3, <2>4, <2>5, <2>6, CompletionKept, CleansKept DEF SourceInv
  <1>3. ASSUME NEW r \in Recordings, BrowserPut(r) \/ UrlExpires(r) PROVE SourceInv'
    <2>1. /\ UNCHANGED <<row, events, handler, request>>
          /\ \A s \in Recordings : object[s] => object'[s]
      BY <1>0, <1>3 DEF BrowserPut, UrlExpires, StoreTypes
    <2>2. \A s \in Recordings : (Checked(s) => Checked(s)') /\ (Retired(s) => Retired(s)')
      BY <2>1 DEF Checked, Retired
    <2>3. SourceRetained'
      BY <1>0, <2>1 DEF SourceRetained
    <2> QED BY <1>0, <1>s, <2>1, <2>2, <2>3, CompletionKept, CleansKept DEF SourceInv
  <1>4. ASSUME NEW q \in Requests, NEW r \in Recordings, CompleteCheck(q, r) PROVE SourceInv'
    <2>1. /\ UNCHANGED <<row, events, handler, object>> /\ Checked(r)
          /\ request' = [request EXCEPT ![q] = Reading("complete", r)]
      BY <1>4 DEF CompleteCheck, Checked, NoRow
    <2>2. CompletionChecked'
      BY <1>0, <2>1 DEF CompletionChecked, Checked, Reading, StoreTypes
    <2>3. SourceRetained' /\ CleansRetired'
      BY <1>0, <2>1 DEF SourceRetained, CleansRetired, Live, Retired, Forgetting
    <2> QED BY <2>2, <2>3 DEF SourceInv
  <1>5. ASSUME NEW q \in Requests,
               RequestLost(q) \/ \E r \in Recordings : RetryCheck(q, r) \/ DeleteCheck(q, r)
        PROVE  SourceInv'
    <2>1. UNCHANGED <<row, events, handler, object>>
      BY <1>5 DEF RetryCheck, DeleteCheck, RequestLost
    <2>2. \A p \in Requests : request'[p].op = "complete" => request'[p] = request[p]
      <3>1. CASE \E r \in Recordings : RetryCheck(q, r)
        BY <1>0, <3>1 DEF RetryCheck, Reading, StoreTypes
      <3>2. CASE \E r \in Recordings : DeleteCheck(q, r)
        BY <1>0, <3>2 DEF DeleteCheck, Reading, StoreTypes
      <3>3. CASE RequestLost(q)
        BY <1>0, <3>3 DEF RequestLost, Answered, NoRequest, StoreTypes
      <3> QED BY <1>5, <3>1, <3>2, <3>3
    <2>3. \A s \in Recordings : Checked(s) => Checked(s)'
      BY <2>1 DEF Checked
    <2>4. SourceRetained' /\ CleansRetired'
      BY <1>0, <2>1 DEF SourceRetained, CleansRetired, Live, Retired, Forgetting
    <2> QED BY <1>0, <2>2, <2>3, <2>4, CompletionKept DEF SourceInv
  <1>6. ASSUME NEW q \in Requests, CompleteCommit(q) \/ RetryCommit(q) \/ DeleteCommit(q)
        PROVE  SourceInv'
    <2> DEFINE r == request[q].rec
    <2>1. r \in Recordings /\ row[r] \in Row
      BY <1>0, <1>6, RequestRecord DEF CompleteCommit, RetryCommit, DeleteCommit, StoreTypes
    <2>2. /\ UNCHANGED <<handler, object>>
          /\ \A p \in Requests : request'[p].op = "complete" => request'[p] = request[p]
      BY <1>0, <1>6 DEF CompleteCommit, RetryCommit, DeleteCommit, Answered, NoRequest, StoreTypes
    <2>3. CASE UNCHANGED <<row, events>>
      <3>1. \A s \in Recordings : Checked(s) => Checked(s)'
        BY <2>2, <2>3 DEF Checked
      <3>2. SourceRetained' /\ CleansRetired'
        BY <1>0, <2>2, <2>3 DEF SourceRetained, CleansRetired, Live, Retired, Forgetting
      <3> QED BY <1>0, <2>2, <3>1, <3>2, CompletionKept DEF SourceInv
    <2>4. CASE ~UNCHANGED <<row, events>>
      <3>1. /\ \A s \in Recordings : s # r => row'[s] = row[s]
            /\ row'[r].key = row[r].key
            /\ \/ row[r].status = "STAGING" /\ Checked(r) /\ row'[r].status = "QUEUED"
               \/ row[r].status = "FAILED" /\ row'[r].status = "QUEUED"
               \/ row'[r].status = "DELETE_PENDING"
        <4>1. CASE CompleteCommit(q)
          BY <1>0, <2>1, <2>4, <4>1 DEF CompleteCommit, CompletionChecked, StoreTypes, Row
        <4>2. CASE RetryCommit(q)
          BY <1>0, <2>1, <2>4, <4>2 DEF RetryCommit, transitionAllowed, StoreTypes, Row
        <4>3. CASE DeleteCommit(q)
          BY <1>0, <2>1, <2>4, <4>3 DEF DeleteCommit, StoreTypes, Row
        <4> QED BY <1>6, <4>1, <4>2, <4>3
      <3>2. SourceRetained'
        BY <1>0, <2>1, <2>2, <3>1 DEF SourceRetained, KeptStates, Checked
      <3>3. \A s \in Recordings : (Checked(s) => Checked(s)') /\ (Retired(s) => Retired(s)')
        BY <2>2, <3>1 DEF Checked, Retired, RetiredStates, GoneStates, NoRow
      <3>4. \A e \in EventIds : events'[e] # NoEvent /\ events'[e].type = "storage.cleanup" =>
              SameJob(e) \/ row'[events'[e].rec].status \in RetiredStates
        <4>1. CASE CompleteCommit(q) \/ RetryCommit(q)
          BY <1>0, <2>4, <4>1 DEF CompleteCommit, RetryCommit, insertOutboxEvent, Intent, SameJob,
                                  Live, Free, JobInv, JobTypes
        <4>2. CASE DeleteCommit(q)
          <5>1. row'[r].status \in RetiredStates
            BY <1>0, <2>1, <2>4, <4>2 DEF DeleteCommit, RetiredStates, GoneStates, StoreTypes, Row
          <5>2. PICK e \in Free, f \in Free :
                  events' = [events EXCEPT
                      ![e] = IF request[q].video # None THEN Intent("youtube.delete", r) ELSE NoEvent,
                      ![f] = IF request[q].key # "null" THEN Intent("storage.cleanup", r) ELSE NoEvent]
            BY <2>4, <4>2 DEF DeleteCommit
          <5>3. ASSUME NEW g \in EventIds, events'[g] # NoEvent
                PROVE  SameJob(g) \/ events'[g].rec = r
            BY <1>0, <5>2, <5>3 DEF SameJob, Live, Free, Intent, JobInv, JobTypes
          <5> QED BY <5>1, <5>3
        <4> QED BY <1>6, <4>1, <4>2
      <3>5. CompletionChecked'
        BY <1>0, <2>2, <3>3, CompletionKept
      <3>6. CleansRetired'
        BY <1>0, <2>2, <3>3, <3>4, CleansKept
      <3> QED BY <3>2, <3>5, <3>6 DEF SourceInv
    <2> QED BY <2>3, <2>4
  <1> QED BY <1>1, <1>2, <1>3, <1>4, <1>5, <1>6 DEF RequestNext

\* Actions that do not touch rows, intents, requests or objects, but for one
\* handler that takes a step which cleans nothing new.
LEMMA SourceJobStep ==
    ASSUME PipelineAssumption, TypeInv, SourceInv, UNCHANGED <<row, request, object>>,
           InsertsOnly({}),
           \A h \in Slots : \/ handler'[h] = handler[h]
                          \/ ~Forgetting(h)'
                          \/ row[handler'[h].rec].status \in RetiredStates
    PROVE  SourceInv'
  <1>1. SourceRetained'
    BY DEF SourceInv, SourceRetained
  <1>2. CompletionChecked'
    BY DEF SourceInv, CompletionChecked, Checked
  <1>3. \A r \in Recordings : Retired(r) => Retired(r)'
    BY DEF Retired
  <1>4. CleansRetired'
    BY <1>3, CleansKept DEF InsertsOnly, SourceInv
  <1> QED BY <1>1, <1>2, <1>4 DEF SourceInv

\* The jobs that take things away.
LEMMA SourceCleanup ==
    ASSUME PipelineAssumption, TypeInv, SourceInv, CleanupNext
    PROVE  SourceInv'
  <1> USE DEF cleanupUnchanged, At
  <1>0. /\ StoreTypes /\ JobInv /\ SourceRetained /\ CompletionChecked /\ CleansRetired
        /\ YoutubeSlots \subseteq Slots /\ MaintenanceSlots \subseteq Slots
    BY DEF TypeInv, SourceInv, Slots
  <1>k. CleanupSteps = {"remove", "forgetKey"} /\ ExpireSteps = {"intent"}
    BY DEF CleanupSteps, ExpireSteps
  <1>1. ASSUME NEW h \in YoutubeSlots, NEW e \in EventIds, DeleteStart(h, e) PROVE SourceInv'
    <2>1. Takes(h, e, "youtube.delete") /\ "youtube.delete" \in IntentTypes
      BY <1>1 DEF DeleteStart, IntentTypes
    <2>2. \E job : NothingToDo(e) \/ (Starts(h, e, job) /\ job.step \in {"delete"})
      BY <1>1 DEF DeleteStart, Job
    <2>3. InsertsOnly({}) /\ MovesOnly({"delete"})
      BY <2>1, <2>2, StartsFrame
    <2> QED BY <1>1, <1>k, <2>3, SourceJobStep DEF DeleteStart, MovesOnly, Forgetting
  <1>2. ASSUME NEW h \in YoutubeSlots, RemoveVideo(h) PROVE SourceInv'
    <2>1. MovesOnly({"forget"})
      BY <1>0, <1>2, StepDefs, StepFrame DEF RemoveVideo
    <2> QED BY <1>0, <1>2, <1>k, <2>1, EventsUntouched, SourceJobStep
            DEF RemoveVideo, MovesOnly, Forgetting
  <1>3. ASSUME NEW h \in YoutubeSlots, DeleteThrows(h) PROVE SourceInv'
    <2>1. InsertsOnly({}) /\ MovesOnly({})
      BY <1>0, <1>3, StepDefs, JobFailedFrame DEF DeleteThrows
    <2> QED BY <1>3, <1>k, <2>1, SourceJobStep DEF DeleteThrows, MovesOnly, Forgetting
  <1>4. ASSUME NEW h \in YoutubeSlots, ForgetVideo(h) PROVE SourceInv'
    <2>1. handler[h].step \in JobSteps
      BY <1>4, StepDefs DEF ForgetVideo
    <2>2. handler[h].rec \in Recordings /\ row[handler[h].rec] \in Row
      BY <1>0, <2>1, HandlerRecord
    <2>3. \A s \in Recordings : row'[s].status = row[s].status /\ row'[s].key = row[s].key
      BY <1>0, <1>4, <2>2 DEF ForgetVideo, StoreTypes, Row
    <2>4. MovesOnly({"finish"})
      BY <1>0, <1>4, <2>1, StepFrame DEF ForgetVideo
    <2>5. \A s \in Recordings : OnPath(s)
      BY <2>3 DEF OnPath
    <2>6. \A g \in Slots : handler'[g] = handler[g] \/ ~Forgetting(g)'
      BY <1>k, <2>4 DEF MovesOnly, Forgetting
    <2>7. CleansRetired'
      BY <1>0, <1>4, <2>3, <2>6, EventsUntouched, CleansKept DEF ForgetVideo, InsertsOnly, Retired
    <2>8. CompletionChecked'
      BY <1>0, <1>4, <2>3, CompletionKept DEF ForgetVideo, Checked
    <2>9. SourceRetained'
      BY <1>0, <1>4, <2>3 DEF ForgetVideo, SourceRetained
    <2> QED BY <2>7, <2>8, <2>9 DEF SourceInv
  <1>5. ASSUME NEW h \in MaintenanceSlots, NEW e \in EventIds, CleanupStart(h, e)
        PROVE  SourceInv'
    <2>1. Takes(h, e, "storage.cleanup") /\ "storage.cleanup" \in IntentTypes
      BY <1>5 DEF CleanupStart, IntentTypes
    <2>2. PICK job : Starts(h, e, job) /\ job.rec = events[e].rec /\ job.step \in {"remove", "finish"}
      BY <1>5 DEF CleanupStart, Job
    <2>3. InsertsOnly({})
      BY <2>1, <2>2, StartsFrame
    <2>4. row[events[e].rec].status \in RetiredStates
      BY <1>0, <2>1 DEF Takes, CleansRetired, Live, Retired
    <2>5. \A g \in Slots : handler'[g] = handler[g] \/ handler'[g].rec = events[e].rec
      BY <1>0, <2>2 DEF Starts, JobInv, JobTypes
    <2> QED BY <1>5, <2>3, <2>4, <2>5, SourceJobStep DEF CleanupStart
  <1>6. ASSUME NEW h \in MaintenanceSlots, RemoveObject(h) PROVE SourceInv'
    <2> DEFINE r == handler[h].rec
    <2>1. handler[h].step \in JobSteps /\ Forgetting(h)
      BY <1>6, <1>k, StepDefs DEF RemoveObject, Forgetting
    <2>2. r \in Recordings /\ Retired(r)
      BY <1>0, <2>1, HandlerRecord DEF CleansRetired
    <2>3. \A s \in Recordings : s # r => object'[s] = object[s]
      BY <1>0, <1>6, <2>2 DEF RemoveObject, StoreTypes
    <2>4. SourceRetained'
      BY <1>0, <1>6, <2>2, <2>3
         DEF RemoveObject, SourceRetained, Retired, RetiredStates, GoneStates, KeptStates
    <2>5. \A s \in Recordings : Checked(s) => Checked(s)'
      BY <1>6, <2>2, <2>3 DEF RemoveObject, Checked, Retired, RetiredStates, GoneStates
    <2>6. \A s \in Recordings : Retired(s) => Retired(s)'
      BY <1>6 DEF RemoveObject, Retired
    <2>7. \A g \in Slots : handler'[g] = handler[g] \/ handler'[g].rec = r
      BY <1>0, <1>6, <2>1, HandlerCases DEF RemoveObject, Goes, JobInv, JobTypes, Handler
    <2>8. \A g \in Slots : \/ handler'[g] = handler[g]
                          \/ row'[handler'[g].rec].status \in RetiredStates
      BY <1>6, <2>2, <2>7 DEF RemoveObject, Retired
    <2>9. CleansRetired'
      BY <1>0, <1>6, <2>6, <2>8, EventsUntouched, CleansKept DEF RemoveObject, InsertsOnly
    <2>10. CompletionChecked'
      BY <1>0, <1>6, <2>5, CompletionKept DEF RemoveObject
    <2> QED BY <2>4, <2>9, <2>10 DEF SourceInv
  <1>7. ASSUME NEW h \in MaintenanceSlots, ForgetKey(h) PROVE SourceInv'
    <2> DEFINE r == handler[h].rec
    <2>1. handler[h].step \in JobSteps /\ Forgetting(h)
      BY <1>7, <1>k, StepDefs DEF ForgetKey, Forgetting
    <2>2. r \in Recordings /\ Retired(r) /\ row[r] \in Row
      BY <1>0, <2>1, HandlerRecord DEF CleansRetired
    <2>3. \A s \in Recordings : /\ row'[s].status = row[s].status
                               /\ s # r => row'[s] = row[s]
      BY <1>0, <1>7, <2>2 DEF ForgetKey, StoreTypes, Row
    <2>4. SourceRetained'
      BY <1>0, <1>7, <2>2, <2>3
         DEF ForgetKey, SourceRetained, Retired, RetiredStates, GoneStates, KeptStates
    <2>5. \A s \in Recordings : (Checked(s) => Checked(s)') /\ (Retired(s) => Retired(s)')
      BY <1>7, <2>2, <2>3 DEF ForgetKey, Checked, Retired, RetiredStates, GoneStates
    <2>6. MovesOnly({"finish"})
      BY <1>0, <1>7, <2>1, StepFrame DEF ForgetKey
    <2>7. CleansRetired'
      BY <1>0, <1>7, <1>k, <2>5, <2>6, EventsUntouched, CleansKept
         DEF ForgetKey, InsertsOnly, MovesOnly, Forgetting
    <2>8. CompletionChecked'
      BY <1>0, <1>7, <2>5, CompletionKept DEF ForgetKey
    <2> QED BY <2>4, <2>7, <2>8 DEF SourceInv
  <1>8. ASSUME NEW h \in Slots, FinishCheck(h) PROVE SourceInv'
    <2>1. handler[h].step \in JobSteps
      BY <1>8, StepDefs DEF FinishCheck
    <2>2. InsertsOnly({}) /\ MovesOnly({"tombstone"})
      <3>1. CASE Goes(h, "tombstone") /\ UNCHANGED events
        BY <1>0, <2>1, <3>1, StepFrame, EventsUntouched
      <3>2. CASE JobCompleted(h)
        BY <1>0, <2>1, <3>2, JobCompletedFrame DEF MovesOnly
      <3> QED BY <1>8, <3>1, <3>2 DEF FinishCheck
    <2> QED BY <1>8, <1>k, <2>2, SourceJobStep DEF FinishCheck, MovesOnly, Forgetting
  <1>9. ASSUME NEW h \in Slots, FinishDelete(h) PROVE SourceInv'
    <2> DEFINE r == handler[h].rec
    <2>1. handler[h].step \in JobSteps
      BY <1>9, StepDefs DEF FinishDelete
    <2>2. r \in Recordings /\ row[r] \in Row
      BY <1>0, <2>1, HandlerRecord
    <2>3. \/ row' = row
          \/ /\ row[r].status = "DELETE_PENDING"
             /\ row' = [row EXCEPT ![r] = [row[r] EXCEPT !.status = "DELETED"]]
      BY <1>9 DEF FinishDelete, RowAfter, transitionAllowed
    <2>4. \A s \in Recordings : /\ row'[s].key = row[s].key
                               /\ \/ row'[s].status = row[s].status
                                  \/ row[s].status = "DELETE_PENDING" /\ row'[s].status = "DELETED"
      BY <1>0, <2>2, <2>3 DEF StoreTypes, Row
    <2>5. SourceRetained'
      BY <1>0, <1>9, <2>4 DEF FinishDelete, SourceRetained, KeptStates
    <2>6. \A s \in Recordings : (Checked(s) => Checked(s)') /\ (Retired(s) => Retired(s)')
      BY <1>9, <2>4 DEF FinishDelete, Checked, Retired, RetiredStates, GoneStates, NoRow
    <2>7. InsertsOnly({}) /\ MovesOnly({})
      BY <1>0, <1>9, <2>1, JobCompletedFrame DEF FinishDelete
    <2>8. CleansRetired'
      BY <1>0, <1>k, <2>6, <2>7, CleansKept DEF InsertsOnly, MovesOnly, Forgetting
    <2>9. CompletionChecked'
      BY <1>0, <1>9, <2>6, CompletionKept DEF FinishDelete
    <2> QED BY <2>5, <2>8, <2>9 DEF SourceInv
  <1>10. ASSUME NEW h \in MaintenanceSlots, NEW r \in Recordings, ExpireRow(h, r) PROVE SourceInv'
    <2>1. /\ row[r].status = "STAGING" /\ row'[r].status = "EXPIRED"
          /\ \A s \in Recordings : s # r => row'[s] = row[s]
      BY <1>0, <1>10 DEF ExpireRow, transitionAllowed, StoreTypes, Row
    <2>2. SourceRetained'
      BY <1>0, <1>10, <2>1 DEF ExpireRow, SourceRetained, KeptStates
    <2>3. \A s \in Recordings : (Checked(s) => Checked(s)') /\ (Retired(s) => Retired(s)')
      BY <1>10, <2>1 DEF ExpireRow, Checked, Retired, RetiredStates, GoneStates, NoRow
    <2>4. \A g \in Slots : handler'[g] = handler[g] \/ handler'[g].rec = r
      BY <1>0, <1>10 DEF ExpireRow, JobInv, JobTypes
    <2>5. CleansRetired'
      BY <1>0, <1>10, <2>1, <2>3, <2>4, EventsUntouched, CleansKept
         DEF ExpireRow, InsertsOnly, RetiredStates
    <2>6. CompletionChecked'
      BY <1>0, <1>10, <2>3, CompletionKept DEF ExpireRow
    <2> QED BY <2>2, <2>5, <2>6 DEF SourceInv
  <1>11. ASSUME NEW h \in MaintenanceSlots, ExpireIntent(h) PROVE SourceInv'
    <2> DEFINE r == handler[h].rec
    <2>1. Forgetting(h)
      BY <1>11, <1>k DEF ExpireIntent, Forgetting
    <2>2. row[r].status \in RetiredStates
      BY <1>0, <2>1 DEF CleansRetired, Retired
    <2>3. PICK e \in Free : events' = [events EXCEPT ![e] = Intent("storage.cleanup", r)]
      BY <1>11 DEF ExpireIntent, insertOutboxEvent
    <2>4. \A f \in EventIds : events'[f] # NoEvent => SameJob(f) \/ events'[f].rec = r
      BY <1>0, <2>3 DEF SameJob, Live, Free, Intent, JobInv, JobTypes
    <2>5. MovesOnly({})
      BY <1>0, <1>11 DEF ExpireIntent, MovesOnly, Idle, JobInv, JobTypes
    <2>6. UNCHANGED <<row, object, request>>
      BY <1>11 DEF ExpireIntent
    <2>7. \A s \in Recordings : (Checked(s) => Checked(s)') /\ (Retired(s) => Retired(s)')
      BY <2>6 DEF Checked, Retired
    <2>8. \A f \in EventIds : events'[f] # NoEvent =>
              SameJob(f) \/ row'[events'[f].rec].status \in RetiredStates
      BY <2>2, <2>4, <2>6
    <2>9. CleansRetired'
      BY <1>0, <1>k, <2>5, <2>7, <2>8, CleansKept DEF MovesOnly, Forgetting
    <2>10. CompletionChecked' /\ SourceRetained'
      BY <1>0, <2>6 DEF CompletionChecked, Checked, SourceRetained
    <2> QED BY <2>9, <2>10 DEF SourceInv
  <1> QED
    BY <1>1, <1>2, <1>3, <1>4, <1>5, <1>6, <1>7, <1>8, <1>9, <1>10, <1>11 DEF CleanupNext

\* SourceInv holds initially.
LEMMA SourceInit ==
    ASSUME Init
    PROVE  SourceInv
  <1>1. SourceRetained
    BY DEF Init, SourceRetained, EmptyRow, NoRow, KeptStates
  <1>2. CompletionChecked
    BY DEF Init, CompletionChecked, NoRequest
  <1>3. CleansRetired
    BY DEF Init, CleansRetired, Live, Forgetting, Idle, CleanupSteps, ExpireSteps
  <1> QED BY <1>1, <1>2, <1>3 DEF SourceInv

\* Every step keeps SourceInv.
LEMMA SourcePreserved ==
    ASSUME PipelineAssumption, TypeInv, SourceInv, [Next]_vars
    PROVE  SourceInv'
  <1>1. CASE UNCHANGED vars
    BY <1>1 DEF vars, SourceInv, SourceRetained, CompletionChecked, Checked, CleansRetired, Live,
                Retired, Forgetting
  <1>2. CASE UploadNext \/ PollNext
    <2>1. UNCHANGED <<request, object>>
      BY <1>2 DEF UploadNext, PollNext, UploadStart, UploadRedirect, UploadClaim, OpenSession,
                  PersistSession, ProbeSession, SendAccepted, SendUnclear, SendPartial, Sending,
                  UploadThrows, SaveVideo, UploadFail, SessionExpires, uploadUnchanged,
                  PollStart, PollReady, PollFailed, PollPrivate, PollAgain, pollUnchanged,
                  storageVars
    <2>2. /\ InsertsOnly({"youtube.poll-processing"}) /\ \A r \in Recordings : OnPath(r)
          /\ MovesOnly(UploadSteps) \/ MovesOnly(PollSteps)
      BY <1>2, UploadFrame, PollFrame
    <2>3. /\ InsertsOnly({"youtube.poll-processing", "youtube.upload"})
          /\ MovesOnly(UploadSteps \cup PollSteps)
      BY <2>2 DEF InsertsOnly, MovesOnly
    <2> QED BY <2>1, <2>2, <2>3, SourceFrame
  <1>3. CASE WorkerNext
    <2>1. UNCHANGED <<request, object>>
      BY <1>3 DEF WorkerNext, Dispatch, Acknowledge, ScanSelect, ScanInsert, DeferralLapses,
                  RecoverProcessing, RecoverStale, Crash, RecoverSelectProcessing,
                  RecoverSelectStale, StartWorkers, Reconnect, workerUnchanged, storageVars
    <2>2. /\ InsertsOnly({"youtube.poll-processing", "youtube.upload"}) /\ MovesOnly({})
          /\ \A r \in Recordings : OnPath(r)
      BY <1>3, WorkerFrame DEF OnPath
    <2>3. MovesOnly(UploadSteps \cup PollSteps)
      BY <2>2 DEF MovesOnly
    <2> QED BY <2>1, <2>2, <2>3, SourceFrame
  <1> QED BY <1>1, <1>2, <1>3, SourceRequests, SourceCleanup DEF Next

\* In every reachable state the source of a recording somebody still needs is there,
\* a completion that checked it will find it, and only retired rows are cleaned up.
THEOREM SourceInvariant == Spec => []SourceInv
  <1>1. Init => SourceInv
    BY SourceInit
  <1>2. TypeInv /\ SourceInv /\ [Next]_vars => SourceInv'
    BY SourcePreserved, PipelineAssumption
  <1> QED BY <1>1, <1>2, TypesInvariant, PTL DEF Spec

\* A verified recording keeps its key and its object until it is deleted: no
\* request, job, sweep or crash of the code can take them from it.
THEOREM SourceIsRetained == Spec => []SourceRetained
  <1>1. SourceInv => SourceRetained
    BY DEF SourceInv
  <1> QED BY <1>1, SourceInvariant, PTL
-----------------------------------------------------------------------------
(* UploadExclusive: steps outside the upload handler *)

\* The recording is being or has been deleted.
Gone(r) == row[r].status \in GoneStates

\* A job that deletes a video works on a row that stays deleted.
LEMMA DeletesKept ==
    ASSUME TypeInv, DeletesGone, \A r \in Recordings : Gone(r) => Gone(r)',
           \A h \in Slots :
              \/ handler'[h] = handler[h]
              \/ handler'[h].step \in DeleteSteps => row'[handler'[h].rec].status \in GoneStates,
           \A e \in EventIds : events'[e] # NoEvent /\ events'[e].type = "youtube.delete" =>
              SameJob(e) \/ row'[events'[e].rec].status \in GoneStates
    PROVE  DeletesGone'
  <1>1. ASSUME NEW e \in EventIds, Live(e)', events'[e].type = "youtube.delete"
        PROVE  row'[events'[e].rec].status \in GoneStates
    <2>1. CASE SameJob(e)
      BY <1>1, <2>1, JobRecordings DEF SameJob, DeletesGone, Gone
    <2> QED BY <1>1, <2>1 DEF Live
  <1>2. ASSUME NEW h \in Slots, handler'[h].step \in DeleteSteps
        PROVE  row'[handler'[h].rec].status \in GoneStates
    <2>1. CASE handler'[h] = handler[h]
      <3>1. handler[h].step \in JobSteps
        BY <1>2, <2>1 DEF JobSteps
      <3> QED BY <1>2, <2>1, <3>1, HandlerRecord DEF DeletesGone, Gone
    <2> QED BY <1>2, <2>1
  <1> QED BY <1>1, <1>2 DEF DeletesGone

\* Rows, handlers and intents as every component but the upload handler leaves them.
LEMMA UploadElsewhere ==
    ASSUME TypeInv, UploadInv,
           \A r \in Recordings :
              /\ Gone(r) => Gone(r)'
              /\ \/ row'[r].video = row[r].video
                 \/ Gone(r)
                 \/ row[r].status = NoRow /\ row'[r].video = None
              /\ row[r].status = "YOUTUBE_UPLOADING" =>
                    row'[r].status \in GoneStates \cup {"YOUTUBE_UPLOADING"}
              /\ row'[r].status = NoRow => row[r].status = NoRow,
           \A h \in Slots :
              \/ handler'[h] = handler[h]
              \/ /\ handler'[h].step \notin UploadSteps
                 /\ handler'[h].step \in DeleteSteps => row'[handler'[h].rec].status \in GoneStates,
           \A e \in EventIds : events'[e] # NoEvent /\ events'[e].type = "youtube.delete" =>
              SameJob(e) \/ row'[events'[e].rec].status \in GoneStates
    PROVE  UploadInv'
  <1>0. /\ UploadExclusive /\ DeletesGone /\ UploadKnows /\ NoRowNoVideo
        /\ YoutubeSlots \subseteq Slots /\ NoRow \notin GoneStates
    BY DEF UploadInv, Slots, NoRow, GoneStates
  <1>1. DeletesGone'
    BY <1>0, DeletesKept
  <1>2. NoRowNoVideo'
    BY <1>0 DEF NoRowNoVideo, Gone
  <1>3. \A h \in Slots : handler'[h].step \in UploadSteps => handler'[h] = handler[h]
    OBVIOUS
  <1>4. UploadExclusive'
    <2>1. ASSUME NEW r \in Recordings, NEW h \in YoutubeSlots, InAttempt(h, r)',
                 row'[r].video = None, row'[r].status \notin GoneStates
          PROVE  /\ row'[r].status = "YOUTUBE_UPLOADING"
                 /\ \A g \in YoutubeSlots : InAttempt(g, r)' => g = h
      <3>1. \A g \in YoutubeSlots : InAttempt(g, r)' => InAttempt(g, r)
        BY <1>0, <1>3 DEF InAttempt, AttemptSteps, UploadSteps
      <3>2. ~Gone(r) /\ row[r].video = None
        BY <1>0, <2>1 DEF Gone, NoRowNoVideo
      <3>3. row[r].status = "YOUTUBE_UPLOADING"
        BY <1>0, <2>1, <3>1, <3>2 DEF UploadExclusive, Gone
      <3> QED BY <1>0, <2>1, <3>1, <3>2, <3>3 DEF UploadExclusive, Gone
    <2> QED BY <2>1 DEF UploadExclusive
  <1>5. UploadKnows'
    <2>1. ASSUME NEW h \in Slots, handler'[h].step = "redirect"
          PROVE  \/ row'[handler'[h].rec].video # None
                 \/ row'[handler'[h].rec].status \in GoneStates
      <3>1. handler'[h] = handler[h] /\ handler[h].step = "redirect"
        BY <1>3, <2>1 DEF UploadSteps
      <3>2. handler[h].rec \in Recordings
        BY <3>1, StepDefs, HandlerRecord
      <3>3. row[handler[h].rec].video # None \/ Gone(handler[h].rec)
        BY <1>0, <3>1 DEF UploadKnows, Gone
      <3> QED BY <1>0, <3>1, <3>2, <3>3 DEF NoRowNoVideo, Gone
    <2>2. \A h \in Slots : handler'[h].step \in {"persist", "send", "save"} =>
              handler'[h].session # None
      BY <1>0, <1>3 DEF UploadKnows, UploadSteps
    <2> QED BY <2>1, <2>2 DEF UploadKnows
  <1> QED BY <1>1, <1>2, <1>4, <1>5 DEF UploadInv

\* The web requests and the browser.
LEMMA RequestFrame ==
    ASSUME PipelineAssumption, TypeInv, RequestNext
    PROVE  /\ UNCHANGED handler
           /\ \A r \in Recordings :
                 \/ row'[r].status = row[r].status /\ row'[r].video = row[r].video
                 \/ /\ row[r].status = NoRow /\ row'[r].status = "STAGING"
                    /\ row'[r].video = None
                 \/ /\ row'[r].video = row[r].video
                    /\ \/ row[r].status \in {"STAGING", "FAILED"} /\ row'[r].status = "QUEUED"
                       \/ row'[r].status = "DELETE_PENDING"
           /\ \A e \in EventIds : events'[e] # NoEvent /\ events'[e].type = "youtube.delete" =>
                 SameJob(e) \/ row'[events'[e].rec].status \in GoneStates
  <1> USE DEF webUnchanged
  <1> DEFINE RowMoves ==
        \A r \in Recordings :
            \/ row'[r].status = row[r].status /\ row'[r].video = row[r].video
            \/ /\ row[r].status = NoRow /\ row'[r].status = "STAGING"
               /\ row'[r].video = None
            \/ /\ row'[r].video = row[r].video
               /\ \/ row[r].status \in {"STAGING", "FAILED"} /\ row'[r].status = "QUEUED"
                  \/ row'[r].status = "DELETE_PENDING"
      Deletes ==
        \A e \in EventIds : events'[e] # NoEvent /\ events'[e].type = "youtube.delete" =>
            SameJob(e) \/ row'[events'[e].rec].status \in GoneStates
  <1>0. StoreTypes /\ JobInv
    BY DEF TypeInv
  <1>s. UNCHANGED events => Deletes
    BY DEF SameJob, Live
  <1>t. UNCHANGED row => RowMoves
    OBVIOUS
  <1>1. ASSUME NEW q \in Requests, NEW r \in Recordings, CreateInsert(q, r)
        PROVE  UNCHANGED handler /\ RowMoves /\ Deletes
    <2>1. RowMoves
      BY <1>0, <1>1 DEF CreateInsert, StoreTypes, EmptyRow
    <2> QED BY <1>1, <1>s, <2>1 DEF CreateInsert
  <1>2. ASSUME NEW q \in Requests, CreateFinish(q)
        PROVE  UNCHANGED handler /\ RowMoves /\ Deletes
    <2>1. request[q].rec \in Recordings
      BY <1>0, <1>2, RequestRecord DEF CreateFinish
    <2>2. RowMoves
      BY <1>0, <1>2, <2>1 DEF CreateFinish, StoreTypes, Row
    <2> QED BY <1>2, <1>s, <2>2 DEF CreateFinish
  <1>3. CASE \/ \E r \in Recordings : BrowserPut(r) \/ UrlExpires(r)
             \/ \E q \in Requests : RequestLost(q)
             \/ \E q \in Requests, r \in Recordings :
                   CompleteCheck(q, r) \/ RetryCheck(q, r) \/ DeleteCheck(q, r)
    BY <1>3, <1>s, <1>t
       DEF BrowserPut, UrlExpires, RequestLost, CompleteCheck, RetryCheck, DeleteCheck
  <1>4. ASSUME NEW q \in Requests, CompleteCommit(q) \/ RetryCommit(q)
        PROVE  UNCHANGED handler /\ RowMoves /\ Deletes
    <2>1. request[q].rec \in Recordings
      BY <1>0, <1>4, RequestRecord DEF CompleteCommit, RetryCommit
    <2>2. RowMoves
      <3>1. CASE /\ row[request[q].rec].status \in {"STAGING", "FAILED"}
                 /\ row' = [row EXCEPT ![request[q].rec].status = "QUEUED"]
        BY <1>0, <2>1, <3>1 DEF StoreTypes, Row
      <3> QED BY <1>4, <1>t, <3>1 DEF CompleteCommit, RetryCommit, transitionAllowed
    <2>3. Deletes
      BY <1>0, <1>4, <1>s DEF CompleteCommit, RetryCommit, insertOutboxEvent, Intent, SameJob, Live,
                              Free, JobInv, JobTypes
    <2> QED BY <1>4, <2>2, <2>3 DEF CompleteCommit, RetryCommit
  <1>5. ASSUME NEW q \in Requests, DeleteCommit(q)
        PROVE  UNCHANGED handler /\ RowMoves /\ Deletes
    <2> DEFINE r == request[q].rec
    <2>1. r \in Recordings
      BY <1>0, <1>5, RequestRecord DEF DeleteCommit
    <2>2. RowMoves
      <3>1. CASE row' = [row EXCEPT ![r].status = "DELETE_PENDING"]
        BY <1>0, <2>1, <3>1 DEF StoreTypes, Row
      <3> QED BY <1>5, <1>t, <3>1 DEF DeleteCommit
    <2>3. CASE ~UNCHANGED <<row, events>>
      <3>1. row'[r].status \in GoneStates
        BY <1>0, <1>5, <2>1, <2>3 DEF DeleteCommit, GoneStates, StoreTypes, Row
      <3>2. PICK e \in Free, f \in Free :
              events' = [events EXCEPT
                  ![e] = IF request[q].video # None THEN Intent("youtube.delete", r) ELSE NoEvent,
                  ![f] = IF request[q].key # "null" THEN Intent("storage.cleanup", r) ELSE NoEvent]
        BY <1>5, <2>3 DEF DeleteCommit
      <3>3. ASSUME NEW g \in EventIds, events'[g] # NoEvent
            PROVE  SameJob(g) \/ events'[g].rec = r
        BY <1>0, <3>2, <3>3 DEF SameJob, Live, Free, Intent, JobInv, JobTypes
      <3>4. Deletes
        BY <3>1, <3>3
      <3> QED BY <1>5, <2>2, <3>4 DEF DeleteCommit
    <2> QED BY <1>5, <1>s, <2>2, <2>3 DEF DeleteCommit
  <1> QED BY <1>1, <1>2, <1>3, <1>4, <1>5 DEF RequestNext

\* The jobs that take things away.
LEMMA CleanupFrame ==
    ASSUME PipelineAssumption, TypeInv, DeletesGone, CleanupNext
    PROVE  /\ \A h \in Slots :
                 \/ handler'[h] = handler[h]
                 \/ /\ handler'[h].step \notin UploadSteps
                    /\ handler'[h].step \in DeleteSteps =>
                          row'[handler'[h].rec].status \in GoneStates
           /\ \A r \in Recordings :
                 \/ row'[r].status = row[r].status /\ row'[r].video = row[r].video
                 \/ row'[r].status = row[r].status /\ Gone(r) /\ row'[r].video = None
                 \/ /\ row'[r].video = row[r].video
                    /\ \/ row[r].status = "STAGING" /\ row'[r].status = "EXPIRED"
                       \/ row[r].status = "DELETE_PENDING" /\ row'[r].status = "DELETED"
           /\ InsertsOnly({"storage.cleanup"})
  <1> USE DEF cleanupUnchanged, At
  <1> DEFINE Moves == \A h \in Slots :
                 \/ handler'[h] = handler[h]
                 \/ /\ handler'[h].step \notin UploadSteps
                    /\ handler'[h].step \in DeleteSteps =>
                          row'[handler'[h].rec].status \in GoneStates
             RowMoves == \A r \in Recordings :
                 \/ row'[r].status = row[r].status /\ row'[r].video = row[r].video
                 \/ row'[r].status = row[r].status /\ Gone(r) /\ row'[r].video = None
                 \/ /\ row'[r].video = row[r].video
                    /\ \/ row[r].status = "STAGING" /\ row'[r].status = "EXPIRED"
                       \/ row[r].status = "DELETE_PENDING" /\ row'[r].status = "DELETED"
             Goal == Moves /\ RowMoves /\ InsertsOnly({"storage.cleanup"})
  <1>0. /\ StoreTypes /\ JobInv
        /\ YoutubeSlots \subseteq Slots /\ MaintenanceSlots \subseteq Slots
        /\ InsertsOnly({}) => InsertsOnly({"storage.cleanup"})
        /\ UNCHANGED row => RowMoves
    BY DEF TypeInv, Slots, InsertsOnly
  <1>k. /\ DeleteSteps = {"delete", "forget"}
        /\ UploadSteps = {"redirect", "claim", "session", "persist", "send", "save", "fail"}
    BY DEF DeleteSteps, UploadSteps
  <1>m. MovesOnly({"remove", "forgetKey", "finish", "tombstone", "intent"}) => Moves
    BY <1>k DEF MovesOnly
  <1>1. ASSUME NEW h \in YoutubeSlots, NEW e \in EventIds, DeleteStart(h, e) PROVE Goal
    <2>1. Takes(h, e, "youtube.delete") /\ "youtube.delete" \in IntentTypes
      BY <1>1 DEF DeleteStart, IntentTypes
    <2>2. PICK job : /\ NothingToDo(e) \/ (Starts(h, e, job) /\ job.step \in {"delete"})
                     /\ job.rec = events[e].rec
      BY <1>1 DEF DeleteStart, Job
    <2>3. InsertsOnly({}) /\ MovesOnly({"delete"})
      BY <2>1, <2>2, StartsFrame
    <2>4. row'[events[e].rec].status \in GoneStates
      BY <1>1, <2>1 DEF Takes, DeletesGone, Live, DeleteStart
    <2>5. \A g \in Slots : handler'[g] = handler[g] \/ handler'[g] = job
      BY <1>0, <2>2 DEF Starts, NothingToDo, JobInv, JobTypes
    <2>6. Moves
      BY <1>k, <2>2, <2>3, <2>4, <2>5 DEF MovesOnly
    <2> QED BY <1>0, <1>1, <2>3, <2>6 DEF DeleteStart
  <1>2. ASSUME NEW h \in YoutubeSlots, RemoveVideo(h) PROVE Goal
    <2>1. handler[h].step \in JobSteps /\ handler[h].step \in DeleteSteps
      BY <1>2, <1>k, StepDefs DEF RemoveVideo
    <2>2. row'[handler[h].rec].status \in GoneStates
      BY <1>0, <1>2, <2>1 DEF DeletesGone, RemoveVideo
    <2>3. \A g \in Slots :
              \/ handler'[g] = handler[g]
              \/ handler'[g].step = "forget" /\ handler'[g].rec = handler[h].rec
      <3>1. handler[h] \in Handler
        BY <1>0, <2>1, HandlerCases DEF JobInv
      <3> DEFINE next == [handler[h] EXCEPT !.step = "forget"]
      <3>2. next.rec = handler[h].rec /\ next.step = "forget"
        BY <3>1 DEF Handler
      <3>3. handler' = [handler EXCEPT ![h] = next]
        BY <1>0, <1>2 DEF RemoveVideo, Goes, JobInv, JobTypes
      <3> HIDE DEF next
      <3>4. \A g \in Slots : handler'[g] = handler[g] \/ handler'[g] = next
        BY <1>0, <3>3 DEF JobInv, JobTypes
      <3> QED BY <3>2, <3>4
    <2>4. Moves
      BY <1>k, <2>2, <2>3
    <2> QED BY <1>0, <1>2, <2>4, EventsUntouched DEF RemoveVideo
  <1>3. ASSUME NEW h \in YoutubeSlots, DeleteThrows(h) PROVE Goal
    <2>1. InsertsOnly({}) /\ MovesOnly({})
      BY <1>0, <1>3, StepDefs, JobFailedFrame DEF DeleteThrows
    <2>2. Moves
      BY <1>k, <2>1 DEF MovesOnly
    <2> QED BY <1>0, <1>3, <2>1, <2>2 DEF DeleteThrows
  <1>4. ASSUME NEW h \in YoutubeSlots, ForgetVideo(h) PROVE Goal
    <2>1. handler[h].step \in JobSteps /\ handler[h].step \in DeleteSteps
      BY <1>4, <1>k, StepDefs DEF ForgetVideo
    <2>2. handler[h].rec \in Recordings /\ row[handler[h].rec] \in Row /\ Gone(handler[h].rec)
      BY <1>0, <2>1, HandlerRecord DEF DeletesGone, Gone
    <2>3. RowMoves
      BY <1>0, <1>4, <2>2 DEF ForgetVideo, StoreTypes, Row
    <2>4. MovesOnly({"finish"})
      BY <1>0, <1>4, <2>1, StepFrame DEF ForgetVideo
    <2>5. Moves
      BY <1>m, <2>4 DEF MovesOnly
    <2> QED BY <1>0, <1>4, <2>3, <2>5, EventsUntouched DEF ForgetVideo
  <1>5. ASSUME NEW h \in MaintenanceSlots, NEW e \in EventIds, CleanupStart(h, e) PROVE Goal
    <2>1. Takes(h, e, "storage.cleanup") /\ "storage.cleanup" \in IntentTypes
      BY <1>5 DEF CleanupStart, IntentTypes
    <2>2. PICK job : Starts(h, e, job) /\ job.step \in {"remove", "finish"}
      BY <1>5 DEF CleanupStart, Job
    <2>3. InsertsOnly({}) /\ MovesOnly({"remove", "finish"})
      BY <2>1, <2>2, StartsFrame
    <2>4. Moves
      BY <1>m, <2>3 DEF MovesOnly
    <2> QED BY <1>0, <1>5, <2>3, <2>4 DEF CleanupStart
  <1>6. ASSUME NEW h \in MaintenanceSlots, RemoveObject(h) \/ ForgetKey(h) PROVE Goal
    <2>1. handler[h].step \in JobSteps
      BY <1>6, StepDefs DEF RemoveObject, ForgetKey
    <2>2. handler[h].rec \in Recordings
      BY <1>0, <2>1, HandlerRecord
    <2>3. RowMoves
      <3>1. CASE row' = [row EXCEPT ![handler[h].rec].key = "null"]
        BY <1>0, <2>2, <3>1 DEF StoreTypes, Row
      <3> QED BY <1>0, <1>6, <3>1 DEF RemoveObject, ForgetKey
    <2>4. MovesOnly({"forgetKey", "finish"})
      BY <1>0, <1>6, <2>1, StepFrame DEF RemoveObject, ForgetKey
    <2>5. Moves
      BY <1>m, <2>4 DEF MovesOnly
    <2> QED BY <1>0, <1>6, <2>3, <2>5, EventsUntouched DEF RemoveObject, ForgetKey
  <1>7. ASSUME NEW h \in Slots, FinishCheck(h) PROVE Goal
    <2>1. handler[h].step \in JobSteps
      BY <1>7, StepDefs DEF FinishCheck
    <2>2. InsertsOnly({}) /\ MovesOnly({"tombstone"})
      <3>1. CASE Goes(h, "tombstone") /\ UNCHANGED events
        BY <1>0, <2>1, <3>1, StepFrame, EventsUntouched
      <3>2. CASE JobCompleted(h)
        BY <1>0, <2>1, <3>2, JobCompletedFrame DEF MovesOnly
      <3> QED BY <1>7, <3>1, <3>2 DEF FinishCheck
    <2>3. Moves
      BY <1>m, <2>2 DEF MovesOnly
    <2> QED BY <1>0, <1>7, <2>2, <2>3 DEF FinishCheck
  <1>8. ASSUME NEW h \in Slots, FinishDelete(h) PROVE Goal
    <2> DEFINE r == handler[h].rec
    <2>1. handler[h].step \in JobSteps
      BY <1>8, StepDefs DEF FinishDelete
    <2>2. r \in Recordings /\ row[r] \in Row
      BY <1>0, <2>1, HandlerRecord
    <2>3. \/ row' = row
          \/ /\ row[r].status = "DELETE_PENDING"
             /\ row' = [row EXCEPT ![r] = [row[r] EXCEPT !.status = "DELETED"]]
      BY <1>8 DEF FinishDelete, RowAfter, transitionAllowed
    <2>4. RowMoves
      <3>1. CASE row' = row
        BY <3>1
      <3>2. CASE /\ row[r].status = "DELETE_PENDING"
                 /\ row' = [row EXCEPT ![r] = [row[r] EXCEPT !.status = "DELETED"]]
        <4>1. \A s \in Recordings : s # r => row'[s] = row[s]
          BY <1>0, <3>2 DEF StoreTypes
        <4>2. row'[r].status = "DELETED" /\ row'[r].video = row[r].video
          BY <1>0, <2>2, <3>2 DEF StoreTypes, Row
        <4> QED BY <3>2, <4>1, <4>2
      <3> QED BY <2>3, <3>1, <3>2
    <2>5. InsertsOnly({}) /\ MovesOnly({})
      BY <1>0, <1>8, <2>1, JobCompletedFrame DEF FinishDelete
    <2>6. Moves
      BY <1>m, <2>5 DEF MovesOnly
    <2> QED BY <1>0, <2>4, <2>5, <2>6
  <1>9. ASSUME NEW h \in MaintenanceSlots, NEW r \in Recordings, ExpireRow(h, r) PROVE Goal
    <2>1. row' = [row EXCEPT ![r] = [row[r] EXCEPT !.status = "EXPIRED", !.key = "null"]]
      BY <1>0, <1>9 DEF ExpireRow, StoreTypes
    <2>2. RowMoves
      BY <1>0, <1>9, <2>1 DEF ExpireRow, transitionAllowed, StoreTypes, Row
    <2>3. Moves
      BY <1>0, <1>9, <1>k DEF ExpireRow, JobInv, JobTypes
    <2> QED BY <1>0, <1>9, <2>2, <2>3, EventsUntouched DEF ExpireRow
  <1>10. ASSUME NEW h \in MaintenanceSlots, ExpireIntent(h) PROVE Goal
    <2>1. InsertsOnly({"storage.cleanup"})
      BY <1>0, <1>10 DEF ExpireIntent, insertOutboxEvent, InsertsOnly, SameJob, Live, Intent, Free,
                         JobInv, JobTypes
    <2>2. Moves
      BY <1>0, <1>10, <1>k DEF ExpireIntent, Idle, JobInv, JobTypes
    <2> QED BY <1>0, <1>10, <2>1, <2>2 DEF ExpireIntent
  <1> QED
    BY <1>1, <1>2, <1>3, <1>4, <1>5, <1>6, <1>7, <1>8, <1>9, <1>10 DEF CleanupNext

\* The steps outside the upload handler keep UploadInv and VideoInv.
LEMMA UploadInvElsewhere ==
    ASSUME PipelineAssumption, TypeInv, UploadInv,
           RequestNext \/ PollNext \/ CleanupNext \/ WorkerNext
    PROVE  UploadInv'
  <1>k. /\ UploadSteps = {"redirect", "claim", "session", "persist", "send", "save", "fail"}
        /\ DeleteSteps = {"delete", "forget"} /\ PollSteps = {"poll"}
        /\ GoneStates = {"DELETE_PENDING", "DELETED"} /\ NoRow = "NONE"
    BY DEF UploadSteps, DeleteSteps, PollSteps, GoneStates, NoRow
  <1>1. CASE RequestNext
    BY <1>1, <1>k, RequestFrame, UploadElsewhere DEF Gone
  <1>2. CASE CleanupNext
    BY <1>2, <1>k, CleanupFrame, UploadElsewhere DEF Gone, InsertsOnly, UploadInv
  <1>3. CASE PollNext
    <2>1. \A r \in Recordings :
              /\ row'[r].video = row[r].video
              /\ \/ row'[r].status = row[r].status
                 \/ /\ row[r].status = "YOUTUBE_PROCESSING"
                    /\ row'[r].status \in {"READY", "FAILED"}
      BY <1>3, PollFrame DEF OnPath, PathMoves
    <2> QED BY <1>3, <1>k, <2>1, PollFrame, UploadElsewhere DEF Gone, InsertsOnly, MovesOnly
  <1>4. CASE WorkerNext
    BY <1>4, <1>k, WorkerFrame, UploadElsewhere DEF Gone, InsertsOnly, MovesOnly
  <1> QED BY <1>1, <1>2, <1>3, <1>4
-----------------------------------------------------------------------------
(* UploadExclusive and VideoWhenProcessed: steps of the upload handler *)

\* Nobody but h moves.
OthersKept(h) == \A g \in Slots : g # h => handler'[g] = handler[g]

\* A handler goes on with its attempt.
LEMMA AttemptGoesOn ==
    ASSUME TypeInv, UploadExclusive, NEW h \in YoutubeSlots, OthersKept(h),
           handler[h].step \in AttemptSteps, handler'[h].step \in AttemptSteps,
           handler'[h].rec = handler[h].rec,
           \A r \in Recordings : row'[r].status = row[r].status /\ row'[r].video = row[r].video
    PROVE  UploadExclusive'
  <1>1. \A g \in YoutubeSlots, r \in Recordings : InAttempt(g, r)' => InAttempt(g, r)
    BY DEF OthersKept, InAttempt, Slots
  <1> QED BY <1>1 DEF UploadExclusive

\* A handler is not, or no longer, in an attempt.
LEMMA AttemptEnds ==
    ASSUME TypeInv, UploadExclusive, NEW h \in YoutubeSlots, OthersKept(h),
           handler'[h].step \notin AttemptSteps,
           \A r \in Recordings :
              /\ Gone(r) => Gone(r)'
              /\ \/ row'[r].status = row[r].status /\ row'[r].video = row[r].video
                 \/ row'[r].video # None
                 \/ Gone(r)
                 \/ InAttempt(h, r) /\ row'[r].video = row[r].video
    PROVE  UploadExclusive'
  <1>1. ASSUME NEW r \in Recordings, NEW g \in YoutubeSlots, InAttempt(g, r)',
               row'[r].video = None, row'[r].status \notin GoneStates
        PROVE  /\ row'[r].status = "YOUTUBE_UPLOADING"
               /\ \A f \in YoutubeSlots : InAttempt(f, r)' => f = g
    <2>1. g # h /\ InAttempt(g, r) /\ ~Gone(r) /\ row[r].video = None
      BY <1>1 DEF InAttempt, OthersKept, Slots, Gone
    <2>2. ~InAttempt(h, r)
      BY <2>1 DEF UploadExclusive, Gone
    <2>3. row'[r].status = row[r].status
      BY <1>1, <2>1, <2>2
    <2>4. \A f \in YoutubeSlots : InAttempt(f, r)' => InAttempt(f, r)
      BY DEF InAttempt, OthersKept, Slots
    <2> QED BY <2>1, <2>3, <2>4 DEF UploadExclusive, Gone
  <1> QED BY <1>1 DEF UploadExclusive

\* What one handler's step must establish for the other parts of UploadInv and
\* VideoInv.
LEMMA UploadStepInv ==
    ASSUME TypeInv, UploadInv, VideoInv, NEW h \in Slots, OthersKept(h), UploadExclusive',
           \A r \in Recordings : OnPath(r),
           handler'[h].step \notin DeleteSteps,
           InsertsOnly({"youtube.poll-processing"}),
           handler'[h].step = "redirect" => row'[handler'[h].rec].video # None,
           handler'[h].step \in {"persist", "send", "save"} => handler'[h].session # None,
           handler'[h].step = "save" => handler'[h].session \in inserted'[handler'[h].rec],
           \A r \in Recordings : inserted[r] \subseteq inserted'[r],
           \A r \in Recordings :
              \/ row'[r].video = row[r].video
              \/ row[r].status # NoRow /\ row'[r].video # None /\ row'[r].video \in inserted'[r],
           \A r \in Recordings :
              row'[r].status = "YOUTUBE_PROCESSING" /\ row[r].status # "YOUTUBE_PROCESSING" =>
                  row'[r].video # None
    PROVE  UploadInv' /\ VideoInv'
  <1>0. /\ UploadExclusive /\ DeletesGone /\ UploadKnows /\ NoRowNoVideo
        /\ VideoWhenProcessed /\ VideosAreReal
    BY DEF UploadInv, VideoInv
  <1>1. \A r \in Recordings : Gone(r) => row'[r].status \in GoneStates
    BY DEF Gone, GoneStates, OnPath, PathMoves
  <1>n. \A r \in Recordings : row'[r].status = NoRow => row[r].status = NoRow
    BY DEF OnPath, PathMoves, NoRow
  <1>v. \A r \in Recordings : row[r].video # None => row'[r].video # None
    OBVIOUS
  <1>r. \A r \in Recordings : row'[r].status = "READY" =>
            row[r].status \in {"READY", "YOUTUBE_PROCESSING"}
    BY DEF OnPath, PathMoves
  <1>2. DeletesGone'
    <2>1. \A g \in Slots : handler'[g] = handler[g] \/ handler'[g].step \notin DeleteSteps
      BY DEF OthersKept
    <2>2. \A e \in EventIds :
              events'[e] # NoEvent /\ events'[e].type = "youtube.delete" => SameJob(e)
      BY DEF InsertsOnly
    <2>3. \A r \in Recordings : Gone(r) => Gone(r)'
      BY <1>1 DEF Gone
    <2> QED BY <1>0, <2>1, <2>2, <2>3, DeletesKept
  <1>3. NoRowNoVideo'
    <2>1. ASSUME NEW r \in Recordings, row'[r].status = NoRow
          PROVE  row'[r].video = None
      <3>1. row[r].status = NoRow /\ row[r].video = None
        BY <1>0, <1>n, <2>1 DEF NoRowNoVideo
      <3> QED BY <3>1
    <2> QED BY <2>1 DEF NoRowNoVideo
  <1>4. UploadKnows'
    <2>1. ASSUME NEW g \in Slots, handler'[g].step = "redirect", g # h
          PROVE  \/ row'[handler'[g].rec].video # None
                 \/ row'[handler'[g].rec].status \in GoneStates
      <3>1. handler'[g] = handler[g]
        BY <2>1 DEF OthersKept
      <3>2. handler[g].rec \in Recordings
        BY <2>1, <3>1, StepDefs, HandlerRecord
      <3>3. row[handler[g].rec].video # None \/ Gone(handler[g].rec)
        BY <1>0, <2>1, <3>1 DEF UploadKnows, Gone
      <3>4. \/ row'[handler[g].rec].video # None
            \/ row'[handler[g].rec].status \in GoneStates
        BY <1>1, <1>v, <3>2, <3>3
      <3> QED BY <3>1, <3>4
    <2>2. \A g \in Slots : handler'[g].step \in {"persist", "send", "save"} =>
              handler'[g].session # None
      BY <1>0 DEF UploadKnows, OthersKept
    <2> QED BY <2>1, <2>2 DEF UploadKnows
  <1>5. VideosAreReal'
    <2>1. ASSUME NEW g \in Slots, handler'[g].step = "save", g # h
          PROVE  handler'[g].session \in inserted'[handler'[g].rec]
      <3>1. handler'[g] = handler[g]
        BY <2>1 DEF OthersKept
      <3>2. handler[g].rec \in Recordings
        BY <2>1, <3>1, StepDefs, HandlerRecord
      <3> QED BY <1>0, <2>1, <3>1, <3>2 DEF VideosAreReal
    <2>2. \A r \in Recordings : row'[r].video # None => row'[r].video \in inserted'[r]
      BY <1>0 DEF VideosAreReal
    <2> QED BY <2>1, <2>2 DEF VideosAreReal
  <1>6. VideoWhenProcessed'
    <2>1. ASSUME NEW r \in Recordings, row'[r].status \in {"YOUTUBE_PROCESSING", "READY"}
          PROVE  row'[r].video \in inserted'[r]
      <3>1. CASE row[r].status \in {"YOUTUBE_PROCESSING", "READY"}
        BY <1>0, <3>1 DEF VideoWhenProcessed
      <3>2. CASE row[r].status \notin {"YOUTUBE_PROCESSING", "READY"}
        BY <1>r, <1>5, <2>1, <3>2 DEF VideosAreReal
      <3> QED BY <3>1, <3>2
    <2> QED BY <2>1 DEF VideoWhenProcessed
  <1> QED BY <1>2, <1>3, <1>4, <1>5, <1>6 DEF UploadInv, VideoInv

\* The steps of the upload handler keep UploadInv and VideoInv.
LEMMA UploadHandlerInv ==
    ASSUME PipelineAssumption, TypeInv, UploadInv, VideoInv, UploadNext
    PROVE  UploadInv' /\ VideoInv'
  <1> USE DEF At, uploadUnchanged, providerVars
  <1>0. /\ YoutubeSlots \subseteq Slots /\ JobInv /\ StoreTypes
        /\ UploadExclusive /\ UploadKnows /\ VideosAreReal /\ NoRowNoVideo /\ DeletesGone
    BY DEF Slots, TypeInv, UploadInv, VideoInv
  <1>k. /\ DeleteSteps = {"delete", "forget"}
        /\ AttemptSteps = {"session", "persist", "send", "save", "fail"}
        /\ GoneStates = {"DELETE_PENDING", "DELETED"} /\ NoRow = "NONE"
    BY DEF DeleteSteps, AttemptSteps, GoneStates, NoRow
  <1>f. /\ InsertsOnly({"youtube.poll-processing"}) /\ \A r \in Recordings : OnPath(r)
        /\ \A r \in Recordings : Gone(r) => Gone(r)'
    <2>1. InsertsOnly({"youtube.poll-processing"}) /\ \A r \in Recordings : OnPath(r)
      BY UploadFrame
    <2> QED BY <2>1 DEF OnPath, PathMoves, Gone, GoneStates
  \* The job ends, and the tables say nothing new of the video.
  <1>e. ASSUME NEW h \in YoutubeSlots, OthersKept(h), handler'[h].step = "idle",
               \A r \in Recordings :
                  /\ row'[r].video = row[r].video
                  /\ \/ row'[r].status = row[r].status
                     \/ row'[r].video # None
                     \/ InAttempt(h, r) /\ row'[r].status # "YOUTUBE_PROCESSING",
               \A r \in Recordings : inserted[r] \subseteq inserted'[r]
        PROVE  UploadInv' /\ VideoInv'
    <2>1. UploadExclusive'
      BY <1>0, <1>e, <1>f, <1>k, AttemptEnds
    <2> QED BY <1>0, <1>e, <1>f, <1>k, <2>1, UploadStepInv
  \* The attempt goes on, and the tables keep status and video.
  <1>g. ASSUME NEW h \in YoutubeSlots, OthersKept(h), handler[h].step \in AttemptSteps,
               handler'[h].step \in AttemptSteps, handler'[h].rec = handler[h].rec,
               \A r \in Recordings :
                  row'[r].status = row[r].status /\ row'[r].video = row[r].video,
               handler'[h].step \in {"persist", "send", "save"} => handler'[h].session # None,
               handler'[h].step = "save" => handler'[h].session \in inserted'[handler'[h].rec],
               \A r \in Recordings : inserted[r] \subseteq inserted'[r]
        PROVE  UploadInv' /\ VideoInv'
    <2>1. UploadExclusive'
      BY <1>0, <1>g, AttemptGoesOn
    <2> QED BY <1>0, <1>g, <1>f, <1>k, <2>1, UploadStepInv
  <1>1. ASSUME NEW h \in YoutubeSlots, NEW e \in EventIds, UploadStart(h, e)
        PROVE  UploadInv' /\ VideoInv'
    <2>1. UNCHANGED <<row, inserted>>
      BY <1>1 DEF UploadStart
    <2>2. /\ OthersKept(h)
          /\ \/ handler' = handler /\ handler[h].step = "idle"
             \/ handler'[h].step = "claim"
             \/ handler'[h].step = "redirect" /\ row[handler'[h].rec].video # None
      BY <1>0, <1>1 DEF UploadStart, NothingToDo, Starts, Job, OthersKept, Takes, Idle, JobInv, JobTypes
    <2>3. UploadExclusive'
      BY <1>0, <1>f, <1>k, <2>1, <2>2, AttemptEnds
    <2> QED BY <1>0, <1>f, <1>k, <2>1, <2>2, <2>3, UploadStepInv
  <1>2. ASSUME NEW h \in YoutubeSlots, UploadRedirect(h) PROVE UploadInv' /\ VideoInv'
    <2> DEFINE r == handler[h].rec
               new == [row[r] EXCEPT !.status = RedirectTarget(handler[h].status)]
    <2>1. handler[h].step \in JobSteps
      BY <1>2, StepDefs DEF UploadRedirect
    <2>2. r \in Recordings /\ row[r] \in Row
      BY <1>0, <2>1, HandlerRecord
    <2>3. OthersKept(h) /\ handler'[h].step = "idle"
      BY <1>0, <1>2 DEF UploadRedirect, JobCompletedWithIntent, OthersKept, Idle, JobInv, JobTypes
    <2>4. row[r].video # None \/ Gone(r)
      BY <1>0, <1>2 DEF UploadRedirect, UploadKnows, Gone
    <2>5. row' = row \/ row' = [row EXCEPT ![r] = new]
      BY <1>2 DEF UploadRedirect, RowAfter
    <2>6. /\ \A s \in Recordings : row'[s].video = row[s].video
          /\ \A s \in Recordings : s # r => row'[s] = row[s]
      <3>1. new.video = row[r].video
        BY <2>2 DEF Row
      <3> HIDE DEF new
      <3> QED BY <1>0, <2>2, <2>5, <3>1 DEF StoreTypes
    <2>7. Gone(r) => row'[r].status = row[r].status
      BY <1>f, <2>2 DEF OnPath, PathMoves, Gone, GoneStates
    <2>8. UNCHANGED inserted
      BY <1>2 DEF UploadRedirect
    <2> QED BY <1>e, <2>3, <2>4, <2>6, <2>7, <2>8
  <1>3. ASSUME NEW h \in YoutubeSlots, UploadClaim(h) PROVE UploadInv' /\ VideoInv'
    <2> DEFINE r == handler[h].rec
               new == [row[r] EXCEPT !.status = "YOUTUBE_UPLOADING", !.code = "none"]
    <2>1. handler[h].step \in JobSteps /\ UNCHANGED inserted
      BY <1>3, StepDefs DEF UploadClaim
    <2>2. r \in Recordings /\ row[r] \in Row
      BY <1>0, <2>1, HandlerRecord
    <2>3. CASE JobCompleted(h) /\ UNCHANGED <<row, overtaken>>
      <3>1. OthersKept(h) /\ handler'[h].step = "idle"
        BY <1>0, <2>3 DEF JobCompleted, OthersKept, Idle, JobInv, JobTypes
      <3> QED BY <1>e, <2>1, <2>3, <3>1
    <2>4. CASE ~(JobCompleted(h) /\ UNCHANGED <<row, overtaken>>)
      <3>1. row[r].status = "QUEUED" /\ row' = [row EXCEPT ![r] = new]
        BY <1>0, <1>3, <2>2, <2>4 DEF UploadClaim, transitionAllowed, StoreTypes
      <3>2. /\ \A s \in Recordings : s # r => row'[s] = row[s]
            /\ row'[r].status = "YOUTUBE_UPLOADING" /\ row'[r].video = row[r].video
        BY <1>0, <2>2, <3>1 DEF StoreTypes, Row
      <3>3. handler[h] \in Handler
        BY <1>0, <2>1, HandlerCases DEF JobInv
      <3>4. PICK next : /\ handler' = [handler EXCEPT ![h] = next]
                        /\ next.step \in {"fail", "session"} /\ next.rec = r
        <4>1. /\ [handler[h] EXCEPT !.step = "fail", !.error = "OTHER"].step = "fail"
              /\ [handler[h] EXCEPT !.step = "fail", !.error = "OTHER"].rec = r
              /\ [handler[h] EXCEPT !.step = "session", !.session = row[r].session].step = "session"
              /\ [handler[h] EXCEPT !.step = "session", !.session = row[r].session].rec = r
          BY <3>3 DEF Handler
        <4>2. \/ handler' = [handler EXCEPT ![h] =
                      [handler[h] EXCEPT !.step = "fail", !.error = "OTHER"]]
              \/ handler' = [handler EXCEPT ![h] =
                      [handler[h] EXCEPT !.step = "session", !.session = row[r].session]]
          BY <1>0, <1>3, <2>4 DEF UploadClaim, JobInv, JobTypes
        <4> QED BY <4>1, <4>2
      <3>5. /\ OthersKept(h) /\ handler'[h].step \in {"fail", "session"}
            /\ handler'[h].rec = r
        BY <1>0, <3>4 DEF OthersKept, JobInv, JobTypes
      <3>6. UploadExclusive'
        <4>1. ASSUME NEW s \in Recordings, NEW g \in YoutubeSlots, InAttempt(g, s)',
                     row'[s].video = None, row'[s].status \notin GoneStates
              PROVE  /\ row'[s].status = "YOUTUBE_UPLOADING"
                     /\ \A f \in YoutubeSlots : InAttempt(f, s)' => f = g
          <5>1. \A f \in YoutubeSlots : f # h => (InAttempt(f, s)' <=> InAttempt(f, s))
            BY <1>0, <3>5 DEF OthersKept, InAttempt
          <5>2. CASE s = r
            <6>1. \A f \in YoutubeSlots : ~InAttempt(f, r)
              BY <1>0, <1>k, <2>2, <3>1, <3>2, <4>1, <5>2 DEF UploadExclusive
            <6> QED BY <3>2, <4>1, <5>1, <5>2, <6>1
          <5>3. CASE s # r
            <6>1. ~InAttempt(h, s)'
              BY <3>5, <5>3 DEF InAttempt
            <6> QED BY <1>0, <3>2, <4>1, <5>1, <5>3, <6>1 DEF UploadExclusive
          <5> QED BY <5>2, <5>3
        <4> QED BY <4>1 DEF UploadExclusive
      <3>7. \A s \in Recordings :
              row'[s].video = row[s].video
              /\ (row'[s].status = "YOUTUBE_PROCESSING" => row[s].status = "YOUTUBE_PROCESSING")
        BY <3>2
      <3> QED BY <1>0, <1>f, <1>k, <2>1, <3>5, <3>6, <3>7, UploadStepInv
    <2> QED BY <2>3, <2>4
  <1>4. ASSUME NEW h \in YoutubeSlots, NEW step \in AttemptSteps, handler[h].step \in AttemptSteps,
               OthersKept(h), handler'[h].step = step, handler'[h].rec = handler[h].rec,
               step \in {"persist", "send", "save"} => handler'[h].session # None,
               step # "save", UNCHANGED <<row, inserted>>
        PROVE  UploadInv' /\ VideoInv'
    BY <1>g, <1>4
  <1>5. ASSUME NEW h \in YoutubeSlots, OpenSession(h) PROVE UploadInv' /\ VideoInv'
    <2>1. handler[h].step \in JobSteps
      BY <1>5, StepDefs DEF OpenSession
    <2>2. handler[h] \in Handler /\ handler[h].rec \in Recordings
      BY <1>0, <2>1, HandlerCases, HandlerRecord DEF JobInv
    <2>3. opened[handler[h].rec] + 1 # None
      BY <1>0, <2>2 DEF StoreTypes, None
    <2> DEFINE next == [handler[h] EXCEPT !.step = "persist", !.session = opened[handler[h].rec] + 1]
    <2>4. next.step = "persist" /\ next.rec = handler[h].rec /\ next.session # None
      BY <2>2, <2>3 DEF Handler
    <2>5. handler' = [handler EXCEPT ![h] = next]
      BY <1>0, <1>5 DEF OpenSession, JobInv, JobTypes
    <2> HIDE DEF next
    <2>6. handler'[h] = next /\ OthersKept(h)
      BY <1>0, <2>5 DEF OthersKept, JobInv, JobTypes
    <2> QED BY <1>4, <1>5, <1>k, <2>4, <2>6 DEF OpenSession
  <1>6. ASSUME NEW h \in YoutubeSlots, NEW step, Goes(h, step), handler[h].step \in JobSteps
        PROVE  /\ OthersKept(h) /\ handler'[h].step = step /\ handler'[h].rec = handler[h].rec
               /\ handler'[h].session = handler[h].session
    <2>1. handler[h] \in Handler
      BY <1>0, <1>6, HandlerCases DEF JobInv
    <2> QED BY <1>0, <1>6, <2>1 DEF Goes, OthersKept, Handler, JobInv, JobTypes
  <1>7. ASSUME NEW h \in YoutubeSlots, NEW error, Fails(h, error), handler[h].step \in AttemptSteps,
               UNCHANGED row, \A r \in Recordings : inserted[r] \subseteq inserted'[r]
        PROVE  UploadInv' /\ VideoInv'
    <2>1. handler[h].step \in JobSteps
      BY <1>7, <1>k, StepDefs
    <2>2. handler[h] \in Handler
      BY <1>0, <2>1, HandlerCases DEF JobInv
    <2>3. OthersKept(h) /\ handler'[h].step = "fail" /\ handler'[h].rec = handler[h].rec
      BY <1>0, <1>7, <2>2 DEF Fails, OthersKept, Handler, JobInv, JobTypes
    <2> QED BY <1>g, <1>7, <1>k, <2>3
  <1>8. ASSUME NEW h \in YoutubeSlots, PersistSession(h) PROVE UploadInv' /\ VideoInv'
    <2>1. handler[h].step \in JobSteps /\ handler[h].session # None
      BY <1>0, <1>8, StepDefs DEF PersistSession, UploadKnows
    <2>2. handler[h].rec \in Recordings
      BY <1>0, <2>1, HandlerRecord
    <2>3. \A r \in Recordings : row'[r].status = row[r].status /\ row'[r].video = row[r].video
      BY <1>0, <1>8, <2>2 DEF PersistSession, StoreTypes, Row
    <2>4. /\ OthersKept(h) /\ handler'[h].step = "send" /\ handler'[h].rec = handler[h].rec
          /\ handler'[h].session # None /\ UNCHANGED inserted
      BY <1>6, <1>8, <2>1 DEF PersistSession
    <2> QED BY <1>g, <1>8, <1>k, <2>3, <2>4 DEF PersistSession
  <1>9. ASSUME NEW h \in YoutubeSlots, ProbeSession(h) PROVE UploadInv' /\ VideoInv'
    <2>1. CASE Fails(h, "AMBIGUOUS")
      BY <1>7, <1>9, <1>k, <2>1 DEF ProbeSession
    <2>2. CASE Goes(h, "send")
      <3>1. handler[h].step \in JobSteps
        BY <1>9, StepDefs DEF ProbeSession
      <3>2. /\ OthersKept(h) /\ handler'[h].step = "send" /\ handler'[h].rec = handler[h].rec
            /\ handler'[h].session # None
        BY <1>6, <1>9, <2>2, <3>1 DEF ProbeSession
      <3> QED BY <1>4, <1>9, <1>k, <3>2 DEF ProbeSession
    <2> QED BY <1>9, <2>1, <2>2 DEF ProbeSession
  <1>10. ASSUME NEW h \in YoutubeSlots, Sending(h), Insert(handler[h].rec, handler[h].session)
         PROVE  /\ \A r \in Recordings : inserted[r] \subseteq inserted'[r]
                /\ handler[h].session \in inserted'[handler[h].rec] /\ handler[h].session # None
                /\ handler[h].step \in JobSteps
    <2>1. handler[h].step \in JobSteps
      BY <1>10, StepDefs DEF Sending
    <2>2. handler[h].rec \in Recordings
      BY <1>0, <2>1, HandlerRecord
    <2> QED BY <1>0, <1>10, <2>1, <2>2 DEF Insert, Sending, UploadKnows, StoreTypes
  <1>11. ASSUME NEW h \in YoutubeSlots, SendAccepted(h) PROVE UploadInv' /\ VideoInv'
    <2>1. /\ \A r \in Recordings : inserted[r] \subseteq inserted'[r]
          /\ handler[h].session \in inserted'[handler[h].rec] /\ handler[h].session # None
          /\ handler[h].step \in JobSteps
      BY <1>10, <1>11 DEF SendAccepted
    <2>2. /\ OthersKept(h) /\ handler'[h].step = "save" /\ handler'[h].rec = handler[h].rec
          /\ handler'[h].session = handler[h].session
      BY <1>6, <1>11, <2>1 DEF SendAccepted
    <2> QED BY <1>g, <1>11, <1>k, <2>1, <2>2 DEF SendAccepted, Sending
  <1>12. ASSUME NEW h \in YoutubeSlots, SendUnclear(h) PROVE UploadInv' /\ VideoInv'
    <2>1. \A r \in Recordings : inserted[r] \subseteq inserted'[r]
      BY <1>10, <1>12 DEF SendUnclear
    <2> QED BY <1>7, <1>12, <1>k, <2>1 DEF SendUnclear, Sending
  <1>13. ASSUME NEW h \in YoutubeSlots, SendPartial(h) PROVE UploadInv' /\ VideoInv'
    <2>1. OthersKept(h) /\ handler'[h].step = "idle"
      BY <1>0, <1>13 DEF SendPartial, JobCompleted, OthersKept, Idle, JobInv, JobTypes
    <2> QED BY <1>e, <1>13, <2>1 DEF SendPartial, Sending
  <1>14. ASSUME NEW h \in YoutubeSlots, NEW error \in {"QUOTA", "OTHER", "REAUTH"},
                UploadThrows(h, error)
         PROVE  UploadInv' /\ VideoInv'
    BY <1>7, <1>14, <1>k DEF UploadThrows
  <1>15. ASSUME NEW h \in YoutubeSlots, SaveVideo(h) PROVE UploadInv' /\ VideoInv'
    <2> DEFINE r == handler[h].rec
               saved == [row[r] EXCEPT !.video = handler[h].session, !.session = None]
               moved == [saved EXCEPT !.status = "YOUTUBE_PROCESSING"]
    <2>1. handler[h].step = "save" /\ handler[h].step \in JobSteps /\ UNCHANGED inserted
      BY <1>15, StepDefs DEF SaveVideo
    <2>2. r \in Recordings /\ row[r] \in Row
      BY <1>0, <2>1, HandlerRecord
    <2>3. handler[h].session # None /\ handler[h].session \in inserted[r]
      BY <1>0, <2>1 DEF UploadKnows, VideosAreReal
    <2>4. saved.video = handler[h].session /\ moved.video = handler[h].session
      BY <2>2 DEF Row
    <2>5. row' = [row EXCEPT ![r] = saved] \/ row' = [row EXCEPT ![r] = moved]
      BY <1>15 DEF SaveVideo
    <2> HIDE DEF saved, moved
    <2>6. /\ row'[r].video = handler[h].session
          /\ \A s \in Recordings : s # r => row'[s] = row[s]
      BY <1>0, <2>2, <2>4, <2>5 DEF StoreTypes
    <2>7. OthersKept(h) /\ handler'[h].step = "idle"
      BY <1>0, <1>15 DEF SaveVideo, JobCompleted, JobCompletedWithIntent, OthersKept, Idle, JobInv,
                         JobTypes
    <2>8. row[r].status # NoRow
      BY <1>0, <1>k, <2>1, <2>2 DEF UploadExclusive, InAttempt, NoRowNoVideo
    <2>9. UploadExclusive'
      BY <1>0, <1>f, <1>k, <2>3, <2>6, <2>7, AttemptEnds
    <2>10. \A s \in Recordings :
              /\ \/ row'[s].video = row[s].video
                 \/ /\ row[s].status # NoRow /\ row'[s].video # None
                    /\ row'[s].video \in inserted'[s]
              /\ row'[s].status = "YOUTUBE_PROCESSING" /\ row[s].status # "YOUTUBE_PROCESSING" =>
                    row'[s].video # None
      BY <2>1, <2>3, <2>6, <2>8
    <2> QED BY <1>0, <1>f, <1>k, <2>1, <2>7, <2>9, <2>10, UploadStepInv
  <1>16. ASSUME NEW h \in YoutubeSlots, UploadFail(h) PROVE UploadInv' /\ VideoInv'
    <2> DEFINE r == handler[h].rec
               new == FailedRow(r, handler[h].error)
    <2>1. handler[h].step \in JobSteps /\ InAttempt(h, r) /\ UNCHANGED inserted
      BY <1>16, <1>k, StepDefs DEF UploadFail, InAttempt
    <2>2. r \in Recordings /\ row[r] \in Row
      BY <1>0, <2>1, HandlerRecord
    <2>3. new.video = row[r].video /\ new.status \in {"QUEUED", "FAILED"}
      BY <2>2 DEF FailedRow, Row
    <2>4. row' = row \/ row' = [row EXCEPT ![r] = new]
      BY <1>16 DEF UploadFail, RowAfter
    <2> HIDE DEF new
    <2>5. \A s \in Recordings :
              /\ row'[s].video = row[s].video
              /\ \/ row'[s].status = row[s].status
                 \/ s = r /\ row'[s].status # "YOUTUBE_PROCESSING"
      BY <1>0, <2>2, <2>3, <2>4 DEF StoreTypes
    <2>6. OthersKept(h) /\ handler'[h].step = "idle"
      BY <1>0, <1>16 DEF UploadFail, JobCompleted, OthersKept, Idle, JobInv, JobTypes
    <2> QED BY <1>e, <2>1, <2>5, <2>6
  <1>17. ASSUME NEW r \in Recordings, SessionExpires(r) PROVE UploadInv' /\ VideoInv'
    BY <1>0, <1>17
       DEF SessionExpires, UploadInv, VideoInv, UploadExclusive, InAttempt, DeletesGone, Live,
           UploadKnows, NoRowNoVideo, VideoWhenProcessed, VideosAreReal
  <1> QED
    BY <1>1, <1>2, <1>3, <1>5, <1>8, <1>9, <1>11, <1>12, <1>13, <1>14, <1>15, <1>16, <1>17
       DEF UploadNext
-----------------------------------------------------------------------------
(* The theorems *)

\* UploadInv and VideoInv hold initially.
LEMMA UploadInit ==
    ASSUME PipelineAssumption, Init
    PROVE  UploadInv /\ VideoInv
  <1>1. UploadInv
    BY DEF Init, UploadInv, UploadExclusive, InAttempt, AttemptSteps, DeletesGone, Live,
           DeleteSteps, UploadKnows, NoRowNoVideo, Idle, EmptyRow, Slots
  <1>2. VideoInv
    BY DEF Init, VideoInv, VideoWhenProcessed, VideosAreReal, EmptyRow, NoRow, Idle, None
  <1> QED BY <1>1, <1>2

\* Outside the upload handler no video id appears and no row starts processing.
LEMMA VideoElsewhere ==
    ASSUME PipelineAssumption, TypeInv, UploadInv, VideoInv,
           RequestNext \/ PollNext \/ CleanupNext \/ WorkerNext
    PROVE  VideoInv'
  <1>k. /\ UploadSteps = {"redirect", "claim", "session", "persist", "send", "save", "fail"}
        /\ PollSteps = {"poll"} /\ GoneStates = {"DELETE_PENDING", "DELETED"} /\ NoRow = "NONE"
    BY DEF UploadSteps, PollSteps, GoneStates, NoRow
  <1>1. \A h \in Slots : handler'[h].step = "save" => handler'[h] = handler[h]
    BY <1>k, RequestFrame, PollFrame, CleanupFrame, WorkerFrame DEF MovesOnly, UploadInv
  <1>2. \A r \in Recordings :
            /\ row'[r].video = row[r].video \/ row'[r].video = None
            /\ row'[r].status \in {"YOUTUBE_PROCESSING", "READY"} =>
                  /\ row[r].status \in {"YOUTUBE_PROCESSING", "READY"}
                  /\ row'[r].video = row[r].video
    <2>1. CASE RequestNext
      BY <1>k, <2>1, RequestFrame
    <2>2. CASE PollNext
      BY <2>2, PollFrame DEF OnPath, PathMoves
    <2>3. CASE CleanupNext
      BY <1>k, <2>3, CleanupFrame DEF UploadInv, Gone
    <2>4. CASE WorkerNext
      BY <2>4, WorkerFrame
    <2> QED BY <2>1, <2>2, <2>3, <2>4
  <1>3. UNCHANGED inserted
    BY DEF RequestNext, CreateInsert, CreateFinish, BrowserPut, UrlExpires, CompleteCheck,
           CompleteCommit, RetryCheck, RetryCommit, DeleteCheck, DeleteCommit, RequestLost,
           webUnchanged, PollNext, PollStart, PollReady, PollFailed, PollPrivate, PollAgain,
           pollUnchanged, CleanupNext, DeleteStart, RemoveVideo, DeleteThrows, ForgetVideo,
           CleanupStart, RemoveObject, ForgetKey, FinishCheck, FinishDelete, ExpireRow,
           ExpireIntent, cleanupUnchanged, WorkerNext, Dispatch, Acknowledge, ScanSelect,
           ScanInsert, DeferralLapses, Crash, RecoverSelectProcessing, RecoverProcessing,
           RecoverSelectStale, RecoverStale, StartWorkers, Reconnect, workerUnchanged, providerVars
  <1>4. VideosAreReal'
    <2>1. ASSUME NEW h \in Slots, handler'[h].step = "save"
          PROVE  handler'[h].session \in inserted'[handler'[h].rec]
      BY <1>1, <1>3, <2>1 DEF VideoInv, VideosAreReal
    <2>2. \A r \in Recordings : row'[r].video # None => row'[r].video \in inserted'[r]
      BY <1>2, <1>3 DEF VideoInv, VideosAreReal
    <2> QED BY <2>1, <2>2 DEF VideosAreReal
  <1>5. VideoWhenProcessed'
    BY <1>2, <1>3 DEF VideoInv, VideoWhenProcessed
  <1> QED BY <1>4, <1>5 DEF VideoInv

\* Every step keeps UploadInv and VideoInv.
LEMMA UploadPreserved ==
    ASSUME PipelineAssumption, TypeInv, UploadInv, VideoInv, [Next]_vars
    PROVE  UploadInv' /\ VideoInv'
  <1>1. CASE UNCHANGED vars
    BY <1>1 DEF vars, UploadInv, VideoInv, UploadExclusive, InAttempt, DeletesGone, Live,
                UploadKnows, NoRowNoVideo, VideoWhenProcessed, VideosAreReal
  <1>2. CASE UploadNext
    BY <1>2, UploadHandlerInv
  <1>3. CASE RequestNext \/ PollNext \/ CleanupNext \/ WorkerNext
    BY <1>3, UploadInvElsewhere, VideoElsewhere
  <1> QED BY <1>1, <1>2, <1>3 DEF Next

\* In every reachable state the upload attempts exclude each other, deletion jobs
\* work on deleted rows only, and a row that carries a video carries one that
\* YouTube made for it.
THEOREM UploadsInvariant == Spec => [](UploadInv /\ VideoInv)
  <1>1. Init => UploadInv /\ VideoInv
    BY UploadInit, PipelineAssumption
  <1>2. TypeInv /\ (UploadInv /\ VideoInv) /\ [Next]_vars => (UploadInv /\ VideoInv)'
    BY UploadPreserved, PipelineAssumption
  <1> QED BY <1>1, <1>2, TypesInvariant, PTL DEF Spec

\* Of all the handlers that duplicated intents, retries and restarts can start, at
\* most one is past its claim on a recording that has no video yet.
THEOREM UploadIsExclusive == Spec => []UploadExclusive
  <1>1. UploadInv => UploadExclusive
    BY DEF UploadInv
  <1> QED BY <1>1, UploadsInvariant, PTL

\* A row that is being processed or READY names a video YouTube did make for it.
THEOREM ProcessedHasVideo == Spec => []VideoWhenProcessed
  <1>1. VideoInv => VideoWhenProcessed
    BY DEF VideoInv
  <1> QED BY <1>1, UploadsInvariant, PTL
=============================================================================
