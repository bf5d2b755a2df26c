----------------------- MODULE PipelineLifecycleProofs -----------------------
(***************************************************************************)
(* What RecordingPipeline promises about a whole life of a recording: at   *)
(* most one video, a poll for every row in processing, a finisher for every *)
(* clean deletion, an unlisted READY video with one upload slot, the       *)
(* refinement of RecordingLifecycle, and the stages of IntentDelivery that *)
(* every event goes through.                                               *)
(***************************************************************************)
EXTENDS PipelineSafetyProofs, FiniteSetTheorems

\* The last attempt failed and may have made a video.
Unclear(r) == row[r].status = "FAILED" /\ row[r].code = "AMBIGUOUS"

\* What an upload attempt can count on, unless a retry or a claim was mistaken.
AttemptKnows(h, r) ==
    /\ row[r].video = None
    /\ row[r].status \in GoneStates \cup {"YOUTUBE_UPLOADING"}
    /\ \A g \in YoutubeSlots : InAttempt(g, r) => g = h
    /\ handler[h].step \in {"session", "send", "save"} => handler[h].session = row[r].session
    /\ handler[h].step = "persist" => row[r].session = None
    /\ inserted[r] \subseteq {row[r].session}

\* The recording may be uploaded, now or after a retry.
MayUpload(r) == row[r].status \notin GoneStates /\ row[r].video = None /\ ~Unclear(r)

\* Every video made so far belongs to the session an upload would go on with.
OneSession(r) ==
    /\ \A h \in YoutubeSlots : InAttempt(h, r) => AttemptKnows(h, r)
    /\ MayUpload(r) => inserted[r] \subseteq {row[r].session}
    /\ \A s, t \in inserted[r] : s = t

\* YouTube numbers sessions from 1, and knows no recording before its row.
RealSessions ==
    \A r \in Recordings : None \notin inserted[r] /\ (row[r].status = NoRow => inserted[r] = {})

\* The inductive invariant of OneInsert.
OnceInv == RealSessions /\ \A r \in Recordings \ overtaken : OneSession(r)
-----------------------------------------------------------------------------
(* Which rows the steps outside the upload handler write *)

\* One row is written.
Writes(r, new) == row'[r] = new /\ \A s \in Recordings : s # r => row'[s] = row[s]

\* The web requests.
RequestWrites(r) ==
    \/ /\ row[r].status = NoRow /\ UNCHANGED overtaken
       /\ Writes(r, [EmptyRow EXCEPT !.status = "STAGING", !.key = "pending"])
    \/ /\ Writes(r, [row[r] EXCEPT !.key = "object"]) /\ UNCHANGED overtaken
    \/ /\ \/ row[r].status = "STAGING" /\ object[r] /\ UNCHANGED overtaken
          \/ /\ row[r].status = "FAILED"
             /\ overtaken' = IF row[r].code = "AMBIGUOUS" THEN overtaken \cup {r} ELSE overtaken
       /\ Writes(r, [row[r] EXCEPT !.status = "QUEUED"])
    \/ /\ canTransitionRecording(row[r].status, "DELETE_PENDING") /\ UNCHANGED overtaken
       /\ \E q \in Requests : request[q].op = "delete" /\ request[q].status = row[r].status
       /\ Writes(r, [row[r] EXCEPT !.status = "DELETE_PENDING"])

LEMMA RequestRows ==
    ASSUME TypeInv, CompletionChecked, RequestNext
    PROVE  /\ \/ UNCHANGED <<row, overtaken, object>>
              \/ /\ UNCHANGED <<row, overtaken>>
                 /\ \E r \in Recordings : url[r] /\ object' = [object EXCEPT ![r] = TRUE]
              \/ UNCHANGED object /\ \E r \in Recordings : RequestWrites(r)
           /\ UNCHANGED <<handler, inserted, crashes>>
  <1> USE DEF webUnchanged, providerVars, processVars, storageVars
  <1> DEFINE Wrote == UNCHANGED object /\ \E r \in Recordings : RequestWrites(r)
             Goal == \/ UNCHANGED <<row, overtaken, object>>
                     \/ /\ UNCHANGED <<row, overtaken>>
                        /\ \E r \in Recordings : url[r] /\ object' = [object EXCEPT ![r] = TRUE]
                     \/ Wrote
  <1>0. StoreTypes
    BY DEF TypeInv
  <1>1. ASSUME NEW q \in Requests, NEW r \in Recordings, CreateInsert(q, r)
        PROVE  Goal
    BY <1>0, <1>1 DEF CreateInsert, RequestWrites, Writes, StoreTypes
  <1>2. ASSUME NEW q \in Requests, CreateFinish(q)
        PROVE  Goal
    <2>1. request[q].rec \in Recordings
      BY <1>0, <1>2, RequestRecord DEF CreateFinish
    <2>2. Writes(request[q].rec, [row[request[q].rec] EXCEPT !.key = "object"])
      BY <1>0, <1>2, <2>1 DEF CreateFinish, Writes, StoreTypes
    <2> QED BY <1>2, <2>1, <2>2 DEF RequestWrites, CreateFinish
  <1>3. ASSUME NEW q \in Requests, CompleteCommit(q) \/ RetryCommit(q) \/ DeleteCommit(q)
        PROVE  Goal
    <2>1. PICK r \in Recordings : r = request[q].rec
      BY <1>0, <1>3, RequestRecord DEF CompleteCommit, RetryCommit, DeleteCommit
    <2>2. CASE CompleteCommit(q) /\ row[r].status = "STAGING"
      <3>1. Writes(r, [row[r] EXCEPT !.status = "QUEUED"])
        BY <1>0, <2>1, <2>2 DEF CompleteCommit, Writes, StoreTypes
      <3>2. object[r]
        BY <2>1, <2>2 DEF CompleteCommit, CompletionChecked, Checked
      <3> QED BY <2>2, <3>1, <3>2 DEF RequestWrites, CompleteCommit
    <2>3. CASE RetryCommit(q) /\ transitionAllowed(r, "FAILED", "QUEUED")
      <3>1. Writes(r, [row[r] EXCEPT !.status = "QUEUED"])
        BY <1>0, <2>1, <2>3 DEF RetryCommit, Writes, StoreTypes
      <3>2. overtaken' = IF row[r].code = "AMBIGUOUS" THEN overtaken \cup {r} ELSE overtaken
        BY <2>1, <2>3 DEF RetryCommit
      <3> QED BY <2>3, <3>1, <3>2 DEF RequestWrites, transitionAllowed, RetryCommit
    <2>4. CASE DeleteCommit(q) /\ transitionAllowed(r, request[q].status, "DELETE_PENDING")
      <3>1. Writes(r, [row[r] EXCEPT !.status = "DELETE_PENDING"])
        BY <1>0, <2>1, <2>4 DEF DeleteCommit, Writes, StoreTypes
      <3> QED BY <2>4, <3>1 DEF RequestWrites, transitionAllowed, DeleteCommit
    <2> QED BY <1>3, <2>1, <2>2, <2>3, <2>4 DEF CompleteCommit, RetryCommit, DeleteCommit
  <1>4. CASE \/ \E r \in Recordings : BrowserPut(r) \/ UrlExpires(r)
             \/ \E q \in Requests : RequestLost(q)
             \/ \E q \in Requests, r \in Recordings :
                   CompleteCheck(q, r) \/ RetryCheck(q, r) \/ DeleteCheck(q, r)
    BY <1>4 DEF BrowserPut, UrlExpires, RequestLost, CompleteCheck, RetryCheck, DeleteCheck
  <1>5. UNCHANGED <<handler, inserted, crashes>>
    BY DEF RequestNext, CreateInsert, CreateFinish, CompleteCommit, RetryCommit, DeleteCommit,
           BrowserPut, UrlExpires, RequestLost, CompleteCheck, RetryCheck, DeleteCheck
  <1>6. Goal
    BY <1>1, <1>2, <1>3, <1>4 DEF RequestNext
  <1> QED BY <1>5, <1>6

\* A poll.
PollWrites(r) ==
    \/ /\ row[r].status = "YOUTUBE_PROCESSING"
       /\ \/ Writes(r, [row[r] EXCEPT !.status = "READY", !.privacy = "unlisted"])
          \/ Writes(r, [row[r] EXCEPT !.status = "FAILED", !.code = "OTHER"])
          \/ Writes(r, [row[r] EXCEPT !.status = "FAILED", !.code = "OTHER", !.privacy = "private"])
    \/ /\ row[r].status # "YOUTUBE_PROCESSING"
       /\ Writes(r, [row[r] EXCEPT !.privacy = "private"])

LEMMA PollRows ==
    ASSUME TypeInv, PollNext
    PROVE  /\ \/ UNCHANGED row
              \/ \E h \in YoutubeSlots : /\ handler[h].step = "poll"
                                         /\ handler[h].rec \in Recordings
                                         /\ PollWrites(handler[h].rec)
           /\ UNCHANGED <<object, overtaken, inserted, crashes>>
  <1> USE DEF pollUnchanged, providerVars, processVars, storageVars
  <1>0. StoreTypes /\ YoutubeSlots \subseteq Slots
    BY DEF TypeInv, Slots
  <1>1. ASSUME NEW h \in YoutubeSlots, PollReady(h) \/ PollFailed(h) \/ PollPrivate(h)
        PROVE  UNCHANGED row \/ (/\ handler[h].step = "poll" /\ handler[h].rec \in Recordings
                                 /\ PollWrites(handler[h].rec))
    <2>1. handler[h].step = "poll" /\ handler[h].step \in JobSteps
      BY <1>1, StepDefs DEF PollReady, PollFailed, PollPrivate, At
    <2>2. PICK r \in Recordings : r = handler[h].rec /\ row[r] \in Row
      BY <1>0, <2>1, HandlerRecord
    <2>3. \A s \in Recordings : s # r => row'[s] = row[s]
      BY <1>0, <1>1, <2>2 DEF PollReady, PollFailed, PollPrivate, RowAfter, StoreTypes
    <2>4. CASE PollReady(h)
      BY <1>0, <2>1, <2>2, <2>3, <2>4
         DEF PollReady, PollWrites, Writes, RowAfter, transitionAllowed, StoreTypes
    <2>5. CASE PollFailed(h)
      BY <1>0, <2>1, <2>2, <2>3, <2>5
         DEF PollFailed, PollWrites, Writes, RowAfter, transitionAllowed, StoreTypes
    <2>6. CASE PollPrivate(h)
      <3>1. /\ [[row[r] EXCEPT !.privacy = "private"] EXCEPT !.status = "FAILED", !.code = "OTHER"]
                  = [row[r] EXCEPT !.status = "FAILED", !.code = "OTHER", !.privacy = "private"]
        BY <2>2 DEF Row
      <3>2. CASE transitionAllowed(r, "YOUTUBE_PROCESSING", "FAILED")
        BY <1>0, <2>1, <2>2, <2>3, <2>6, <3>1, <3>2
           DEF PollPrivate, PollWrites, Writes, transitionAllowed, StoreTypes
      <3>3. CASE ~transitionAllowed(r, "YOUTUBE_PROCESSING", "FAILED")
        <4>1. row[r].status # "YOUTUBE_PROCESSING"
          BY <3>3 DEF transitionAllowed, canTransitionRecording, RECORDING_TRANSITIONS
        <4> QED BY <1>0, <2>1, <2>2, <2>3, <2>6, <3>3, <4>1
                DEF PollPrivate, PollWrites, Writes, StoreTypes
      <3> QED BY <3>2, <3>3
    <2> QED BY <1>1, <2>4, <2>5, <2>6
  <1>2. UNCHANGED <<object, overtaken, inserted, crashes>>
    BY DEF PollNext, PollStart, PollReady, PollFailed, PollPrivate, PollAgain
  <1> QED BY <1>1, <1>2 DEF PollNext, PollStart, PollAgain

\* The jobs that take things away.
CleanupWrites(r) ==
    \/ Gone(r) /\ Writes(r, [row[r] EXCEPT !.video = None, !.privacy = "null"])
    \/ Retired(r) /\ Writes(r, [row[r] EXCEPT !.key = "null"])
    \/ /\ row[r].status = "DELETE_PENDING"
       /\ Writes(r, [row[r] EXCEPT !.status = "DELETED"])
    \/ /\ ExpiryRuns /\ row[r].status = "STAGING"
       /\ Writes(r, [row[r] EXCEPT !.status = "EXPIRED", !.key = "null"])

LEMMA CleanupRows ==
    ASSUME TypeInv, DeletesGone, CleansRetired, CleanupNext
    PROVE  /\ \/ UNCHANGED <<row, object>>
              \/ /\ UNCHANGED row
                 /\ \E r \in Recordings : Retired(r) /\ object' = [object EXCEPT ![r] = FALSE]
              \/ UNCHANGED object /\ \E r \in Recordings : CleanupWrites(r)
           /\ UNCHANGED <<overtaken, inserted, crashes>>
  <1> USE DEF cleanupUnchanged, processVars, At
  <1>0. StoreTypes /\ YoutubeSlots \subseteq Slots /\ MaintenanceSlots \subseteq Slots
    BY DEF TypeInv, Slots
  <1>1. ASSUME NEW h \in YoutubeSlots, ForgetVideo(h)
        PROVE  UNCHANGED object /\ \E r \in Recordings : CleanupWrites(r)
    <2>1. handler[h].step \in JobSteps /\ handler[h].step \in DeleteSteps
      BY <1>1, StepDefs DEF ForgetVideo, DeleteSteps
    <2>2. PICK r \in Recordings : r = handler[h].rec /\ Gone(r)
      BY <1>0, <2>1, HandlerRecord DEF DeletesGone, Gone
    <2>3. Writes(r, [row[r] EXCEPT !.video = None, !.privacy = "null"])
      BY <1>0, <1>1, <2>2 DEF ForgetVideo, Writes, StoreTypes
    <2> QED BY <1>1, <2>2, <2>3 DEF CleanupWrites, ForgetVideo
  <1>2. ASSUME NEW h \in MaintenanceSlots, ForgetKey(h)
        PROVE  UNCHANGED object /\ \E r \in Recordings : CleanupWrites(r)
    <2>1. Forgetting(h)
      BY <1>2 DEF ForgetKey, Forgetting, CleanupSteps
    <2>2. PICK r \in Recordings : r = handler[h].rec /\ Retired(r)
      BY <1>0, <2>1, JobRecordings DEF CleansRetired
    <2>3. Writes(r, [row[r] EXCEPT !.key = "null"])
      BY <1>0, <1>2, <2>2 DEF ForgetKey, Writes, StoreTypes
    <2> QED BY <1>2, <2>2, <2>3 DEF CleanupWrites, ForgetKey
  <1>3. ASSUME NEW h \in Slots, FinishDelete(h)
        PROVE  UNCHANGED object /\ (UNCHANGED row \/ \E r \in Recordings : CleanupWrites(r))
    <2>1. handler[h].step \in JobSteps
      BY <1>3, StepDefs DEF FinishDelete
    <2>2. PICK r \in Recordings : r = handler[h].rec /\ row[r] \in Row
      BY <1>0, <2>1, HandlerRecord
    <2>3. \/ UNCHANGED row
          \/ /\ row[r].status = "DELETE_PENDING"
             /\ Writes(r, [row[r] EXCEPT !.status = "DELETED"])
      BY <1>0, <1>3, <2>2 DEF FinishDelete, RowAfter, transitionAllowed, Writes, StoreTypes
    <2> QED BY <1>3, <2>2, <2>3 DEF CleanupWrites, FinishDelete
  <1>4. ASSUME NEW h \in MaintenanceSlots, NEW r \in Recordings, ExpireRow(h, r)
        PROVE  CleanupWrites(r) /\ UNCHANGED object
    BY <1>0, <1>4 DEF ExpireRow, transitionAllowed, CleanupWrites, Writes, StoreTypes
  <1>5. ASSUME NEW h \in MaintenanceSlots, RemoveObject(h)
        PROVE  /\ UNCHANGED row
               /\ \/ UNCHANGED object
                  \/ \E r \in Recordings : Retired(r) /\ object' = [object EXCEPT ![r] = FALSE]
    <2>1. Forgetting(h)
      BY <1>5 DEF RemoveObject, Forgetting, CleanupSteps
    <2>2. PICK r \in Recordings : r = handler[h].rec /\ Retired(r)
      BY <1>0, <2>1, JobRecordings DEF CleansRetired
    <2>3. object' \in {object, [object EXCEPT ![r] = object[r] /\ handler[h].key # "object"]}
      BY <1>0, <1>5, <2>2 DEF RemoveObject, StoreTypes
    <2>4. object[r] \in BOOLEAN /\ object = [object EXCEPT ![r] = object[r]]
      BY <1>0, <2>2 DEF StoreTypes
    <2>5. CASE handler[h].key = "object"
      <3>1. (object[r] /\ handler[h].key # "object") = FALSE
        BY <2>5
      <3> QED BY <1>5, <2>2, <2>3, <3>1 DEF RemoveObject
    <2>6. CASE handler[h].key # "object"
      <3>1. (object[r] /\ handler[h].key # "object") = object[r]
        BY <2>4, <2>6, Zenon
      <3> QED BY <1>5, <2>3, <2>4, <3>1 DEF RemoveObject
    <2> QED BY <2>5, <2>6
  <1>7. CASE \/ \E h \in Slots, e \in EventIds : DeleteStart(h, e) \/ CleanupStart(h, e)
             \/ \E h \in Slots : \/ RemoveVideo(h) \/ DeleteThrows(h) \/ FinishCheck(h)
                                 \/ ExpireIntent(h)
    BY <1>7 DEF DeleteStart, CleanupStart, RemoveVideo, DeleteThrows, FinishCheck, ExpireIntent
  <1>6. UNCHANGED <<overtaken, inserted, crashes>>
    BY DEF CleanupNext, DeleteStart, RemoveVideo, DeleteThrows, ForgetVideo, CleanupStart,
           RemoveObject, ForgetKey, FinishCheck, FinishDelete, ExpireRow, ExpireIntent
  <1> QED BY <1>0, <1>1, <1>2, <1>3, <1>4, <1>5, <1>6, <1>7 DEF CleanupNext, ExpireRow

\* The worker around its handlers writes a lapsed deferral and nothing else.
LEMMA WorkerRows ==
    ASSUME TypeInv, WorkerNext
    PROVE  /\ \/ UNCHANGED row
              \/ \E r \in Recordings : Writes(r, [row[r] EXCEPT !.deferred = FALSE])
           /\ UNCHANGED <<object, overtaken, inserted>>
  <1> USE DEF workerUnchanged, providerVars, storageVars
  <1>1. ASSUME NEW r \in Recordings, DeferralLapses(r)
        PROVE  Writes(r, [row[r] EXCEPT !.deferred = FALSE])
    BY <1>1 DEF DeferralLapses, Writes, TypeInv, StoreTypes
  <1> QED
    BY <1>1 DEF WorkerNext, Dispatch, Acknowledge, ScanSelect, ScanInsert, DeferralLapses, Crash,
                RecoverSelectProcessing, RecoverProcessing, RecoverSelectStale, RecoverStale,
                StartWorkers, Reconnect
-----------------------------------------------------------------------------
(* OneInsert: steps outside the upload handler *)

\* What a recording's session and outcome are after such a step.
SessionKept(r) ==
    /\ \/ row'[r].session = row[r].session
       \/ row[r].status = NoRow /\ row'[r].session = None
    /\ Unclear(r) => Unclear(r)' \/ Gone(r)' \/ r \in overtaken'

LEMMA SessionsElsewhere ==
    ASSUME TypeInv, DeletesGone, CompletionChecked, CleansRetired,
           RequestNext \/ PollNext \/ CleanupNext \/ WorkerNext
    PROVE  /\ \A r \in Recordings : SessionKept(r)
           /\ overtaken \subseteq overtaken' /\ UNCHANGED inserted
  <1>0. ASSUME NEW r \in Recordings
        PROVE  row[r] \in Row
    BY DEF TypeInv, StoreTypes
  <1>1. ASSUME NEW r \in Recordings, row'[r] = row[r]
        PROVE  SessionKept(r)
    BY <1>1 DEF SessionKept, Unclear
  <1>2. ASSUME NEW r \in Recordings, RequestWrites(r)
        PROVE  SessionKept(r)
    <2>1. CASE row'[r] = [EmptyRow EXCEPT !.status = "STAGING", !.key = "pending"]
               /\ row[r].status = NoRow
      BY <2>1 DEF SessionKept, Unclear, EmptyRow, NoRow
    <2>2. CASE row'[r] = [row[r] EXCEPT !.key = "object"]
      BY <1>0, <2>2 DEF SessionKept, Unclear, Row
    <2>3. CASE row'[r] = [row[r] EXCEPT !.status = "QUEUED"] /\ (Unclear(r) => r \in overtaken')
      BY <1>0, <2>3 DEF SessionKept, Row
    <2>4. CASE row'[r] = [row[r] EXCEPT !.status = "DELETE_PENDING"]
      BY <1>0, <2>4 DEF SessionKept, Gone, GoneStates, Row
    <2> QED BY <1>2, <2>1, <2>2, <2>3, <2>4 DEF RequestWrites, Writes, Unclear
  <1>3. ASSUME NEW r \in Recordings, PollWrites(r)
        PROVE  SessionKept(r)
    BY <1>0, <1>3 DEF PollWrites, Writes, SessionKept, Unclear, Row
  <1>4. ASSUME NEW r \in Recordings, CleanupWrites(r)
        PROVE  SessionKept(r)
    BY <1>0, <1>4 DEF CleanupWrites, Writes, SessionKept, Unclear, Row, Gone, Retired,
                      RetiredStates, GoneStates
  <1>5. ASSUME NEW r \in Recordings, Writes(r, [row[r] EXCEPT !.deferred = FALSE])
        PROVE  SessionKept(r)
    BY <1>0, <1>5 DEF Writes, SessionKept, Unclear, Row
  <1>6. CASE RequestNext
    BY <1>1, <1>2, <1>6, RequestRows DEF RequestWrites, Writes
  <1>7. CASE PollNext
    BY <1>1, <1>3, <1>7, PollRows DEF PollWrites, Writes
  <1>8. CASE CleanupNext
    BY <1>1, <1>4, <1>8, CleanupRows DEF CleanupWrites, Writes
  <1>9. CASE WorkerNext
    BY <1>1, <1>5, <1>9, WorkerRows DEF Writes
  <1> QED BY <1>6, <1>7, <1>8, <1>9

\* What the other components do to a row as OnceInv sees it.
LEMMA OnceElsewhere ==
    ASSUME PipelineAssumption, TypeInv, UploadInv, SourceInv, OnceInv,
           RequestNext \/ PollNext \/ CleanupNext \/ WorkerNext
    PROVE  OnceInv'
  <1>k. /\ UploadSteps = {"redirect", "claim", "session", "persist", "send", "save", "fail"}
        /\ AttemptSteps = {"session", "persist", "send", "save", "fail"}
        /\ PollSteps = {"poll"} /\ GoneStates = {"DELETE_PENDING", "DELETED"} /\ NoRow = "NONE"
        /\ DeletesGone /\ YoutubeSlots \subseteq Slots /\ RealSessions
        /\ CompletionChecked /\ CleansRetired
    BY DEF UploadSteps, AttemptSteps, PollSteps, GoneStates, NoRow, UploadInv, SourceInv, Slots,
           OnceInv
  <1>1. /\ \A r \in Recordings : SessionKept(r)
        /\ overtaken \subseteq overtaken' /\ UNCHANGED inserted
    BY <1>k, SessionsElsewhere
  <1>2. \A h \in Slots, r \in Recordings :
            InAttempt(h, r)' => handler'[h] = handler[h] /\ InAttempt(h, r)
    <2>1. \A h \in Slots : handler'[h].step \in AttemptSteps => handler'[h] = handler[h]
      BY <1>k, RequestFrame, PollFrame, CleanupFrame, WorkerFrame DEF MovesOnly
    <2> QED BY <2>1 DEF InAttempt
  <1>3. \A r \in Recordings :
            /\ row'[r].status = row[r].status \/ row[r].status # "YOUTUBE_UPLOADING" \/ Gone(r)'
            /\ Gone(r) => Gone(r)'
            /\ row'[r].status = NoRow => row[r].status = NoRow
            /\ \/ row'[r].video = row[r].video
               \/ Gone(r) /\ row'[r].video = None
               \/ row[r].status = NoRow /\ row'[r].video = None
    <2>1. CASE RequestNext
      BY <1>k, <2>1, RequestFrame DEF Gone
    <2>2. CASE PollNext
      BY <1>k, <2>2, PollFrame DEF Gone, OnPath, PathMoves
    <2>3. CASE CleanupNext
      BY <1>k, <2>3, CleanupFrame DEF Gone
    <2>4. CASE WorkerNext
      BY <1>k, <2>4, WorkerFrame DEF Gone
    <2> QED BY <2>1, <2>2, <2>3, <2>4
  <1>4. RealSessions'
    BY <1>1, <1>3, <1>k DEF RealSessions
  <1>5. ASSUME NEW r \in Recordings \ overtaken'
        PROVE  OneSession(r)'
    <2>1. r \notin overtaken /\ OneSession(r) /\ SessionKept(r)
      BY <1>1, <1>5 DEF OnceInv
    <2>2. ASSUME NEW h \in YoutubeSlots, InAttempt(h, r)'
          PROVE  AttemptKnows(h, r)'
      <3>1. AttemptKnows(h, r) /\ handler'[h] = handler[h]
        BY <1>2, <1>k, <2>1, <2>2 DEF OneSession
      <3>2. row[r].status # NoRow
        BY <1>k, <3>1 DEF AttemptKnows
      <3> QED BY <1>1, <1>2, <1>3, <1>k, <2>1, <3>1, <3>2 DEF AttemptKnows, SessionKept, Gone
    <2>3. ASSUME MayUpload(r)'
          PROVE  inserted'[r] \subseteq {row'[r].session}
      <3>1. CASE row[r].status = NoRow
        BY <1>1, <1>k, <3>1 DEF RealSessions
      <3>2. CASE row[r].status # NoRow
        <4>1. MayUpload(r)
          BY <1>3, <1>5, <2>1, <2>3, <3>2 DEF MayUpload, SessionKept, Gone
        <4> QED BY <1>1, <2>1, <3>2, <4>1 DEF OneSession, SessionKept
      <3> QED BY <3>1, <3>2
    <2> QED BY <1>1, <2>1, <2>2, <2>3 DEF OneSession
  <1> QED BY <1>4, <1>5 DEF OnceInv
-----------------------------------------------------------------------------
(* OneInsert: steps of the upload handler *)

\* Nobody enters an attempt on a recording whose tables stay as they are.
LEMMA OnceOther ==
    ASSUME NEW r \in Recordings, OneSession(r), row'[r] = row[r], inserted'[r] = inserted[r],
           \A g \in YoutubeSlots : InAttempt(g, r)' => handler'[g] = handler[g]
    PROVE  OneSession(r)'
  <1>1. \A g \in YoutubeSlots : InAttempt(g, r)' => InAttempt(g, r)
    BY DEF InAttempt
  <1>2. \A h \in YoutubeSlots : InAttempt(h, r)' => AttemptKnows(h, r)'
    BY <1>1 DEF OneSession, AttemptKnows
  <1>3. MayUpload(r)' => inserted'[r] \subseteq {row'[r].session}
    BY DEF OneSession, MayUpload, Unclear
  <1> QED BY <1>2, <1>3 DEF OneSession

\* A step of handler h that concerns one recording.
LEMMA OnceOne ==
    ASSUME OnceInv, NEW h \in YoutubeSlots, OthersKept(h), NEW r \in Recordings,
           \A s \in Recordings : s # r => row'[s] = row[s] /\ inserted'[s] = inserted[s],
           \A s \in Recordings : s # r => ~InAttempt(h, s)',
           overtaken \subseteq overtaken',
           row[r].status # NoRow, row'[r].status # NoRow, None \notin inserted'[r],
           r \notin overtaken' => OneSession(r)'
    PROVE  OnceInv'
  <1>1. RealSessions'
    BY DEF OnceInv, RealSessions
  <1>2. ASSUME NEW s \in Recordings \ overtaken', s # r
        PROVE  OneSession(s)'
    <2>1. OneSession(s)
      BY <1>2 DEF OnceInv
    <2>2. \A g \in YoutubeSlots : InAttempt(g, s)' => handler'[g] = handler[g]
      BY <1>2 DEF OthersKept, Slots
    <2> QED BY <1>2, <2>1, <2>2, OnceOther
  <1> QED BY <1>1, <1>2 DEF OnceInv

\* The attempt goes on.
LEMMA OnceGoesOn ==
    ASSUME NEW h \in YoutubeSlots, OthersKept(h), NEW r \in Recordings, OneSession(r),
           InAttempt(h, r), InAttempt(h, r)',
           row'[r].video = row[r].video, row'[r].status = row[r].status,
           handler'[h].step \in {"session", "send", "save"} =>
              handler'[h].session = row'[r].session,
           handler'[h].step = "persist" => row'[r].session = None,
           inserted'[r] \subseteq {row'[r].session}
    PROVE  OneSession(r)'
  <1>1. AttemptKnows(h, r)
    BY DEF OneSession
  <1>2. \A g \in YoutubeSlots : InAttempt(g, r)' => g = h
    BY <1>1 DEF AttemptKnows, OthersKept, InAttempt, Slots
  <1>3. AttemptKnows(h, r)'
    BY <1>1, <1>2 DEF AttemptKnows
  <1> QED BY <1>2, <1>3 DEF OneSession

\* The attempt ends.
LEMMA OnceEnds ==
    ASSUME NEW h \in YoutubeSlots, OthersKept(h), NEW r \in Recordings, OneSession(r),
           InAttempt(h, r), ~InAttempt(h, r)', inserted'[r] = inserted[r],
           MayUpload(r)' => inserted[r] \subseteq {row'[r].session}
    PROVE  OneSession(r)'
  <1>1. AttemptKnows(h, r)
    BY DEF OneSession
  <1>2. \A g \in YoutubeSlots : ~InAttempt(g, r)'
    BY <1>1 DEF AttemptKnows, OthersKept, InAttempt, Slots
  <1> QED BY <1>1, <1>2 DEF OneSession

\* An attempt concerns a row that exists.
LEMMA AttemptRow ==
    ASSUME TypeInv, UploadInv, NEW h \in YoutubeSlots, handler[h].step \in AttemptSteps
    PROVE  /\ handler[h] \in Handler /\ handler[h].rec \in Recordings
           /\ row[handler[h].rec] \in Row /\ row[handler[h].rec].status # NoRow
           /\ InAttempt(h, handler[h].rec)
  <1>1. handler[h].step \in JobSteps /\ h \in Slots
    BY StepDefs DEF AttemptSteps, Slots
  <1>2. handler[h].rec \in Recordings /\ row[handler[h].rec] \in Row
    BY <1>1, HandlerRecord
  <1>3. row[handler[h].rec].status # NoRow
    BY <1>2 DEF UploadInv, UploadExclusive, InAttempt, NoRowNoVideo, NoRow, GoneStates
  <1> QED BY <1>1, <1>2, <1>3, HandlerCases DEF TypeInv, JobInv, InAttempt

\* The steps of the upload handler keep OnceInv.
LEMMA OnceUpload ==
    ASSUME PipelineAssumption, TypeInv, UploadInv, OnceInv, UploadNext
    PROVE  OnceInv'
  <1> USE DEF At, uploadUnchanged, providerVars
  <1>0. /\ YoutubeSlots \subseteq Slots /\ JobInv /\ StoreTypes /\ UploadKnows /\ RealSessions
        /\ \A r \in Recordings : None \notin inserted[r]
    BY DEF Slots, TypeInv, UploadInv, OnceInv, RealSessions
  <1>k. /\ AttemptSteps = {"session", "persist", "send", "save", "fail"}
        /\ GoneStates = {"DELETE_PENDING", "DELETED"} /\ NoRow = "NONE"
    BY DEF AttemptSteps, GoneStates, NoRow
  \* The tables stay, and nobody enters an attempt.
  <1>s. ASSUME UNCHANGED <<row, inserted, overtaken>>,
               \A g \in YoutubeSlots :
                  handler'[g].step \in AttemptSteps => handler'[g] = handler[g]
        PROVE  OnceInv'
    <2>1. ASSUME NEW r \in Recordings \ overtaken
          PROVE  OneSession(r)'
      BY <1>s, <2>1, OnceOther DEF OnceInv, InAttempt
    <2> QED BY <1>s, <2>1 DEF OnceInv, RealSessions
  <1>1. ASSUME NEW h \in YoutubeSlots, NEW e \in EventIds, UploadStart(h, e) PROVE OnceInv'
    <2>1. \A g \in YoutubeSlots :
              handler'[g].step \in AttemptSteps => handler'[g] = handler[g]
      BY <1>0, <1>k, <1>1 DEF UploadStart, NothingToDo, Starts, Job, JobInv, JobTypes
    <2> QED BY <1>s, <1>1, <2>1 DEF UploadStart
  <1>2. ASSUME NEW h \in YoutubeSlots, UploadRedirect(h) PROVE OnceInv'
    <2> DEFINE new == [row[handler[h].rec] EXCEPT !.status = RedirectTarget(handler[h].status)]
    <2>1. handler[h].step \in JobSteps
      BY <1>2, StepDefs DEF UploadRedirect
    <2>2. PICK r \in Recordings : r = handler[h].rec /\ row[r] \in Row
      BY <1>0, <2>1, HandlerRecord
    <2>3. OthersKept(h) /\ handler'[h].step = "idle"
      BY <1>0, <1>2 DEF UploadRedirect, JobCompletedWithIntent, OthersKept, Idle, JobInv, JobTypes
    <2>4. CASE row' = row
      BY <1>0, <1>2, <1>k, <1>s, <2>3, <2>4 DEF UploadRedirect, OthersKept
    <2>5. CASE row' # row
      <3>1. /\ row' = [row EXCEPT ![r] = new]
            /\ canTransitionRecording(handler[h].status, RedirectTarget(handler[h].status))
            /\ row[r].status = handler[h].status
        BY <1>2, <2>2, <2>5 DEF UploadRedirect, RowAfter, transitionAllowed
      <3>2. row[r].status \in {"QUEUED", "YOUTUBE_UPLOADING"}
        <4>1. row[r].status \in RowStates /\ row[r].status # NoRow
          BY <1>0, <1>2, <1>k, <2>2 DEF UploadRedirect, UploadKnows, UploadInv, NoRowNoVideo, Row
        <4> QED BY <1>k, <3>1, <4>1, StateNames
                DEF RedirectTarget, canTransitionRecording, RECORDING_TRANSITIONS
      <3>3. row[r].video # None
        BY <1>0, <1>2, <1>k, <2>2, <3>2 DEF UploadRedirect, UploadKnows
      <3>4. /\ row'[r].video = row[r].video /\ row'[r].status = RedirectTarget(handler[h].status)
            /\ \A s \in Recordings : s # r => row'[s] = row[s]
        BY <1>0, <2>2, <3>1 DEF StoreTypes, Row
      <3>5. row'[r].status # NoRow
        BY <1>k, <3>1, <3>2, <3>4 DEF RedirectTarget
      <3>6. OneSession(r) => OneSession(r)'
        <4>1. OneSession(r) => \A g \in YoutubeSlots : ~InAttempt(g, r)
          BY <3>3 DEF OneSession, AttemptKnows
        <4>2. \A g \in YoutubeSlots : InAttempt(g, r)' => InAttempt(g, r)
          BY <1>k, <2>3 DEF OthersKept, InAttempt, Slots
        <4>3. ~MayUpload(r)'
          BY <3>3, <3>4 DEF MayUpload
        <4> QED BY <1>2, <4>1, <4>2, <4>3 DEF OneSession, UploadRedirect
      <3>7. \A s \in Recordings : ~InAttempt(h, s)'
        BY <1>k, <2>3 DEF InAttempt
      <3> QED BY <1>0, <1>2, <1>k, <2>3, <3>2, <3>4, <3>5, <3>6, <3>7, OnceOne
              DEF UploadRedirect, OnceInv
    <2> QED BY <2>4, <2>5
  <1>3. ASSUME NEW h \in YoutubeSlots, UploadClaim(h) PROVE OnceInv'
    <2> DEFINE new == [row[handler[h].rec] EXCEPT !.status = "YOUTUBE_UPLOADING", !.code = "none"]
               failed == [handler[h] EXCEPT !.step = "fail", !.error = "OTHER"]
               taken == [handler[h] EXCEPT !.step = "session",
                                           !.session = row[handler[h].rec].session]
    <2>1. handler[h].step \in JobSteps /\ UNCHANGED inserted
      BY <1>3, StepDefs DEF UploadClaim
    <2>2. PICK r \in Recordings : r = handler[h].rec /\ row[r] \in Row
      BY <1>0, <2>1, HandlerRecord
    <2>3. CASE JobCompleted(h) /\ UNCHANGED <<row, overtaken>>
      <3>1. OthersKept(h) /\ handler'[h].step = "idle"
        BY <1>0, <2>3 DEF JobCompleted, OthersKept, Idle, JobInv, JobTypes
      <3> QED BY <1>0, <1>k, <1>s, <2>1, <2>3, <3>1 DEF OthersKept
    <2>4. CASE ~(JobCompleted(h) /\ UNCHANGED <<row, overtaken>>)
      <3>1. /\ row[r].status = "QUEUED" /\ row' = [row EXCEPT ![r] = new]
            /\ overtaken' = IF row[r].video # None THEN overtaken \cup {r} ELSE overtaken
            /\ handler' = [handler EXCEPT ![h] = failed] \/ handler' = [handler EXCEPT ![h] = taken]
        BY <1>0, <1>3, <2>2, <2>4 DEF UploadClaim, transitionAllowed, StoreTypes, JobInv, JobTypes
      <3>2. /\ \A s \in Recordings : s # r => row'[s] = row[s]
            /\ row'[r].status = "YOUTUBE_UPLOADING" /\ row'[r].video = row[r].video
            /\ row'[r].session = row[r].session
        BY <1>0, <2>2, <3>1 DEF StoreTypes, Row
      <3>3. handler[h] \in Handler
        BY <1>0, <2>1, HandlerCases DEF JobInv
      <3>4. /\ failed.step = "fail" /\ failed.rec = r
            /\ taken.step = "session" /\ taken.rec = r /\ taken.session = row[r].session
        BY <2>2, <3>3 DEF Handler
      <3> HIDE DEF new, failed, taken
      <3>5. /\ OthersKept(h) /\ handler'[h].rec = r
            /\ \/ handler'[h].step = "fail"
               \/ handler'[h].step = "session" /\ handler'[h].session = row[r].session
        BY <1>0, <3>1, <3>4 DEF OthersKept, JobInv, JobTypes
      <3>6. ASSUME r \notin overtaken'
            PROVE  OneSession(r)'
        <4>1. row[r].video = None /\ OneSession(r)
          BY <3>1, <3>6 DEF OnceInv
        <4>2. inserted[r] \subseteq {row[r].session}
          BY <1>k, <3>1, <4>1 DEF OneSession, MayUpload, Unclear
        <4>3. \A g \in YoutubeSlots : InAttempt(g, r)' => g = h
          BY <1>0, <1>k, <3>1, <3>5, <4>1 DEF OneSession, AttemptKnows, OthersKept, InAttempt
        <4>4. AttemptKnows(h, r)'
          BY <2>1, <3>2, <3>5, <4>1, <4>2, <4>3 DEF AttemptKnows
        <4> QED BY <2>1, <3>2, <4>1, <4>2, <4>3, <4>4 DEF OneSession
      <3>7. \A s \in Recordings : s # r => ~InAttempt(h, s)'
        BY <3>5 DEF InAttempt
      <3> QED BY <1>0, <1>k, <2>1, <3>1, <3>2, <3>5, <3>6, <3>7, OnceOne
    <2> QED BY <2>3, <2>4
  \* Whatever handler h does within its attempt.
  <1>a. ASSUME NEW h \in YoutubeSlots, handler[h].step \in AttemptSteps, OthersKept(h),
               handler'[h].step \in AttemptSteps => handler'[h].rec = handler[h].rec,
               UNCHANGED overtaken, NEW r \in Recordings, r = handler[h].rec,
               \A s \in Recordings : s # r => row'[s] = row[s] /\ inserted'[s] = inserted[s],
               row'[r].status # NoRow, None \notin inserted'[r],
               OneSession(r) => OneSession(r)'
        PROVE  OnceInv'
    <2>1. \A s \in Recordings : s # r => ~InAttempt(h, s)'
      BY <1>a DEF InAttempt
    <2>2. row[r].status # NoRow /\ (r \notin overtaken' => OneSession(r)')
      BY <1>a, AttemptRow DEF OnceInv
    <2> QED BY <1>a, <2>1, <2>2, OnceOne
  \* The attempt goes on and no row or video changes.
  <1>g. ASSUME NEW h \in YoutubeSlots, handler[h].step \in AttemptSteps, OthersKept(h),
               handler'[h].step \in AttemptSteps, handler'[h].rec = handler[h].rec,
               UNCHANGED <<row, inserted, overtaken>>,
               OneSession(handler[h].rec) =>
                  /\ handler'[h].step \in {"session", "send", "save"} =>
                        handler'[h].session = row[handler[h].rec].session
                  /\ handler'[h].step = "persist" => row[handler[h].rec].session = None
        PROVE  OnceInv'
    <2>1. PICK r \in Recordings : r = handler[h].rec /\ row[r].status # NoRow /\ InAttempt(h, r)
      BY <1>g, AttemptRow
    <2>2. InAttempt(h, r)'
      BY <1>g, <2>1 DEF InAttempt
    <2>3. ASSUME OneSession(r)
          PROVE  OneSession(r)'
      <3>1. inserted[r] \subseteq {row[r].session}
        BY <2>1, <2>3 DEF OneSession, AttemptKnows
      <3> QED BY <1>g, <2>1, <2>2, <2>3, <3>1, OnceGoesOn
    <2> QED BY <1>0, <1>a, <1>g, <2>1, <2>3
  \* What a handler at an attempt step knows.
  <1>w. ASSUME NEW h \in YoutubeSlots, handler[h].step \in AttemptSteps,
               OneSession(handler[h].rec)
        PROVE  AttemptKnows(h, handler[h].rec)
    BY <1>w DEF OneSession, InAttempt
  <1>f. ASSUME NEW h \in YoutubeSlots, NEW error, Fails(h, error), handler[h].step \in AttemptSteps
        PROVE  OthersKept(h) /\ handler'[h].step = "fail" /\ handler'[h].rec = handler[h].rec
    <2>1. handler[h] \in Handler
      BY <1>f, AttemptRow
    <2> QED BY <1>0, <1>f, <2>1 DEF Fails, OthersKept, Handler, JobInv, JobTypes
  <1>t. ASSUME NEW h \in YoutubeSlots, NEW step, Goes(h, step), handler[h].step \in AttemptSteps
        PROVE  /\ OthersKept(h) /\ handler'[h].step = step /\ handler'[h].rec = handler[h].rec
               /\ handler'[h].session = handler[h].session
    <2>1. handler[h] \in Handler
      BY <1>t, AttemptRow
    <2> QED BY <1>0, <1>t, <2>1 DEF Goes, OthersKept, Handler, JobInv, JobTypes
  <1>4. ASSUME NEW h \in YoutubeSlots, OpenSession(h) PROVE OnceInv'
    <2> DEFINE next == [handler[h] EXCEPT !.step = "persist", !.session = opened[handler[h].rec] + 1]
    <2>1. next.step = "persist" /\ next.rec = handler[h].rec
      BY <1>4, <1>k, AttemptRow DEF OpenSession, Handler
    <2>2. handler' = [handler EXCEPT ![h] = next]
      BY <1>0, <1>4 DEF OpenSession, JobInv, JobTypes
    <2> HIDE DEF next
    <2>3. OthersKept(h) /\ handler'[h] = next
      BY <1>0, <2>2 DEF OthersKept, JobInv, JobTypes
    <2>4. OneSession(handler[h].rec) => row[handler[h].rec].session = None
      BY <1>4, <1>k, <1>w DEF OpenSession, AttemptKnows
    <2> QED BY <1>4, <1>g, <1>k, <2>1, <2>3, <2>4 DEF OpenSession
  <1>5. ASSUME NEW h \in YoutubeSlots, PersistSession(h) PROVE OnceInv'
    <2>1. PICK r \in Recordings : /\ r = handler[h].rec /\ row[r] \in Row
                                  /\ row[r].status # NoRow /\ InAttempt(h, r)
      BY <1>5, <1>k, AttemptRow DEF PersistSession
    <2>2. /\ row'[r].session = handler[h].session /\ row'[r].video = row[r].video
          /\ row'[r].status = row[r].status /\ \A s \in Recordings : s # r => row'[s] = row[s]
      BY <1>0, <1>5, <2>1 DEF PersistSession, StoreTypes, Row
    <2>3. /\ OthersKept(h) /\ handler'[h].step = "send" /\ handler'[h].rec = r
          /\ handler'[h].session = handler[h].session
      BY <1>5, <1>k, <1>t, <2>1 DEF PersistSession
    <2>4. ASSUME OneSession(r)
          PROVE  OneSession(r)'
      <3>1. inserted[r] \subseteq {None}
        BY <1>5, <1>k, <1>w, <2>1, <2>4 DEF PersistSession, AttemptKnows
      <3>2. inserted'[r] \subseteq {row'[r].session}
        BY <1>0, <1>5, <3>1 DEF PersistSession
      <3>3. InAttempt(h, r)'
        BY <1>k, <2>3 DEF InAttempt
      <3> QED BY <2>1, <2>2, <2>3, <2>4, <3>2, <3>3, OnceGoesOn
    <2> QED BY <1>0, <1>5, <1>a, <1>k, <2>1, <2>2, <2>3, <2>4 DEF PersistSession
  <1>6. ASSUME NEW h \in YoutubeSlots,
               \/ ProbeSession(h)
               \/ \E error \in {"QUOTA", "OTHER", "REAUTH"} : UploadThrows(h, error)
        PROVE  OnceInv'
    <2>1. handler[h].step \in AttemptSteps /\ UNCHANGED <<row, inserted, overtaken>>
      BY <1>6, <1>k DEF ProbeSession, UploadThrows
    <2>2. CASE \E error : Fails(h, error)
      <3>1. OthersKept(h) /\ handler'[h].step = "fail" /\ handler'[h].rec = handler[h].rec
        BY <1>f, <2>1, <2>2
      <3> QED BY <1>g, <1>k, <2>1, <3>1
    <2>3. CASE ProbeSession(h) /\ Goes(h, "send")
      <3>1. /\ OthersKept(h) /\ handler'[h].step = "send" /\ handler'[h].rec = handler[h].rec
            /\ handler'[h].session = handler[h].session
        BY <1>t, <2>1, <2>3
      <3>2. OneSession(handler[h].rec) => handler[h].session = row[handler[h].rec].session
        BY <1>k, <1>w, <2>3 DEF ProbeSession, AttemptKnows
      <3> QED BY <1>g, <1>k, <2>1, <3>1, <3>2
    <2> QED BY <1>6, <2>2, <2>3 DEF ProbeSession, UploadThrows
  \* YouTube makes a video, or answers that it has.
  <1>7. ASSUME NEW h \in YoutubeSlots, SendAccepted(h) \/ SendUnclear(h) PROVE OnceInv'
    <2>1. PICK r \in Recordings : /\ r = handler[h].rec /\ row[r] \in Row
                                  /\ row[r].status # NoRow /\ InAttempt(h, r)
      BY <1>7, <1>k, AttemptRow DEF SendAccepted, SendUnclear, Sending
    <2>2. handler[h].step = "send" /\ handler[h].session # None /\ UNCHANGED <<row, overtaken>>
      BY <1>0, <1>7 DEF SendAccepted, SendUnclear, Sending, UploadKnows
    <2>3. /\ inserted'[r] \subseteq inserted[r] \cup {handler[h].session}
          /\ \A s \in Recordings : s # r => inserted'[s] = inserted[s]
      BY <1>0, <1>7, <2>1 DEF SendAccepted, SendUnclear, Insert, StoreTypes
    <2>4. /\ OthersKept(h) /\ handler'[h].rec = r
          /\ \/ handler'[h].step = "save" /\ handler'[h].session = handler[h].session
             \/ handler'[h].step = "fail"
      BY <1>7, <1>k, <1>f, <1>t, <2>1, <2>2 DEF SendAccepted, SendUnclear
    <2>5. ASSUME OneSession(r)
          PROVE  OneSession(r)'
      <3>1. handler[h].session = row[r].session /\ inserted'[r] \subseteq {row[r].session}
        BY <1>k, <1>w, <2>1, <2>2, <2>3, <2>5 DEF AttemptKnows
      <3>2. InAttempt(h, r)'
        BY <1>k, <2>4 DEF InAttempt
      <3> QED BY <2>1, <2>2, <2>4, <2>5, <3>1, <3>2, OnceGoesOn
    <2> QED BY <1>0, <1>a, <1>k, <2>1, <2>2, <2>3, <2>4, <2>5
  \* The attempt ends.
  <1>e. ASSUME NEW h \in YoutubeSlots, handler[h].step \in AttemptSteps, OthersKept(h),
               handler'[h].step = "idle", UNCHANGED <<inserted, overtaken>>,
               NEW r \in Recordings, r = handler[h].rec,
               \A s \in Recordings : s # r => row'[s] = row[s], row'[r].status # NoRow,
               inserted[r] \subseteq {row[r].session} =>
                  (MayUpload(r)' => inserted[r] \subseteq {row'[r].session})
        PROVE  OnceInv'
    <2>1. InAttempt(h, r) /\ ~InAttempt(h, r)'
      BY <1>e, <1>k DEF InAttempt
    <2>2. OneSession(r) => inserted[r] \subseteq {row[r].session}
      BY <1>e, <1>w DEF AttemptKnows
    <2>3. OneSession(r) => OneSession(r)'
      BY <1>e, <2>1, <2>2, OnceEnds
    <2> QED BY <1>0, <1>a, <1>e, <1>k, <2>3
  <1>8. ASSUME NEW h \in YoutubeSlots, SendPartial(h) PROVE OnceInv'
    <2>1. handler[h].step \in AttemptSteps /\ UNCHANGED <<row, inserted, overtaken>>
      BY <1>8, <1>k DEF SendPartial, Sending
    <2>2. OthersKept(h) /\ handler'[h].step = "idle"
      BY <1>0, <1>8 DEF SendPartial, JobCompleted, OthersKept, Idle, JobInv, JobTypes
    <2> QED BY <1>e, <2>1, <2>2, AttemptRow
  <1>9. ASSUME NEW h \in YoutubeSlots, SaveVideo(h) PROVE OnceInv'
    <2> DEFINE saved == [row[handler[h].rec] EXCEPT !.video = handler[h].session, !.session = None]
               moved == [saved EXCEPT !.status = "YOUTUBE_PROCESSING"]
    <2>1. handler[h].step = "save" /\ UNCHANGED <<inserted, overtaken>>
      BY <1>9 DEF SaveVideo
    <2>2. PICK r \in Recordings : r = handler[h].rec /\ row[r] \in Row /\ row[r].status # NoRow
      BY <1>k, <2>1, AttemptRow
    <2>3. /\ saved.video = handler[h].session /\ moved.video = handler[h].session
          /\ saved.status = row[r].status /\ moved.status = "YOUTUBE_PROCESSING"
      BY <2>2 DEF Row
    <2>4. row' = [row EXCEPT ![r] = saved] \/ row' = [row EXCEPT ![r] = moved]
      BY <1>9, <2>2 DEF SaveVideo
    <2> HIDE DEF saved, moved
    <2>5. /\ row'[r].video = handler[h].session /\ row'[r].status # NoRow
          /\ \A s \in Recordings : s # r => row'[s] = row[s]
      BY <1>0, <1>k, <2>2, <2>3, <2>4 DEF StoreTypes
    <2>6. ~MayUpload(r)'
      BY <1>0, <2>1, <2>5 DEF UploadKnows, MayUpload
    <2>7. OthersKept(h) /\ handler'[h].step = "idle"
      BY <1>0, <1>9 DEF SaveVideo, JobCompleted, JobCompletedWithIntent, OthersKept, Idle, JobInv,
                        JobTypes
    <2> QED BY <1>e, <1>k, <2>1, <2>2, <2>5, <2>6, <2>7
  <1>10. ASSUME NEW h \in YoutubeSlots, UploadFail(h) PROVE OnceInv'
    <2> DEFINE new == FailedRow(handler[h].rec, handler[h].error)
    <2>1. handler[h].step = "fail" /\ UNCHANGED <<inserted, overtaken>>
      BY <1>10 DEF UploadFail
    <2>2. PICK r \in Recordings : r = handler[h].rec /\ row[r] \in Row /\ row[r].status # NoRow
      BY <1>k, <2>1, AttemptRow
    <2>3. /\ new.status \in {"QUEUED", "FAILED"}
          /\ \/ new.session = row[r].session
             \/ new.status = "FAILED" /\ new.code = "AMBIGUOUS"
      BY <2>2 DEF FailedRow, Row
    <2>4. row' = row \/ row' = [row EXCEPT ![r] = new]
      BY <1>10, <2>2 DEF UploadFail, RowAfter
    <2> HIDE DEF new
    <2>5. /\ row'[r].status # NoRow /\ \A s \in Recordings : s # r => row'[s] = row[s]
          /\ row'[r].session = row[r].session \/ Unclear(r)'
      BY <1>0, <1>k, <2>2, <2>3, <2>4 DEF StoreTypes, Unclear
    <2>6. OthersKept(h) /\ handler'[h].step = "idle"
      BY <1>0, <1>10 DEF UploadFail, JobCompleted, OthersKept, Idle, JobInv, JobTypes
    <2> QED BY <1>e, <1>k, <2>1, <2>2, <2>5, <2>6 DEF MayUpload
  <1>11. ASSUME NEW r \in Recordings, SessionExpires(r) PROVE OnceInv'
    BY <1>11, <1>s DEF SessionExpires
  <1> QED
    BY <1>1, <1>2, <1>3, <1>4, <1>5, <1>6, <1>7, <1>8, <1>9, <1>10, <1>11 DEF UploadNext
-----------------------------------------------------------------------------
\* OnceInv holds initially and is kept by every step.
LEMMA OnceInit ==
    ASSUME PipelineAssumption, Init
    PROVE  OnceInv
  BY DEF Init, OnceInv, RealSessions, OneSession, InAttempt, AttemptSteps, Idle, EmptyRow, Slots

LEMMA OncePreserved ==
    ASSUME PipelineAssumption, TypeInv, UploadInv, SourceInv, OnceInv, [Next]_vars
    PROVE  OnceInv'
  <1>1. CASE UNCHANGED vars
    BY <1>1 DEF vars, OnceInv, RealSessions, OneSession, InAttempt, AttemptKnows, MayUpload, Unclear
  <1>2. CASE UploadNext
    BY <1>2, OnceUpload
  <1>3. CASE RequestNext \/ PollNext \/ CleanupNext \/ WorkerNext
    BY <1>3, OnceElsewhere DEF SourceInv
  <1> QED BY <1>1, <1>2, <1>3 DEF Next

\* A recording has one session at most that made videos, in every reachable state.
THEOREM OnceInvariant == Spec => []OnceInv
  <1>1. Init => OnceInv
    BY OnceInit, PipelineAssumption
  <1>2. TypeInv /\ UploadInv /\ SourceInv /\ OnceInv /\ [Next]_vars => OnceInv'
    BY OncePreserved, PipelineAssumption
  <1> QED BY <1>1, <1>2, TypesInvariant, UploadsInvariant, SourceInvariant, PTL DEF Spec

\* The videos of a recording can be counted.
LEMMA VideosCounted ==
    ASSUME PipelineAssumption, StoreTypes, NEW r \in Recordings
    PROVE  /\ IsFiniteSet(inserted[r]) /\ Cardinality(inserted[r]) \in Nat
           /\ inserted[r] # {} => Cardinality(inserted[r]) > 0
           /\ inserted[r] = {} => Cardinality(inserted[r]) = 0
           /\ (\A s, t \in inserted[r] : s = t) => Cardinality(inserted[r]) <= 1
  <1>1. IsFiniteSet(inserted[r])
    <2>1. IsFiniteSet(0 .. MaxSessions)
      BY FS_Interval DEF PipelineAssumption
    <2> QED BY <2>1, FS_Subset DEF StoreTypes
  <1>2. Cardinality(inserted[r]) \in Nat
    BY <1>1, FS_CardinalityType
  <1>3. /\ inserted[r] # {} => Cardinality(inserted[r]) > 0
        /\ inserted[r] = {} => Cardinality(inserted[r]) = 0
    BY <1>1, <1>2, FS_EmptySet
  <1>4. ASSUME \A s, t \in inserted[r] : s = t, NEW s \in inserted[r]
        PROVE  Cardinality(inserted[r]) = 1
    <2>1. inserted[r] = {s}
      BY <1>4
    <2> QED BY <2>1, FS_Singleton
  <1> QED BY <1>1, <1>2, <1>3, <1>4

\* However often its upload is queued, claimed, interrupted, resumed and redelivered,
\* YouTube makes one video at most of a recording that no overtaken retry or claim
\* sent back.
THEOREM UploadedOnce == Spec => []OneInsert
  <1>1. TypeInv /\ OnceInv => OneInsert
    BY VideosCounted, PipelineAssumption DEF TypeInv, OnceInv, OneSession, OneInsert
  <1> QED BY <1>1, TypesInvariant, OnceInvariant, PTL
-----------------------------------------------------------------------------
(* The refinement of RecordingLifecycle *)

\* A URL is presigned, and a deletion asked for, for a row that exists.
UrlInv ==
    /\ \A r \in Recordings : url[r] => row[r].status # NoRow
    /\ \A q \in Requests : request[q].op = "create" => row[request[q].rec].status # NoRow
    /\ \A q \in Requests : request[q].op = "delete" => request[q].status # NoRow

\* Everything a step of the life cycle relies on.
LifecycleInv == TypeInv /\ SourceInv /\ UploadInv /\ VideoInv /\ OnceInv /\ UrlInv

\* No row is taken back.
LEMMA RowsStay ==
    ASSUME PipelineAssumption, TypeInv, UploadInv, Next, NEW r \in Recordings,
           row[r].status # NoRow
    PROVE  row'[r].status # NoRow
  <1>k. NoRow = "NONE" /\ DeletesGone
    BY DEF NoRow, UploadInv
  <1>1. CASE RequestNext
    BY <1>1, <1>k, RequestFrame
  <1>2. CASE UploadNext
    BY <1>2, <1>k, UploadFrame DEF OnPath, PathMoves
  <1>3. CASE PollNext
    BY <1>3, <1>k, PollFrame DEF OnPath, PathMoves
  <1>4. CASE CleanupNext
    BY <1>4, <1>k, CleanupFrame
  <1>5. CASE WorkerNext
    BY <1>5, WorkerFrame
  <1> QED BY <1>1, <1>2, <1>3, <1>4, <1>5 DEF Next

\* URLs and create requests outlive no row and precede none.
LEMMA UrlPreserved ==
    ASSUME PipelineAssumption, TypeInv, UploadInv, UrlInv, [Next]_vars
    PROVE  UrlInv'
  <1>0. StoreTypes
    BY DEF TypeInv
  <1>1. CASE UNCHANGED vars
    BY <1>1 DEF vars, UrlInv
  \* Rows stay; URLs and create requests are old ones, or have a row.
  <1>2. ASSUME Next, \A r \in Recordings : url'[r] => url[r] \/ row[r].status # NoRow,
               \A q \in Requests : request'[q].op = "create" =>
                  request'[q] = request[q] \/ row'[request'[q].rec].status # NoRow,
               \A q \in Requests : request'[q].op = "delete" =>
                  request'[q] = request[q] \/ request'[q].status # NoRow
        PROVE  UrlInv'
    <2>1. \A r \in Recordings : url'[r] => row'[r].status # NoRow
      BY <1>2, RowsStay DEF UrlInv
    <2>2. ASSUME NEW q \in Requests, request'[q].op = "create", request'[q] = request[q]
          PROVE  row'[request'[q].rec].status # NoRow
      <3>1. request[q].rec \in Recordings
        BY <1>0, <2>2, RequestRecord
      <3> QED BY <1>2, <2>2, <3>1, RowsStay DEF UrlInv
    <2> QED BY <1>2, <2>1, <2>2 DEF UrlInv
  <1>3. CASE UploadNext \/ PollNext \/ CleanupNext \/ WorkerNext
    <2>1. UNCHANGED <<url, request>>
      BY <1>3 DEF UploadNext, UploadStart, UploadRedirect, UploadClaim, OpenSession, PersistSession,
             ProbeSession, SendAccepted, SendUnclear, SendPartial, Sending, UploadThrows, SaveVideo,
             UploadFail, SessionExpires, uploadUnchanged,
             PollNext, PollStart, PollReady, PollFailed, PollPrivate, PollAgain, pollUnchanged,
             CleanupNext, DeleteStart, RemoveVideo, DeleteThrows, ForgetVideo, CleanupStart,
             RemoveObject, ForgetKey, FinishCheck, FinishDelete, ExpireRow, ExpireIntent,
             cleanupUnchanged, WorkerNext, Dispatch, Acknowledge, ScanSelect, ScanInsert,
             DeferralLapses, Crash, RecoverSelectProcessing, RecoverProcessing, RecoverSelectStale,
             RecoverStale, StartWorkers, Reconnect, workerUnchanged, storageVars
    <2> QED BY <1>2, <1>3, <2>1 DEF Next
  <1>4. CASE RequestNext
    <2> USE DEF storageVars
    <2>0. Next
      BY <1>4 DEF Next
    <2>1. ASSUME NEW q \in Requests, NEW r \in Recordings, CreateInsert(q, r) PROVE UrlInv'
      <3>1. row'[r].status = "STAGING" /\ UNCHANGED url
        BY <1>0, <2>1 DEF CreateInsert, EmptyRow, StoreTypes
      <3>2. \A p \in Requests : request'[p] = request[p] \/ request'[p].rec = r
        BY <1>0, <2>1 DEF CreateInsert, Reading, StoreTypes
      <3>3. "STAGING" # NoRow
        BY DEF NoRow
      <3>4. \A p \in Requests : request'[p].op = "create" =>
                request'[p] = request[p] \/ row'[request'[p].rec].status # NoRow
        BY <3>1, <3>2, <3>3
      <3>5. \A p \in Requests : request'[p].op = "delete" => request'[p] = request[p]
        BY <1>0, <2>1 DEF CreateInsert, Reading, StoreTypes
      <3> QED BY <1>2, <2>0, <3>1, <3>4, <3>5
    <2>2. ASSUME NEW q \in Requests, CreateFinish(q) PROVE UrlInv'
      <3>1. \A r \in Recordings : url'[r] => url[r] \/ row[r].status # NoRow
        BY <1>0, <2>2 DEF CreateFinish, UrlInv, StoreTypes
      <3>2. \A p \in Requests : request'[p].op \in {"create", "delete"} => request'[p] = request[p]
        BY <1>0, <2>2 DEF CreateFinish, Answered, NoRequest, StoreTypes
      <3> QED BY <1>2, <2>0, <3>1, <3>2
    <2>3. ASSUME NEW r \in Recordings, BrowserPut(r) \/ UrlExpires(r) PROVE UrlInv'
      <3>1. \A s \in Recordings : url'[s] => url[s]
        BY <1>0, <2>3 DEF BrowserPut, UrlExpires, StoreTypes
      <3>2. UNCHANGED request
        BY <2>3 DEF BrowserPut, UrlExpires
      <3> QED BY <1>2, <2>0, <3>1, <3>2
    <2>4. ASSUME NEW q \in Requests,
                 \/ CompleteCommit(q) \/ RetryCommit(q) \/ DeleteCommit(q) \/ RequestLost(q)
                 \/ \E r \in Recordings :
                       CompleteCheck(q, r) \/ RetryCheck(q, r) \/ DeleteCheck(q, r)
          PROVE  UrlInv'
      <3>1. UNCHANGED url
        BY <2>4 DEF CompleteCommit, RetryCommit, DeleteCommit, RequestLost, CompleteCheck,
                    RetryCheck, DeleteCheck
      <3>2. \A p \in Requests : p # q => request'[p] = request[p]
        BY <1>0, <2>4 DEF CompleteCommit, RetryCommit, DeleteCommit, RequestLost, CompleteCheck,
                          RetryCheck, DeleteCheck, Answered, StoreTypes
      <3>3. /\ request'[q].op # "create"
            /\ request'[q].op = "delete" => request'[q].status # NoRow
        <4>1. CASE \E r \in Recordings : CompleteCheck(q, r)
          BY <1>0, <4>1 DEF CompleteCheck, Reading, StoreTypes
        <4>2. CASE \E r \in Recordings : RetryCheck(q, r)
          BY <1>0, <4>2 DEF RetryCheck, Reading, StoreTypes
        <4>3. CASE \E r \in Recordings : DeleteCheck(q, r)
          BY <1>0, <4>3 DEF DeleteCheck, Reading, StoreTypes
        <4>4. CASE Answered(q)
          BY <1>0, <4>4 DEF Answered, NoRequest, StoreTypes
        <4> QED BY <2>4, <4>1, <4>2, <4>3, <4>4
                DEF CompleteCommit, RetryCommit, DeleteCommit, RequestLost
      <3> QED BY <1>2, <2>0, <3>1, <3>2, <3>3
    <2> QED BY <1>4, <2>1, <2>2, <2>3, <2>4 DEF RequestNext
  <1> QED BY <1>1, <1>3, <1>4 DEF Next
-----------------------------------------------------------------------------
\* The life cycle's names are the pipeline's.
LEMMA LifecycleNames ==
    /\ Lifecycle!NoRow = NoRow /\ Lifecycle!GoneStates = GoneStates
    /\ Lifecycle!RECORDING_STATES = RECORDING_STATES
    /\ \A from, to : Lifecycle!canTransitionRecording(from, to) = canTransitionRecording(from, to)
  BY DEF Lifecycle!NoRow, NoRow, Lifecycle!GoneStates, GoneStates, Lifecycle!RECORDING_STATES,
         RECORDING_STATES, Lifecycle!canTransitionRecording, canTransitionRecording,
         Lifecycle!RECORDING_TRANSITIONS, RECORDING_TRANSITIONS

\* One recording moves along the published life cycle.
LEMMA LifecycleMoves ==
    ASSUME NEW r \in Recordings, NEW next \in RECORDING_STATES,
           row[r].status # NoRow, canTransitionRecording(row[r].status, next),
           next = "QUEUED" => object[r],
           next \in {"YOUTUBE_PROCESSING", "READY"} => Cardinality(inserted[r]) > 0,
           row'[r].status = next, \A s \in Recordings : s # r => row'[s].status = row[s].status,
           UNCHANGED <<object, inserted>>,
           \/ UNCHANGED overtaken
           \/ /\ overtaken' = overtaken \cup {r}
              /\ \/ row[r].status = "FAILED" /\ next = "QUEUED"
                 \/ next = "YOUTUBE_UPLOADING" /\ Cardinality(inserted[r]) > 0
    PROVE  Lifecycle!LifecycleNext
  <1>1. Lifecycle!Move(r)
    BY LifecycleNames DEF Lifecycle!Move
  <1> QED BY <1>1 DEF Lifecycle!LifecycleNext

\* Nothing a user can see changes.
LEMMA LifecycleStutters ==
    ASSUME \A s \in Recordings : row'[s].status = row[s].status,
           UNCHANGED <<object, inserted, overtaken>>
    PROVE  UNCHANGED Lifecycle!lifecycleVars
  BY DEF Lifecycle!lifecycleVars

\* A recording that is being uploaded counts on its source, a saved video was made.
LEMMA LifecycleFacts ==
    ASSUME PipelineAssumption, LifecycleInv, NEW r \in Recordings
    PROVE  /\ row[r] \in Row
           /\ row[r].status \in KeptStates => object[r]
           /\ row[r].video # None => Cardinality(inserted[r]) > 0
           /\ \A s \in inserted[r] : Cardinality(inserted[r]) > 0
           /\ row[r].status = "YOUTUBE_PROCESSING" => Cardinality(inserted[r]) > 0
  <1>1. StoreTypes /\ SourceRetained /\ VideosAreReal /\ VideoWhenProcessed
    BY DEF LifecycleInv, TypeInv, SourceInv, VideoInv
  <1>2. \A s \in inserted[r] : Cardinality(inserted[r]) > 0
    BY <1>1, VideosCounted
  <1> QED BY <1>1, <1>2 DEF StoreTypes, SourceRetained, VideosAreReal, VideoWhenProcessed

\* The web requests and the browser.
LEMMA LifecycleRequests ==
    ASSUME PipelineAssumption, LifecycleInv, RequestNext
    PROVE  [Lifecycle!LifecycleNext]_Lifecycle!lifecycleVars
  <1>0. TypeInv /\ CompletionChecked /\ UrlInv /\ StoreTypes
    BY DEF LifecycleInv, SourceInv, TypeInv
  <1>1. CASE UNCHANGED <<row, overtaken, object, inserted>>
    BY <1>1, LifecycleStutters
  <1>2. ASSUME NEW r \in Recordings, url[r], object' = [object EXCEPT ![r] = TRUE],
               UNCHANGED <<row, overtaken, inserted>>
        PROVE  Lifecycle!LifecycleNext
    <2>1. Lifecycle!Store(r)
      BY <1>0, <1>2, LifecycleNames DEF Lifecycle!Store, UrlInv
    <2> QED BY <2>1 DEF Lifecycle!LifecycleNext
  <1>3. ASSUME NEW r \in Recordings, RequestWrites(r), UNCHANGED <<object, inserted>>
        PROVE  [Lifecycle!LifecycleNext]_Lifecycle!lifecycleVars
    <2>0. row[r] \in Row /\ \A s \in Recordings : s # r => row'[s] = row[s]
      BY <1>0, <1>3 DEF StoreTypes, RequestWrites, Writes
    <2>1. CASE row[r].status = NoRow /\ UNCHANGED overtaken
               /\ row'[r] = [EmptyRow EXCEPT !.status = "STAGING", !.key = "pending"]
      <3>1. row'[r].status = "STAGING"
        BY <2>1 DEF EmptyRow
      <3>2. Lifecycle!Start(r)
        BY <1>3, <2>0, <2>1, <3>1, LifecycleNames DEF Lifecycle!Start
      <3> QED BY <3>2 DEF Lifecycle!LifecycleNext
    <2>2. CASE row'[r] = [row[r] EXCEPT !.key = "object"] /\ UNCHANGED overtaken
      <3>1. row'[r].status = row[r].status
        BY <2>0, <2>2 DEF Row
      <3> QED BY <1>3, <2>0, <2>2, <3>1, LifecycleStutters
    <2>3. CASE /\ row'[r] = [row[r] EXCEPT !.status = "QUEUED"]
               /\ \/ row[r].status = "STAGING" /\ object[r] /\ UNCHANGED overtaken
                  \/ row[r].status = "FAILED"
                     /\ overtaken' = IF row[r].code = "AMBIGUOUS"
                                     THEN overtaken \cup {r} ELSE overtaken
      <3>1. row'[r].status = "QUEUED"
        BY <2>0, <2>3 DEF Row
      <3>2. object[r]
        BY <2>3, LifecycleFacts DEF KeptStates
      <3>3. row[r].status # NoRow /\ canTransitionRecording(row[r].status, "QUEUED")
        BY <2>3 DEF NoRow, canTransitionRecording, RECORDING_TRANSITIONS
      <3> QED BY <1>3, <2>0, <2>3, <3>1, <3>2, <3>3, LifecycleMoves DEF RECORDING_STATES
    <2>4. CASE /\ canTransitionRecording(row[r].status, "DELETE_PENDING") /\ UNCHANGED overtaken
               /\ \E q \in Requests : request[q].op = "delete" /\ request[q].status = row[r].status
               /\ row'[r] = [row[r] EXCEPT !.status = "DELETE_PENDING"]
      <3>1. row'[r].status = "DELETE_PENDING"
        BY <2>0, <2>4 DEF Row
      <3>2. row[r].status # NoRow
        BY <1>0, <2>4 DEF UrlInv
      <3> QED BY <1>3, <2>0, <2>4, <3>1, <3>2, LifecycleMoves DEF RECORDING_STATES
    <2> QED BY <1>3, <2>1, <2>2, <2>3, <2>4 DEF RequestWrites, Writes
  <1> QED BY <1>0, <1>1, <1>2, <1>3, RequestRows

\* The polls.
LEMMA LifecyclePolls ==
    ASSUME PipelineAssumption, LifecycleInv, PollNext
    PROVE  [Lifecycle!LifecycleNext]_Lifecycle!lifecycleVars
  <1>0. TypeInv
    BY DEF LifecycleInv
  <1>1. CASE UNCHANGED <<row, overtaken, object, inserted>>
    BY <1>1, LifecycleStutters
  <1>2. ASSUME NEW r \in Recordings, PollWrites(r), UNCHANGED <<overtaken, object, inserted>>
        PROVE  [Lifecycle!LifecycleNext]_Lifecycle!lifecycleVars
    <2>0. row[r] \in Row /\ \A s \in Recordings : s # r => row'[s] = row[s]
      BY <1>2, LifecycleFacts DEF PollWrites, Writes
    <2>1. CASE row[r].status = "YOUTUBE_PROCESSING"
      <3>1. row'[r].status \in {"READY", "FAILED"}
        BY <1>2, <2>0, <2>1 DEF PollWrites, Writes, Row
      <3>2. /\ row[r].status # NoRow /\ row'[r].status \in RECORDING_STATES
            /\ canTransitionRecording(row[r].status, row'[r].status)
        BY <2>1, <3>1 DEF NoRow, canTransitionRecording, RECORDING_TRANSITIONS, RECORDING_STATES
      <3>3. Cardinality(inserted[r]) > 0
        BY <2>1, LifecycleFacts
      <3> QED BY <1>2, <2>0, <3>1, <3>2, <3>3, LifecycleMoves
    <2>2. CASE row[r].status # "YOUTUBE_PROCESSING"
      <3>1. row'[r].status = row[r].status
        BY <1>2, <2>0, <2>2 DEF PollWrites, Writes, Row
      <3> QED BY <1>2, <2>0, <3>1, LifecycleStutters
    <2> QED BY <2>1, <2>2
  <1> QED BY <1>0, <1>1, <1>2, PollRows

\* The jobs that take things away.
LEMMA LifecycleCleanup ==
    ASSUME PipelineAssumption, LifecycleInv, CleanupNext
    PROVE  [Lifecycle!LifecycleNext]_Lifecycle!lifecycleVars
  <1>0. TypeInv /\ DeletesGone /\ CleansRetired
    BY DEF LifecycleInv, UploadInv, SourceInv
  <1>1. CASE UNCHANGED <<row, overtaken, object, inserted>>
    BY <1>1, LifecycleStutters
  <1>2. ASSUME NEW r \in Recordings, Retired(r), object' = [object EXCEPT ![r] = FALSE],
               UNCHANGED <<row, overtaken, inserted>>
        PROVE  Lifecycle!LifecycleNext
    <2>1. Lifecycle!Discard(r)
      BY <1>2, LifecycleNames DEF Lifecycle!Discard, Retired, RetiredStates
    <2> QED BY <2>1 DEF Lifecycle!LifecycleNext
  <1>3. ASSUME NEW r \in Recordings, CleanupWrites(r), UNCHANGED <<overtaken, object, inserted>>
        PROVE  [Lifecycle!LifecycleNext]_Lifecycle!lifecycleVars
    <2>0. row[r] \in Row /\ \A s \in Recordings : s # r => row'[s] = row[s]
      BY <1>3, LifecycleFacts DEF CleanupWrites, Writes
    <2>1. CASE row'[r].status = row[r].status
      BY <1>3, <2>0, <2>1, LifecycleStutters
    <2>2. CASE row'[r].status # row[r].status
      <3>1. \/ row[r].status = "DELETE_PENDING" /\ row'[r].status = "DELETED"
            \/ row[r].status = "STAGING" /\ row'[r].status = "EXPIRED"
        BY <1>3, <2>0, <2>2 DEF CleanupWrites, Writes, Row
      <3>2. /\ row[r].status # NoRow /\ row'[r].status \in RECORDING_STATES
            /\ canTransitionRecording(row[r].status, row'[r].status)
        BY <3>1 DEF NoRow, canTransitionRecording, RECORDING_TRANSITIONS, RECORDING_STATES
      <3> QED BY <1>3, <2>0, <3>1, <3>2, LifecycleMoves
    <2> QED BY <2>1, <2>2
  <1> QED BY <1>0, <1>1, <1>2, <1>3, CleanupRows

\* The upload handler: each recording's status, and the videos made.
LEMMA LifecycleUploads ==
    ASSUME PipelineAssumption, LifecycleInv, UploadNext
    PROVE  [Lifecycle!LifecycleNext]_Lifecycle!lifecycleVars
  <1> USE DEF At, uploadUnchanged, providerVars, storageVars
  <1> DEFINE Goal == [Lifecycle!LifecycleNext]_Lifecycle!lifecycleVars
  <1>0. TypeInv /\ StoreTypes /\ JobInv /\ UploadInv /\ UploadKnows /\ VideosAreReal
        /\ OnceInv /\ YoutubeSlots \subseteq Slots
    BY DEF LifecycleInv, TypeInv, UploadInv, VideoInv, Slots
  <1>k. /\ AttemptSteps = {"session", "persist", "send", "save", "fail"}
        /\ GoneStates = {"DELETE_PENDING", "DELETED"} /\ NoRow = "NONE"
    BY DEF AttemptSteps, GoneStates, NoRow
  <1>s. ASSUME UNCHANGED <<row, object, inserted, overtaken>>
        PROVE  Goal
    BY <1>s, LifecycleStutters
  <1>1. ASSUME NEW h \in YoutubeSlots,
               \/ \E e \in EventIds : UploadStart(h, e)
               \/ OpenSession(h) \/ ProbeSession(h) \/ SendPartial(h)
               \/ \E error \in {"QUOTA", "OTHER", "REAUTH"} : UploadThrows(h, error)
        PROVE  Goal
    BY <1>1, <1>s DEF UploadStart, OpenSession, ProbeSession, SendPartial, Sending, UploadThrows
  <1>2. ASSUME NEW h \in YoutubeSlots, UploadRedirect(h) PROVE Goal
    <2> DEFINE next == RedirectTarget(handler[h].status)
    <2>1. handler[h].step \in JobSteps
      BY <1>2, StepDefs DEF UploadRedirect
    <2>2. PICK r \in Recordings : r = handler[h].rec /\ row[r] \in Row
      BY <1>0, <2>1, HandlerRecord
    <2>3. CASE row' = row
      BY <1>2, <1>s, <2>3 DEF UploadRedirect
    <2>4. CASE row' # row
      <3>1. /\ row' = [row EXCEPT ![r] = [row[r] EXCEPT !.status = next]]
            /\ canTransitionRecording(row[r].status, next) /\ row[r].status = handler[h].status
        BY <1>2, <2>2, <2>4 DEF UploadRedirect, RowAfter, transitionAllowed
      <3>2. row[r].status \in RowStates /\ row[r].status # NoRow
        BY <1>0, <1>2, <1>k, <2>2 DEF UploadRedirect, UploadKnows, UploadInv, NoRowNoVideo, Row
      <3>3. \/ row[r].status = "QUEUED" /\ next = "YOUTUBE_UPLOADING"
            \/ row[r].status = "YOUTUBE_UPLOADING" /\ next = "YOUTUBE_PROCESSING"
        BY <1>k, <3>1, <3>2, StateNames
           DEF RedirectTarget, canTransitionRecording, RECORDING_TRANSITIONS
      <3>4. Cardinality(inserted[r]) > 0
        BY <1>0, <1>2, <1>k, <2>2, <3>3, LifecycleFacts DEF UploadRedirect, UploadKnows
      <3>5. row'[r].status = next /\ \A s \in Recordings : s # r => row'[s] = row[s]
        BY <1>0, <2>2, <3>1 DEF StoreTypes, Row
      <3> QED BY <1>2, <3>1, <3>2, <3>3, <3>4, <3>5, LifecycleMoves
              DEF UploadRedirect, RECORDING_STATES
    <2> QED BY <2>3, <2>4
  <1>3. ASSUME NEW h \in YoutubeSlots, UploadClaim(h) PROVE Goal
    <2>1. handler[h].step \in JobSteps
      BY <1>3, StepDefs DEF UploadClaim
    <2>2. PICK r \in Recordings : r = handler[h].rec /\ row[r] \in Row
      BY <1>0, <2>1, HandlerRecord
    <2>3. CASE UNCHANGED <<row, overtaken>>
      BY <1>3, <1>s, <2>3 DEF UploadClaim
    <2>4. CASE ~UNCHANGED <<row, overtaken>>
      <3>1. /\ row[r].status = "QUEUED"
            /\ row' = [row EXCEPT ![r] = [row[r] EXCEPT !.status = "YOUTUBE_UPLOADING",
                                                        !.code = "none"]]
            /\ overtaken' = IF row[r].video # None THEN overtaken \cup {r} ELSE overtaken
        BY <1>0, <1>3, <2>2, <2>4 DEF UploadClaim, transitionAllowed, StoreTypes
      <3>2. /\ row'[r].status = "YOUTUBE_UPLOADING"
            /\ \A s \in Recordings : s # r => row'[s] = row[s]
        BY <1>0, <2>2, <3>1 DEF StoreTypes, Row
      <3>3. row[r].status # NoRow /\ canTransitionRecording(row[r].status, "YOUTUBE_UPLOADING")
        BY <1>k, <3>1 DEF canTransitionRecording, RECORDING_TRANSITIONS
      <3>4. row[r].video # None => Cardinality(inserted[r]) > 0
        BY LifecycleFacts
      <3>5. UNCHANGED <<object, inserted>>
        BY <1>3 DEF UploadClaim
      <3> QED BY <3>1, <3>2, <3>3, <3>4, <3>5, LifecycleMoves DEF RECORDING_STATES
    <2> QED BY <2>3, <2>4
  <1>4. ASSUME NEW h \in YoutubeSlots, PersistSession(h) PROVE Goal
    <2>1. PICK r \in Recordings : r = handler[h].rec /\ row[r] \in Row
      BY <1>0, <1>4, <1>k, AttemptRow DEF PersistSession
    <2>2. \A s \in Recordings : row'[s].status = row[s].status
      BY <1>0, <1>4, <2>1 DEF PersistSession, StoreTypes, Row
    <2> QED BY <1>4, <2>2, LifecycleStutters DEF PersistSession
  \* The one video: an attempt that sends for the first time knows of none.
  <1>5. ASSUME NEW h \in YoutubeSlots, SendAccepted(h) \/ SendUnclear(h) PROVE Goal
    <2>1. PICK r \in Recordings : r = handler[h].rec /\ row[r] \in Row /\ InAttempt(h, r)
      BY <1>0, <1>5, <1>k, AttemptRow DEF SendAccepted, SendUnclear, Sending
    <2> DEFINE s == handler[h].session
    <2>2. handler[h].step = "send" /\ UNCHANGED <<row, object, overtaken>>
      BY <1>5 DEF SendAccepted, SendUnclear, Sending
    <2>3. CASE UNCHANGED inserted \/ s \in inserted[r]
      <3>1. ASSUME s \in inserted[r]
            PROVE  inserted = [inserted EXCEPT ![r] = inserted[r] \cup {s}]
        <4>1. inserted[r] \cup {s} = inserted[r]
          BY <3>1
        <4> QED BY <1>0, <4>1 DEF StoreTypes
      <3>2. UNCHANGED inserted \/ inserted' = [inserted EXCEPT ![r] = inserted[r] \cup {s}]
        BY <1>5, <2>1 DEF SendAccepted, SendUnclear, Insert
      <3>3. UNCHANGED inserted
        BY <2>3, <3>1, <3>2
      <3> QED BY <1>s, <2>2, <3>3
    <2>4. CASE ~UNCHANGED inserted /\ s \notin inserted[r]
      <3>1. inserted' = [inserted EXCEPT ![r] = inserted[r] \cup {s}]
        BY <1>0, <1>5, <2>1, <2>4 DEF SendAccepted, SendUnclear, Insert, StoreTypes
      <3>2. IsFiniteSet(inserted[r]) /\ Cardinality(inserted[r]) \in Nat
        BY <1>0, VideosCounted
      <3>3. Cardinality(inserted'[r]) = Cardinality(inserted[r]) + 1
        <4>1. Cardinality(inserted[r] \cup {s}) = Cardinality(inserted[r]) + 1
          BY <2>4, <3>2, FS_AddElement
        <4> QED BY <1>0, <3>1, <4>1 DEF StoreTypes
      <3>4. \A t \in Recordings : t # r => inserted'[t] = inserted[t]
        BY <1>0, <3>1 DEF StoreTypes
      <3>5. \/ row[r].status \in GoneStates \cup {"YOUTUBE_UPLOADING"} /\ Cardinality(inserted[r]) = 0
            \/ r \in overtaken
        <4>1. ASSUME r \notin overtaken
              PROVE  /\ row[r].status \in GoneStates \cup {"YOUTUBE_UPLOADING"}
                     /\ inserted[r] = {}
          <5>1. AttemptKnows(h, r)
            BY <1>0, <2>1, <4>1 DEF OnceInv, OneSession
          <5> QED BY <2>2, <2>4, <5>1 DEF AttemptKnows
        <4> QED BY <1>0, <4>1, VideosCounted
      <3> DEFINE count == [t \in Recordings |-> Cardinality(inserted[t])]
      <3>6. count' = [count EXCEPT ![r] = count[r] + 1]
        BY <3>3, <3>4
      <3>7. Lifecycle!Publish(r)
        BY <2>2, <3>5, <3>6, LifecycleNames DEF Lifecycle!Publish
      <3> QED BY <3>7 DEF Lifecycle!LifecycleNext
    <2> QED BY <2>3, <2>4
  <1>6. ASSUME NEW h \in YoutubeSlots, SaveVideo(h) PROVE Goal
    <2> DEFINE saved == [row[handler[h].rec] EXCEPT !.video = handler[h].session, !.session = None]
               moved == [saved EXCEPT !.status = "YOUTUBE_PROCESSING"]
    <2>1. handler[h].step = "save" /\ UNCHANGED <<object, inserted, overtaken>>
      BY <1>6 DEF SaveVideo
    <2>2. PICK r \in Recordings : r = handler[h].rec /\ row[r] \in Row /\ row[r].status # NoRow
      BY <1>0, <1>k, <2>1, AttemptRow
    <2>3. saved.status = row[r].status /\ moved.status = "YOUTUBE_PROCESSING"
      BY <2>2 DEF Row
    <2>4. \/ row' = [row EXCEPT ![r] = saved]
          \/ /\ row' = [row EXCEPT ![r] = moved]
             /\ transitionAllowed(r, "YOUTUBE_UPLOADING", "YOUTUBE_PROCESSING")
      BY <1>6, <2>2 DEF SaveVideo
    <2> HIDE DEF saved, moved
    <2>5. CASE row' = [row EXCEPT ![r] = saved]
      <3>1. \A t \in Recordings : row'[t].status = row[t].status
        BY <1>0, <2>2, <2>3, <2>5 DEF StoreTypes
      <3> QED BY <2>1, <3>1, LifecycleStutters
    <2>6. CASE /\ row' = [row EXCEPT ![r] = moved]
               /\ transitionAllowed(r, "YOUTUBE_UPLOADING", "YOUTUBE_PROCESSING")
      <3>1. /\ row'[r].status = "YOUTUBE_PROCESSING"
            /\ \A t \in Recordings : t # r => row'[t] = row[t]
        BY <1>0, <2>3, <2>6 DEF StoreTypes
      <3>2. canTransitionRecording(row[r].status, "YOUTUBE_PROCESSING")
        BY <2>6 DEF transitionAllowed
      <3>3. Cardinality(inserted[r]) > 0
        BY <1>0, <2>1, <2>2, LifecycleFacts DEF VideosAreReal
      <3> QED BY <2>1, <2>2, <3>1, <3>2, <3>3, LifecycleMoves DEF RECORDING_STATES
    <2> QED BY <2>4, <2>5, <2>6
  <1>7. ASSUME NEW h \in YoutubeSlots, UploadFail(h) PROVE Goal
    <2> DEFINE new == FailedRow(handler[h].rec, handler[h].error)
    <2>1. handler[h].step = "fail" /\ UNCHANGED <<object, inserted, overtaken>>
      BY <1>7 DEF UploadFail
    <2>2. PICK r \in Recordings : r = handler[h].rec /\ row[r] \in Row /\ row[r].status # NoRow
      BY <1>0, <1>k, <2>1, AttemptRow
    <2>3. new.status \in {"QUEUED", "FAILED"}
      BY <2>2 DEF FailedRow, Row
    <2>4. row' = row \/ (row[r].status = "YOUTUBE_UPLOADING" /\ row' = [row EXCEPT ![r] = new])
      BY <1>7, <2>2 DEF UploadFail, RowAfter, transitionAllowed
    <2> HIDE DEF new
    <2>5. CASE row' = row
      BY <1>s, <2>1, <2>5
    <2>6. CASE row[r].status = "YOUTUBE_UPLOADING" /\ row' = [row EXCEPT ![r] = new]
      <3>1. row'[r].status = new.status /\ \A t \in Recordings : t # r => row'[t] = row[t]
        BY <1>0, <2>6 DEF StoreTypes
      <3>2. object[r]
        BY <2>6, LifecycleFacts DEF KeptStates
      <3>3. new.status \in RECORDING_STATES /\ canTransitionRecording(row[r].status, new.status)
        BY <2>3, <2>6 DEF canTransitionRecording, RECORDING_TRANSITIONS, RECORDING_STATES
      <3> QED BY <2>1, <2>2, <2>3, <3>1, <3>2, <3>3, LifecycleMoves
    <2> QED BY <2>4, <2>5, <2>6
  <1>8. ASSUME NEW r \in Recordings, SessionExpires(r) PROVE Goal
    BY <1>8, <1>s DEF SessionExpires
  <1> QED BY <1>1, <1>2, <1>3, <1>4, <1>5, <1>6, <1>7, <1>8 DEF UploadNext

\* Every step of the pipeline is a step of the life cycle or none.
LEMMA LifecycleStep ==
    ASSUME PipelineAssumption, LifecycleInv, [Next]_vars
    PROVE  [Lifecycle!LifecycleNext]_Lifecycle!lifecycleVars
  <1>1. CASE UNCHANGED vars
    BY <1>1, LifecycleStutters DEF vars, storageVars, providerVars
  <1>2. CASE WorkerNext
    <2>1. TypeInv
      BY DEF LifecycleInv
    <2>2. ASSUME NEW r \in Recordings, Writes(r, [row[r] EXCEPT !.deferred = FALSE])
          PROVE  \A s \in Recordings : row'[s].status = row[s].status
      BY <2>2, LifecycleFacts DEF Writes, Row
    <2> QED BY <1>2, <2>1, <2>2, WorkerRows, LifecycleStutters
  <1>3. CASE RequestNext \/ UploadNext \/ PollNext \/ CleanupNext
    BY <1>3, LifecycleRequests, LifecycleUploads, LifecyclePolls, LifecycleCleanup
  <1> QED BY <1>1, <1>2, <1>3 DEF Next

\* The pipeline starts where the life cycle does.
LEMMA LifecycleStart ==
    ASSUME Init
    PROVE  UrlInv /\ Lifecycle!LifecycleInit
  <1>1. \A r \in Recordings : row[r].status = NoRow /\ Cardinality(inserted[r]) = 0
    BY FS_EmptySet DEF Init, EmptyRow
  <1>2. UrlInv
    BY DEF Init, UrlInv, NoRequest
  <1> QED BY <1>1, <1>2, LifecycleNames DEF Init, Lifecycle!LifecycleInit

\* URLs and requests for rows that exist, in every reachable state.
LEMMA UrlInvariant == Spec => []UrlInv
  <1>1. Init => UrlInv
    BY LifecycleStart
  <1>2. TypeInv /\ UploadInv /\ UrlInv /\ [Next]_vars => UrlInv'
    BY UrlPreserved, PipelineAssumption
  <1> QED BY <1>1, <1>2, TypesInvariant, UploadsInvariant, PTL DEF Spec

\* Whatever the numbers of requests, slots, intents, retries and crashes: what a user
\* sees of the recordings moves along the published life cycle, an upload counts on
\* its source and success on a video, a source goes only after deletion or expiry,
\* and a second video is made only of a recording sent back by mistake.
THEOREM PipelineImplementsLifecycle == Spec => ImplementsLifecycle
  <1>1. Init => Lifecycle!LifecycleInit
    BY LifecycleStart
  <1>2. LifecycleInv /\ [Next]_vars => [Lifecycle!LifecycleNext]_Lifecycle!lifecycleVars
    BY LifecycleStep, PipelineAssumption
  <1>3. TypeInv /\ SourceInv /\ UploadInv /\ VideoInv /\ OnceInv /\ UrlInv => LifecycleInv
    BY DEF LifecycleInv
  <1> QED
    BY <1>1, <1>2, <1>3, TypesInvariant, SourceInvariant, UploadsInvariant, OnceInvariant,
       UrlInvariant, PTL
    DEF Spec, ImplementsLifecycle, Lifecycle!LifecycleSpec
-----------------------------------------------------------------------------
(* ProcessingIsPolled *)

\* A running handler works for the recording of its job, and polls if its job says so.
JobMatches(h) ==
    /\ handler[h].rec = events[handler[h].event].rec
    /\ handler[h].step \in PollSteps <=>
          events[handler[h].event].type = "youtube.poll-processing"

\* Somebody polls, or recovery will see to it.
Polled(r) ==
    \/ Outstanding("youtube.poll-processing", r)
    \/ worker = "down"
    \/ worker = "polls" /\ r \in todo

\* The inductive invariant of ProcessingIsPolled.
PolledInv ==
    /\ ProcessingIsPolled
    /\ \A h \in Slots : handler[h].step \in JobSteps => JobMatches(h)

\* A step leaves the jobs outside S what they are, and finishes none of them.
KeepsJobs(S) ==
    \A e \in EventIds \ S : Live(e) =>
        /\ Live(e)' /\ events'[e].type = events[e].type /\ events'[e].rec = events[e].rec
        /\ events[e].state # "done" => events'[e].state # "done"

\* None of the events in S polls for r.
Spares(S, r) ==
    \A e \in S : events[e].type = "youtube.poll-processing" /\ events[e].state # "done" =>
        events[e].rec # r

\* The slot goes on with its job.
JobKept(g) ==
    /\ handler[g].step \in JobSteps
    /\ handler'[g].event = handler[g].event /\ handler'[g].rec = handler[g].rec
    /\ handler'[g].step \in PollSteps <=> handler[g].step \in PollSteps

\* The slot begins the job e.
JobBegun(g, e) ==
    /\ Live(e) /\ handler'[g].event = e /\ handler'[g].rec = events[e].rec
    /\ handler'[g].step \in PollSteps <=> events[e].type = "youtube.poll-processing"

\* The slot's job is over.
JobOver(h) ==
    /\ KeepsJobs({handler[h].event}) /\ OthersKept(h) /\ handler'[h].step \notin JobSteps

\* A recording is polled as long as its polls are spared.
LEMMA PolledKept ==
    ASSUME TypeInv, PolledInv, NEW S, KeepsJobs(S),
           \A g \in Slots : handler'[g].step \in JobSteps =>
              \/ JobKept(g) /\ handler[g].event \notin S
              \/ \E e \in EventIds \ S : JobBegun(g, e),
           \A r \in Recordings : row'[r].status = "YOUTUBE_PROCESSING" =>
              \/ Polled(r)'
              \/ Outstanding("youtube.poll-processing", r) /\ Spares(S, r)
    PROVE  PolledInv'
  <1>1. ASSUME NEW g \in Slots, handler'[g].step \in JobSteps
        PROVE  JobMatches(g)'
    <2>1. CASE JobKept(g) /\ handler[g].event \notin S
      <3>1. handler[g].event \in EventIds \ S /\ Live(handler[g].event) /\ JobMatches(g)
        BY <2>1, HeldJob, EventCases DEF JobKept, PolledInv, TypeInv, JobInv, Live
      <3> QED BY <2>1, <3>1 DEF JobKept, JobMatches, KeepsJobs
    <2>2. CASE \E e \in EventIds \ S : JobBegun(g, e)
      BY <2>2 DEF JobBegun, JobMatches, KeepsJobs
    <2> QED BY <1>1, <2>1, <2>2
  <1>2. ASSUME NEW r \in Recordings, Outstanding("youtube.poll-processing", r), Spares(S, r)
        PROVE  Polled(r)'
    BY <1>2 DEF Outstanding, Spares, KeepsJobs, Live, Polled
  <1>3. ProcessingIsPolled'
    BY <1>2 DEF ProcessingIsPolled, Polled
  <1> QED BY <1>1, <1>3 DEF PolledInv

\* The same where the process stays as it is.
LEMMA PolledQuiet ==
    ASSUME TypeInv, PolledInv, NEW S, KeepsJobs(S), UNCHANGED <<worker, todo>>,
           \A g \in Slots : handler'[g].step \in JobSteps =>
              \/ JobKept(g) /\ handler[g].event \notin S
              \/ \E e \in EventIds \ S : JobBegun(g, e),
           \A r \in Recordings : row'[r].status = "YOUTUBE_PROCESSING" =>
              \/ Outstanding("youtube.poll-processing", r)'
              \/ row[r].status = "YOUTUBE_PROCESSING" /\ Spares(S, r)
    PROVE  PolledInv'
  <1>1. ASSUME NEW r \in Recordings, row'[r].status = "YOUTUBE_PROCESSING"
        PROVE  \/ Polled(r)'
               \/ Outstanding("youtube.poll-processing", r) /\ Spares(S, r)
    BY <1>1 DEF Polled, PolledInv, ProcessingIsPolled
  <1> QED BY <1>1, PolledKept

\* Nobody works for the outbox any differently.
LEMMA PolledAside ==
    ASSUME TypeInv, PolledInv, KeepsJobs({}), UNCHANGED <<worker, todo>>,
           \A g \in Slots : handler'[g].step \in JobSteps => handler'[g] = handler[g],
           \A r \in Recordings : row'[r].status = "YOUTUBE_PROCESSING" =>
              row[r].status = "YOUTUBE_PROCESSING"
    PROVE  PolledInv'
  BY PolledQuiet DEF JobKept, Spares

\* A job ends.
LEMMA PolledOver ==
    ASSUME TypeInv, PolledInv, NEW h \in Slots, handler[h].step \in JobSteps, JobOver(h),
           UNCHANGED <<worker, todo>>,
           \A r \in Recordings : row'[r].status = "YOUTUBE_PROCESSING" =>
              \/ Outstanding("youtube.poll-processing", r)'
              \/ /\ row[r].status = "YOUTUBE_PROCESSING"
                 /\ handler[h].step \in PollSteps => handler[h].rec # r
    PROVE  PolledInv'
  <1>1. ASSUME NEW g \in Slots, handler'[g].step \in JobSteps
        PROVE  JobKept(g) /\ handler[g].event \notin {handler[h].event}
    BY <1>1 DEF JobOver, OthersKept, JobKept, TypeInv, JobInv, JobsHeld
  <1>2. JobMatches(h)
    BY DEF PolledInv
  <1> QED BY <1>1, <1>2, PolledQuiet DEF JobOver, Spares, JobMatches

\* A slot takes a job.
LEMMA PolledStarts ==
    ASSUME TypeInv, PolledInv, NEW h, NEW e \in EventIds, NEW type \in IntentTypes,
           Takes(h, e, type), NEW job, Starts(h, e, job), job.event = e, job.rec = events[e].rec,
           job.step \in PollSteps <=> type = "youtube.poll-processing",
           UNCHANGED <<row, worker, todo>>
    PROVE  PolledInv'
  <1>1. h \in Slots /\ events[e] \in Event /\ Live(e) /\ events[e].type = type
        /\ events[e].state = "waiting"
    BY JobTaken DEF Takes, Live
  <1>2. KeepsJobs({})
    <2>1. [events[e] EXCEPT !.state = "active"] \in Event
      BY <1>1 DEF Event, JobStates
    <2>2. Live(e)'
      BY <1>1, <2>1, EventCases DEF Starts, Live, TypeInv, JobInv, JobTypes, NoEvent, Event
    <2> QED BY <1>1, <2>2 DEF KeepsJobs, Starts, Live, TypeInv, JobInv, JobTypes, Event
  <1>3. ASSUME NEW g \in Slots, handler'[g].step \in JobSteps
        PROVE  JobKept(g) \/ JobBegun(g, e)
    BY <1>1, <1>3 DEF Starts, JobKept, JobBegun, TypeInv, JobInv, JobTypes
  <1> QED BY <1>2, <1>3, PolledQuiet DEF Spares

\* A job ends before it begins.
LEMMA PolledNothing ==
    ASSUME TypeInv, PolledInv, NEW h, NEW e \in EventIds, NEW type \in IntentTypes,
           Takes(h, e, type), NothingToDo(e), UNCHANGED <<row, worker, todo>>,
           type = "youtube.poll-processing" => row[events[e].rec].status # "YOUTUBE_PROCESSING"
    PROVE  PolledInv'
  <1>1. KeepsJobs({e})
    BY DEF KeepsJobs, NothingToDo, Live, TypeInv, JobInv, JobTypes
  <1>2. ASSUME NEW g \in Slots, handler'[g].step \in JobSteps
        PROVE  JobKept(g) /\ handler[g].event \notin {e}
    BY <1>2 DEF NothingToDo, JobKept, Takes, TypeInv, JobInv, JobsHeld
  <1>3. \A r \in Recordings : row[r].status = "YOUTUBE_PROCESSING" => Spares({e}, r)
    BY DEF Takes, Spares
  <1> QED BY <1>1, <1>2, <1>3, PolledQuiet

\* A handler goes on.
LEMMA PolledWithin ==
    ASSUME TypeInv, PolledInv, NEW h \in Slots, handler[h].step \in JobSteps, OthersKept(h),
           JobKept(h), UNCHANGED <<events, worker, todo>>,
           \A r \in Recordings : row'[r].status = "YOUTUBE_PROCESSING" =>
              row[r].status = "YOUTUBE_PROCESSING"
    PROVE  PolledInv'
  <1>1. KeepsJobs({})
    BY DEF KeepsJobs, Live
  <1>2. \A g \in Slots : handler'[g].step \in JobSteps => JobKept(g)
    BY DEF OthersKept, JobKept
  <1> QED BY <1>1, <1>2, PolledQuiet DEF Spares

\* What the endings of a job leave.
LEMMA JobCompletedOver ==
    ASSUME JobInv, NEW h \in Slots, JobCompleted(h) \/ JobFailed(h)
    PROVE  JobOver(h)
  <1>1. handler' = [handler EXCEPT ![h] = Idle] /\ "idle" \notin JobSteps
    BY StepDefs DEF JobCompleted, JobFailed
  <1>2. KeepsJobs({handler[h].event})
    BY DEF JobCompleted, JobFailed, KeepsJobs, Live, JobInv, JobTypes
  <1> QED BY <1>1, <1>2 DEF JobOver, OthersKept, Idle, JobInv, JobTypes

\* The ending of a poll that goes on, and of an upload.
LEMMA JobCompletedWithIntentOver ==
    ASSUME JobInv, NEW h \in Slots, handler[h].step \in JobSteps, NEW type, NEW r,
           JobCompletedWithIntent(h, type, r)
    PROVE  JobOver(h) /\ Outstanding(type, r)'
  <1> DEFINE done == handler[h].event
  <1>1. handler' = [handler EXCEPT ![h] = Idle] /\ "idle" \notin JobSteps
    BY StepDefs DEF JobCompletedWithIntent
  <1>2. PICK e \in Free \cup {done} :
            events' = [events EXCEPT ![done] = Returned(done), ![e] = Intent(type, r)]
    BY DEF JobCompletedWithIntent
  <1>3. e \in EventIds
    BY HeldJob DEF Free
  <1>4. KeepsJobs({done})
    BY <1>2, <1>3 DEF KeepsJobs, Live, Free, JobInv, JobTypes
  <1>5. Outstanding(type, r)'
    <2>1. events'[e] = Intent(type, r)
      BY <1>2, <1>3 DEF JobInv, JobTypes
    <2>2. Intent(type, r) # NoEvent
      BY DEF Intent, NoEvent
    <2> QED BY <1>3, <2>1, <2>2 DEF Outstanding, Intent
  <1> QED BY <1>1, <1>4, <1>5 DEF JobOver, OthersKept, Idle, JobInv, JobTypes

\* An intent that is inserted.
LEMMA InsertKeeps ==
    ASSUME JobInv, NEW type, NEW r, insertOutboxEvent(type, r)
    PROVE  KeepsJobs({}) /\ Outstanding(type, r)'
  <1>1. PICK e \in Free : events' = [events EXCEPT ![e] = Intent(type, r)]
    BY DEF insertOutboxEvent
  <1>2. e \in EventIds /\ events'[e] = Intent(type, r) /\ Intent(type, r) # NoEvent
    BY <1>1 DEF Free, Intent, NoEvent, JobInv, JobTypes
  <1> QED BY <1>1, <1>2 DEF KeepsJobs, Live, Outstanding, Free, Intent, JobInv, JobTypes

\* A handler that does not poll goes on to another step that does not.
LEMMA PatchKeeps ==
    ASSUME JobInv, NEW h \in Slots, handler[h].step \in JobSteps \ PollSteps, NEW new,
           new.event = handler[h].event, new.rec = handler[h].rec, new.step \notin PollSteps,
           handler' = [handler EXCEPT ![h] = new]
    PROVE  OthersKept(h) /\ JobKept(h)
  BY DEF OthersKept, JobKept, JobInv, JobTypes

LEMMA GoesKeeps ==
    ASSUME JobInv, NEW h \in Slots, handler[h].step \in JobSteps \ PollSteps,
           NEW step \in JobSteps \ PollSteps,
           Goes(h, step) \/ (step = "fail" /\ \E error : Fails(h, error))
    PROVE  OthersKept(h) /\ JobKept(h)
  <1>1. handler[h] \in Handler
    BY HandlerCases DEF JobInv
  <1>2. CASE Goes(h, step)
    <2> DEFINE new == [handler[h] EXCEPT !.step = step]
    <2>1. new.event = handler[h].event /\ new.rec = handler[h].rec /\ new.step = step
      BY <1>1 DEF Handler
    <2>2. handler' = [handler EXCEPT ![h] = new]
      BY <1>2 DEF Goes, JobInv, JobTypes
    <2> HIDE DEF new
    <2> QED BY <2>1, <2>2, PatchKeeps
  <1>3. ASSUME step = "fail", NEW error, Fails(h, error)
        PROVE  OthersKept(h) /\ JobKept(h)
    <2> DEFINE new == [handler[h] EXCEPT !.step = "fail", !.error = error]
    <2>1. new.event = handler[h].event /\ new.rec = handler[h].rec /\ new.step = step
      BY <1>1, <1>3 DEF Handler
    <2>2. handler' = [handler EXCEPT ![h] = new]
      BY <1>3 DEF Fails, JobInv, JobTypes
    <2> HIDE DEF new
    <2> QED BY <2>1, <2>2, PatchKeeps
  <1> QED BY <1>2, <1>3

\* The web requests take no poll away.
LEMMA PolledRequests ==
    ASSUME PipelineAssumption, TypeInv, PolledInv, RequestNext
    PROVE  PolledInv'
  <1>0. JobInv /\ UNCHANGED <<handler, worker, todo>>
    BY DEF TypeInv, RequestNext, CreateInsert, CreateFinish, CompleteCommit, RetryCommit,
           DeleteCommit, BrowserPut, UrlExpires, RequestLost, CompleteCheck, RetryCheck,
           DeleteCheck, webUnchanged, processVars
  <1>1. \A r \in Recordings : row'[r].status = "YOUTUBE_PROCESSING" =>
            row[r].status = "YOUTUBE_PROCESSING"
    BY RequestFrame
  <1>2. KeepsJobs({})
    <2>1. CASE UNCHANGED events
      BY <2>1 DEF KeepsJobs, Live
    <2>2. CASE \E type, r : insertOutboxEvent(type, r)
      BY <1>0, <2>2, InsertKeeps
    <2>3. ASSUME NEW e \in Free, NEW f \in Free, NEW a, NEW b,
                 events' = [events EXCEPT ![e] = a, ![f] = b]
          PROVE  KeepsJobs({})
      BY <1>0, <2>3 DEF KeepsJobs, Live, Free, JobInv, JobTypes
    <2>4. ASSUME NEW q \in Requests, DeleteCommit(q), ~UNCHANGED events
          PROVE  \E e, f \in Free : \E a, b : events' = [events EXCEPT ![e] = a, ![f] = b]
      BY <2>4 DEF DeleteCommit
    <2>5. ASSUME ~UNCHANGED events, \A q \in Requests : ~DeleteCommit(q)
          PROVE  \E type, r : insertOutboxEvent(type, r)
      BY <2>5 DEF RequestNext, CreateInsert, CreateFinish, CompleteCommit, RetryCommit,
                  BrowserPut, UrlExpires, RequestLost, CompleteCheck, RetryCheck, DeleteCheck
    <2> QED BY <2>1, <2>2, <2>3, <2>4, <2>5
  <1> QED BY <1>0, <1>1, <1>2, PolledAside

\* An upload that enters processing leaves a poll behind.
LEMMA PolledUploads ==
    ASSUME PipelineAssumption, TypeInv, PolledInv, UploadNext
    PROVE  PolledInv'
  <1> USE DEF At, uploadUnchanged, processVars
  <1>0. StoreTypes /\ JobInv /\ YoutubeSlots \subseteq Slots
    BY DEF TypeInv, Slots
  <1>k. /\ JobSteps = {"redirect", "claim", "session", "persist", "send", "save", "fail", "poll",
                       "delete", "forget", "remove", "forgetKey", "finish", "tombstone"}
        /\ PollSteps = {"poll"} /\ "youtube.upload" \in IntentTypes
    BY StepDefs DEF PollSteps, IntentTypes
  <1>1. ASSUME NEW h \in YoutubeSlots, NEW e \in EventIds, UploadStart(h, e) PROVE PolledInv'
    <2> DEFINE redirect == [Job("redirect", e) EXCEPT !.status = row[events[e].rec].status]
    <2>1. /\ redirect.step = "redirect" /\ redirect.event = e /\ redirect.rec = events[e].rec
          /\ Job("claim", e).step = "claim" /\ Job("claim", e).event = e
          /\ Job("claim", e).rec = events[e].rec
      BY DEF Job
    <2>2. /\ Takes(h, e, "youtube.upload") /\ UNCHANGED <<row, worker, todo>>
          /\ NothingToDo(e) \/ Starts(h, e, redirect) \/ Starts(h, e, Job("claim", e))
      BY <1>1 DEF UploadStart
    <2> HIDE DEF redirect
    <2>3. CASE NothingToDo(e)
      BY <1>k, <2>2, <2>3, PolledNothing
    <2>4. CASE Starts(h, e, redirect)
      BY <1>k, <2>1, <2>2, <2>4, PolledStarts
    <2>5. CASE Starts(h, e, Job("claim", e))
      BY <1>k, <2>1, <2>2, <2>5, PolledStarts
    <2> QED BY <2>2, <2>3, <2>4, <2>5
  <1>2. ASSUME NEW h \in YoutubeSlots, UploadRedirect(h) PROVE PolledInv'
    <2>1. handler[h].step \in JobSteps /\ handler[h].step \notin PollSteps
          /\ UNCHANGED <<worker, todo>>
      BY <1>2, <1>k DEF UploadRedirect
    <2>2. PICK r \in Recordings : r = handler[h].rec
      BY <1>0, <2>1, HandlerRecord
    <2>3. JobOver(h) /\ Outstanding("youtube.poll-processing", r)'
      BY <1>0, <1>2, <2>1, <2>2, JobCompletedWithIntentOver DEF UploadRedirect
    <2>4. \A s \in Recordings : s # r => row'[s] = row[s]
      BY <1>0, <1>2, <2>2 DEF UploadRedirect, RowAfter, StoreTypes
    <2> QED BY <1>0, <2>1, <2>3, <2>4, PolledOver
  <1>3. ASSUME NEW h \in YoutubeSlots, UploadClaim(h) PROVE PolledInv'
    <2> DEFINE new == [row[handler[h].rec] EXCEPT !.status = "YOUTUBE_UPLOADING", !.code = "none"]
               failed == [handler[h] EXCEPT !.step = "fail", !.error = "OTHER"]
               taken == [handler[h] EXCEPT !.step = "session",
                                           !.session = row[handler[h].rec].session]
    <2>1. handler[h].step \in JobSteps \ PollSteps /\ UNCHANGED <<worker, todo>>
      BY <1>3, <1>k DEF UploadClaim
    <2>2. PICK r \in Recordings : r = handler[h].rec /\ row[r] \in Row
      BY <1>0, <2>1, HandlerRecord
    <2>3. CASE JobCompleted(h) /\ UNCHANGED row
      BY <1>0, <2>1, <2>3, JobCompletedOver, PolledOver
    <2>4. CASE ~(JobCompleted(h) /\ UNCHANGED row)
      <3>1. /\ row' = [row EXCEPT ![r] = new] /\ UNCHANGED events
            /\ handler' = [handler EXCEPT ![h] = failed] \/ handler' = [handler EXCEPT ![h] = taken]
        BY <1>0, <1>3, <2>2, <2>4 DEF UploadClaim, StoreTypes, JobInv, JobTypes
      <3>2. \A s \in Recordings : row'[s].status = "YOUTUBE_PROCESSING" =>
                                     row[s].status = "YOUTUBE_PROCESSING"
        BY <1>0, <2>2, <3>1 DEF StoreTypes, Row
      <3>3. handler[h] \in Handler
        BY <1>0, <2>1, HandlerCases DEF JobInv
      <3>4. /\ failed.step = "fail" /\ failed.rec = r /\ failed.event = handler[h].event
            /\ taken.step = "session" /\ taken.rec = r /\ taken.event = handler[h].event
        BY <2>2, <3>3 DEF Handler
      <3> HIDE DEF new, failed, taken
      <3>5. OthersKept(h) /\ JobKept(h)
        <4>1. CASE handler' = [handler EXCEPT ![h] = failed]
          BY <1>0, <1>k, <2>1, <2>2, <3>4, <4>1, PatchKeeps
        <4>2. CASE handler' = [handler EXCEPT ![h] = taken]
          BY <1>0, <1>k, <2>1, <2>2, <3>4, <4>2, PatchKeeps
        <4> QED BY <3>1, <4>1, <4>2
      <3> QED BY <1>0, <2>1, <3>1, <3>2, <3>5, PolledWithin
    <2> QED BY <2>3, <2>4
  \* The steps of an attempt that write no status.
  <1>w. ASSUME NEW h \in YoutubeSlots, handler[h].step \in JobSteps \ PollSteps,
               NEW step \in JobSteps \ PollSteps,
               Goes(h, step) \/ (step = "fail" /\ \E error : Fails(h, error)),
               UNCHANGED <<events, worker, todo>>,
               \A r \in Recordings : row'[r].status = row[r].status
        PROVE  PolledInv'
    <2>1. OthersKept(h) /\ JobKept(h)
      BY <1>0, <1>w, GoesKeeps
    <2> QED BY <1>0, <1>w, <2>1, PolledWithin
  <1>4. ASSUME NEW h \in YoutubeSlots, OpenSession(h) PROVE PolledInv'
    <2> DEFINE next == [handler[h] EXCEPT !.step = "persist", !.session = opened[handler[h].rec] + 1]
    <2>1. handler[h].step \in JobSteps \ PollSteps /\ UNCHANGED <<row, events, worker, todo>>
      BY <1>4, <1>k DEF OpenSession
    <2>2. next.step = "persist" /\ next.rec = handler[h].rec /\ next.event = handler[h].event
      BY <1>0, <2>1, HandlerCases DEF JobInv, Handler
    <2>3. handler' = [handler EXCEPT ![h] = next]
      BY <1>0, <1>4 DEF OpenSession, JobInv, JobTypes
    <2> HIDE DEF next
    <2>4. OthersKept(h) /\ JobKept(h)
      BY <1>0, <1>k, <2>1, <2>2, <2>3, PatchKeeps
    <2> QED BY <1>0, <2>1, <2>4, PolledWithin
  <1>5. ASSUME NEW h \in YoutubeSlots, PersistSession(h) PROVE PolledInv'
    <2>1. handler[h].step \in JobSteps \ PollSteps /\ UNCHANGED <<events, worker, todo>>
      BY <1>5, <1>k DEF PersistSession
    <2>2. \A r \in Recordings : row'[r].status = row[r].status
      BY <1>0, <1>5 DEF PersistSession, StoreTypes, Row
    <2> QED BY <1>5, <1>k, <1>w, <2>1, <2>2 DEF PersistSession
  <1>6. ASSUME NEW h \in YoutubeSlots,
               \/ ProbeSession(h) \/ SendAccepted(h) \/ SendUnclear(h)
               \/ \E error \in {"QUOTA", "OTHER", "REAUTH"} : UploadThrows(h, error)
        PROVE  PolledInv'
    <2>1. /\ handler[h].step \in JobSteps \ PollSteps /\ UNCHANGED <<row, events, worker, todo>>
          /\ Goes(h, "send") \/ Goes(h, "save") \/ \E error : Fails(h, error)
      BY <1>6, <1>k DEF ProbeSession, SendAccepted, SendUnclear, Sending, UploadThrows
    <2> QED BY <1>k, <1>w, <2>1
  <1>7. ASSUME NEW h \in YoutubeSlots, SendPartial(h) PROVE PolledInv'
    BY <1>0, <1>7, <1>k, JobCompletedOver, PolledOver DEF SendPartial, Sending
  <1>8. ASSUME NEW h \in YoutubeSlots, SaveVideo(h) PROVE PolledInv'
    <2> DEFINE saved == [row[handler[h].rec] EXCEPT !.video = handler[h].session, !.session = None]
               moved == [saved EXCEPT !.status = "YOUTUBE_PROCESSING"]
    <2>1. handler[h].step \in JobSteps \ PollSteps /\ UNCHANGED <<worker, todo>>
      BY <1>8, <1>k DEF SaveVideo
    <2>2. PICK r \in Recordings : r = handler[h].rec /\ row[r] \in Row
      BY <1>0, <2>1, HandlerRecord
    <2>3. saved.status = row[r].status
      BY <2>2 DEF Row
    <2>4. \/ row' = [row EXCEPT ![r] = saved] /\ JobCompleted(h)
          \/ /\ row' = [row EXCEPT ![r] = moved]
             /\ JobCompletedWithIntent(h, "youtube.poll-processing", r)
      BY <1>8, <2>2 DEF SaveVideo
    <2> HIDE DEF saved, moved
    <2>5. CASE row' = [row EXCEPT ![r] = saved] /\ JobCompleted(h)
      <3>1. \A s \in Recordings : row'[s].status = row[s].status
        BY <1>0, <2>3, <2>5 DEF StoreTypes
      <3> QED BY <1>0, <2>1, <2>5, <3>1, JobCompletedOver, PolledOver
    <2>6. CASE /\ row' = [row EXCEPT ![r] = moved]
               /\ JobCompletedWithIntent(h, "youtube.poll-processing", r)
      <3>1. \A s \in Recordings : s # r => row'[s] = row[s]
        BY <1>0, <2>6 DEF StoreTypes
      <3> QED BY <1>0, <2>1, <2>6, <3>1, JobCompletedWithIntentOver, PolledOver
    <2> QED BY <2>4, <2>5, <2>6
  <1>9. ASSUME NEW h \in YoutubeSlots, UploadFail(h) PROVE PolledInv'
    <2> DEFINE new == FailedRow(handler[h].rec, handler[h].error)
    <2>1. /\ handler[h].step \in JobSteps \ PollSteps /\ UNCHANGED <<worker, todo>>
          /\ JobCompleted(h)
      BY <1>9, <1>k DEF UploadFail
    <2>2. PICK r \in Recordings : r = handler[h].rec /\ row[r] \in Row
      BY <1>0, <2>1, HandlerRecord
    <2>3. new.status \in {"QUEUED", "FAILED"}
      BY <2>2 DEF FailedRow, Row
    <2>4. row' = row \/ row' = [row EXCEPT ![r] = new]
      BY <1>9, <2>2 DEF UploadFail, RowAfter
    <2> HIDE DEF new
    <2>5. \A s \in Recordings : row'[s].status = "YOUTUBE_PROCESSING" =>
                                   row[s].status = "YOUTUBE_PROCESSING"
      BY <1>0, <2>3, <2>4 DEF StoreTypes
    <2> QED BY <1>0, <2>1, <2>5, JobCompletedOver, PolledOver
  <1>10. ASSUME NEW r \in Recordings, SessionExpires(r) PROVE PolledInv'
    <2>1. KeepsJobs({})
      BY <1>10 DEF SessionExpires, KeepsJobs, Live
    <2> QED BY <1>10, <2>1, PolledAside DEF SessionExpires
  <1> QED BY <1>1, <1>2, <1>3, <1>4, <1>5, <1>6, <1>7, <1>8, <1>9, <1>10 DEF UploadNext

\* A poll that ends without news leaves another behind.
LEMMA PolledPolls ==
    ASSUME PipelineAssumption, TypeInv, VideoInv, RealSessions, PolledInv, PollNext
    PROVE  PolledInv'
  <1> USE DEF At, pollUnchanged, processVars
  <1>0. StoreTypes /\ JobInv /\ YoutubeSlots \subseteq Slots
    BY DEF TypeInv, Slots
  <1>k. /\ JobSteps = {"redirect", "claim", "session", "persist", "send", "save", "fail", "poll",
                       "delete", "forget", "remove", "forgetKey", "finish", "tombstone"}
        /\ PollSteps = {"poll"} /\ "youtube.poll-processing" \in IntentTypes
    BY StepDefs DEF PollSteps, IntentTypes
  <1>1. ASSUME NEW h \in YoutubeSlots, NEW e \in EventIds, PollStart(h, e) PROVE PolledInv'
    <2> DEFINE poll == [Job("poll", e) EXCEPT !.video = row[events[e].rec].video]
    <2>1. poll.step = "poll" /\ poll.event = e /\ poll.rec = events[e].rec
      BY DEF Job
    <2>2. /\ Takes(h, e, "youtube.poll-processing") /\ UNCHANGED <<row, worker, todo>>
          /\ \/ Starts(h, e, poll)
             \/ /\ NothingToDo(e)
                /\ ~(/\ row[events[e].rec].status = "YOUTUBE_PROCESSING"
                     /\ row[events[e].rec].video # None)
      BY <1>1 DEF PollStart
    <2>3. events[e].rec \in Recordings
      BY <1>k, <2>2, JobTaken
    <2>4. row[events[e].rec].status = "YOUTUBE_PROCESSING" => row[events[e].rec].video # None
      BY <2>3 DEF VideoInv, VideoWhenProcessed, RealSessions
    <2> HIDE DEF poll
    <2>5. CASE NothingToDo(e) /\ row[events[e].rec].status # "YOUTUBE_PROCESSING"
      BY <1>k, <2>2, <2>5, PolledNothing
    <2>6. CASE Starts(h, e, poll)
      BY <1>k, <2>1, <2>2, <2>6, PolledStarts
    <2> QED BY <2>2, <2>4, <2>5, <2>6
  <1>2. ASSUME NEW h \in YoutubeSlots, PollReady(h) \/ PollFailed(h) \/ PollPrivate(h)
        PROVE  PolledInv'
    <2>1. handler[h].step = "poll" /\ handler[h].step \in JobSteps /\ UNCHANGED <<worker, todo>>
          /\ JobCompleted(h)
      BY <1>2, <1>k DEF PollReady, PollFailed, PollPrivate
    <2>2. PICK r \in Recordings : r = handler[h].rec /\ row[r] \in Row
      BY <1>0, <2>1, HandlerRecord
    <2>3. \A s \in Recordings : s # r => row'[s] = row[s]
      BY <1>0, <1>2, <2>2 DEF PollReady, PollFailed, PollPrivate, RowAfter, StoreTypes
    <2>4. canTransitionRecording("YOUTUBE_PROCESSING", "READY")
          /\ canTransitionRecording("YOUTUBE_PROCESSING", "FAILED")
      BY DEF canTransitionRecording, RECORDING_TRANSITIONS
    <2>5. row'[r].status # "YOUTUBE_PROCESSING"
      <3>1. ASSUME NEW new, new.status \in {"READY", "FAILED"},
                   row' = RowAfter(r, "YOUTUBE_PROCESSING", new)
            PROVE  row'[r].status # "YOUTUBE_PROCESSING"
        BY <1>0, <2>4, <3>1 DEF RowAfter, transitionAllowed, StoreTypes
      <3>2. CASE PollReady(h)
        <4> DEFINE new == [row[r] EXCEPT !.status = "READY", !.privacy = "unlisted"]
        <4>1. new.status = "READY"
          BY <2>2 DEF Row
        <4>2. row' = RowAfter(r, "YOUTUBE_PROCESSING", new)
          BY <2>2, <3>2 DEF PollReady
        <4> HIDE DEF new
        <4> QED BY <3>1, <4>1, <4>2
      <3>3. CASE PollFailed(h)
        <4> DEFINE new == [row[r] EXCEPT !.status = "FAILED", !.code = "OTHER"]
        <4>1. new.status = "FAILED"
          BY <2>2 DEF Row
        <4>2. row' = RowAfter(r, "YOUTUBE_PROCESSING", new)
          BY <2>2, <3>3 DEF PollFailed
        <4> HIDE DEF new
        <4> QED BY <3>1, <4>1, <4>2
      <3>4. CASE PollPrivate(h)
        <4> DEFINE hidden == [row[r] EXCEPT !.privacy = "private"]
        <4>1. /\ [hidden EXCEPT !.status = "FAILED", !.code = "OTHER"].status = "FAILED"
              /\ hidden.status = row[r].status
          BY <2>2 DEF Row
        <4> QED BY <1>0, <2>2, <2>4, <3>4, <4>1 DEF PollPrivate, transitionAllowed, StoreTypes
      <3> QED BY <1>2, <3>2, <3>3, <3>4
    <2> QED BY <1>0, <2>1, <2>2, <2>3, <2>5, JobCompletedOver, PolledOver
  <1>3. ASSUME NEW h \in YoutubeSlots, PollAgain(h) PROVE PolledInv'
    <2>1. handler[h].step = "poll" /\ handler[h].step \in JobSteps
          /\ UNCHANGED <<row, worker, todo>>
      BY <1>3, <1>k DEF PollAgain
    <2>2. PICK r \in Recordings : r = handler[h].rec
      BY <1>0, <2>1, HandlerRecord
    <2>3. JobOver(h) /\ Outstanding("youtube.poll-processing", r)'
      BY <1>0, <1>3, <2>1, <2>2, JobCompletedWithIntentOver DEF PollAgain
    <2> QED BY <1>0, <2>1, <2>2, <2>3, PolledOver
  <1> QED BY <1>1, <1>2, <1>3 DEF PollNext

\* The jobs that take things away take no poll away.
LEMMA PolledCleanup ==
    ASSUME PipelineAssumption, TypeInv, DeletesGone, PolledInv, CleanupNext
    PROVE  PolledInv'
  <1> USE DEF At, cleanupUnchanged, processVars
  <1>0. StoreTypes /\ JobInv /\ YoutubeSlots \subseteq Slots /\ MaintenanceSlots \subseteq Slots
    BY DEF TypeInv, Slots
  <1>k. /\ JobSteps = {"redirect", "claim", "session", "persist", "send", "save", "fail", "poll",
                       "delete", "forget", "remove", "forgetKey", "finish", "tombstone"}
        /\ PollSteps = {"poll"} /\ {"youtube.delete", "storage.cleanup"} \subseteq IntentTypes
    BY StepDefs DEF PollSteps, IntentTypes
  <1>r. \A r \in Recordings : row'[r].status = "YOUTUBE_PROCESSING" =>
            row[r].status = "YOUTUBE_PROCESSING"
    BY CleanupFrame
  <1>1. ASSUME NEW h \in YoutubeSlots, NEW e \in EventIds, DeleteStart(h, e) PROVE PolledInv'
    <2> DEFINE job == [Job("delete", e) EXCEPT !.video = row[events[e].rec].video]
    <2>1. job.step = "delete" /\ job.event = e /\ job.rec = events[e].rec
      BY DEF Job
    <2>2. /\ Takes(h, e, "youtube.delete") /\ UNCHANGED <<row, worker, todo>>
          /\ NothingToDo(e) \/ Starts(h, e, job)
      BY <1>1 DEF DeleteStart
    <2> HIDE DEF job
    <2>3. CASE NothingToDo(e)
      BY <1>k, <2>2, <2>3, PolledNothing
    <2>4. CASE Starts(h, e, job)
      BY <1>k, <2>1, <2>2, <2>4, PolledStarts
    <2> QED BY <2>2, <2>3, <2>4
  <1>2. ASSUME NEW h \in MaintenanceSlots, NEW e \in EventIds, CleanupStart(h, e) PROVE PolledInv'
    <2> DEFINE remove == [Job("remove", e) EXCEPT !.key = row[events[e].rec].key]
    <2>1. /\ remove.step = "remove" /\ remove.event = e /\ remove.rec = events[e].rec
          /\ Job("finish", e).step = "finish" /\ Job("finish", e).event = e
          /\ Job("finish", e).rec = events[e].rec
      BY DEF Job
    <2>2. /\ Takes(h, e, "storage.cleanup") /\ UNCHANGED <<row, worker, todo>>
          /\ Starts(h, e, remove) \/ Starts(h, e, Job("finish", e))
      BY <1>2 DEF CleanupStart
    <2> HIDE DEF remove
    <2>3. CASE Starts(h, e, remove)
      BY <1>k, <2>1, <2>2, <2>3, PolledStarts
    <2>4. CASE Starts(h, e, Job("finish", e))
      BY <1>k, <2>1, <2>2, <2>4, PolledStarts
    <2> QED BY <2>2, <2>3, <2>4
  <1>3. ASSUME NEW h \in Slots,
               \/ RemoveVideo(h) \/ ForgetVideo(h) \/ RemoveObject(h) \/ ForgetKey(h)
               \/ FinishCheck(h) /\ ~JobCompleted(h)
        PROVE  PolledInv'
    <2>1. handler[h].step \in JobSteps \ PollSteps /\ UNCHANGED <<events, worker, todo>>
      BY <1>3, <1>k DEF RemoveVideo, ForgetVideo, RemoveObject, ForgetKey, FinishCheck
    <2>2. \E step \in {"forget", "finish", "forgetKey", "tombstone"} : Goes(h, step)
      BY <1>3 DEF RemoveVideo, ForgetVideo, RemoveObject, ForgetKey, FinishCheck
    <2>3. OthersKept(h) /\ JobKept(h)
      BY <1>0, <1>k, <2>1, <2>2, GoesKeeps
    <2> QED BY <1>r, <2>1, <2>3, PolledWithin
  <1>4. ASSUME NEW h \in Slots,
               DeleteThrows(h) \/ (FinishCheck(h) /\ JobCompleted(h)) \/ FinishDelete(h)
        PROVE  PolledInv'
    <2>1. /\ handler[h].step \in JobSteps \ PollSteps /\ UNCHANGED <<worker, todo>>
          /\ JobCompleted(h) \/ JobFailed(h)
      BY <1>4, <1>k DEF DeleteThrows, FinishCheck, FinishDelete
    <2> QED BY <1>0, <1>r, <2>1, JobCompletedOver, PolledOver
  <1>5. ASSUME NEW h \in MaintenanceSlots, NEW r \in Recordings, ExpireRow(h, r) PROVE PolledInv'
    <2>1. KeepsJobs({}) /\ UNCHANGED <<worker, todo>>
      BY <1>5 DEF ExpireRow, KeepsJobs, Live
    <2>2. \A g \in Slots : handler'[g].step \in JobSteps => handler'[g] = handler[g]
      BY <1>0, <1>5, <1>k DEF ExpireRow, JobInv, JobTypes
    <2> QED BY <1>r, <2>1, <2>2, PolledAside
  <1>6. ASSUME NEW h \in MaintenanceSlots, ExpireIntent(h) PROVE PolledInv'
    <2>1. KeepsJobs({}) /\ UNCHANGED <<worker, todo>>
      BY <1>0, <1>6, InsertKeeps DEF ExpireIntent
    <2>2. \A g \in Slots : handler'[g].step \in JobSteps => handler'[g] = handler[g]
      BY <1>0, <1>6, <1>k DEF ExpireIntent, Idle, JobInv, JobTypes
    <2> QED BY <1>r, <2>1, <2>2, PolledAside
  <1> QED BY <1>0, <1>1, <1>2, <1>3, <1>4, <1>5, <1>6 DEF CleanupNext

\* Dispatch, scanner, crash and recovery.
LEMMA PolledWorker ==
    ASSUME PipelineAssumption, TypeInv, PolledInv, WorkerNext
    PROVE  PolledInv'
  <1> USE DEF workerUnchanged, processVars
  <1>0. StoreTypes /\ JobInv
    BY DEF TypeInv
  <1>r. \A r \in Recordings : row'[r].status = row[r].status
    BY WorkerFrame
  <1>e. UNCHANGED events => KeepsJobs({})
    BY DEF KeepsJobs, Live
  <1>1. ASSUME NEW e \in EventIds, Dispatch(e) PROVE PolledInv'
    <2>1. events[e] \in Event
      BY <1>0, <1>1, EventCases DEF Dispatch, JobInv
    <2>2. events'[e].state = "waiting" /\ events'[e].type = events[e].type
          /\ events'[e].rec = events[e].rec /\ events'[e] # NoEvent
      BY <1>0, <1>1, <2>1 DEF Dispatch, Event, NoEvent, JobInv, JobTypes
    <2>3. KeepsJobs({})
      BY <1>0, <1>1, <2>2 DEF Dispatch, KeepsJobs, Live, JobInv, JobTypes
    <2> QED BY <1>1, <1>r, <2>3, PolledAside DEF Dispatch
  <1>2. ASSUME NEW e \in EventIds, Acknowledge(e) PROVE PolledInv'
    <2>1. KeepsJobs({e}) /\ \A r \in Recordings : Spares({e}, r)
      BY <1>0, <1>2 DEF Acknowledge, KeepsJobs, Live, Spares, JobInv, JobTypes
    <2>2. \A g \in Slots : handler'[g].step \in JobSteps =>
              JobKept(g) /\ handler[g].event \notin {e}
      BY <1>0, <1>2 DEF Acknowledge, JobKept, JobInv, JobsHeld
    <2> QED BY <1>2, <1>r, <2>1, <2>2, PolledQuiet DEF Acknowledge
  <1>3. CASE ScanSelect \/ (\E r \in Recordings : DeferralLapses(r)) \/ (\E o \in Owners : Reconnect(o))
    BY <1>3, <1>e, <1>r, PolledAside DEF ScanSelect, DeferralLapses, Reconnect
  <1>4. CASE ScanInsert
    <2>1. PICK place \in [scan -> Free] :
              events' = [e \in EventIds |->
                            IF \E r \in scan : place[r] = e
                            THEN Intent("youtube.upload", CHOOSE r \in scan : place[r] = e)
                            ELSE events[e]]
      BY <1>4 DEF ScanInsert
    <2>2. \A e \in EventIds : Live(e) => events'[e] = events[e]
      BY <2>1 DEF Live, Free
    <2>3. KeepsJobs({})
      BY <2>2 DEF KeepsJobs, Live
    <2> QED BY <1>4, <1>r, <2>3, PolledAside DEF ScanInsert
  <1>5. ASSUME NEW r \in Recordings, RecoverProcessing(r) PROVE PolledInv'
    <2>1. KeepsJobs({}) /\ Outstanding("youtube.poll-processing", r)'
      BY <1>0, <1>5, InsertKeeps DEF RecoverProcessing
    <2>2. \A s \in Recordings : row'[s].status = "YOUTUBE_PROCESSING" =>
              \/ Polled(s)'
              \/ Outstanding("youtube.poll-processing", s) /\ Spares({}, s)
      BY <1>5, <2>1 DEF RecoverProcessing, PolledInv, ProcessingIsPolled, Polled, Spares
    <2>3. \A g \in Slots : handler'[g].step \in JobSteps => JobKept(g)
      BY <1>5 DEF RecoverProcessing, JobKept
    <2> QED BY <2>1, <2>2, <2>3, PolledKept
  <1>6. ASSUME NEW r \in Recordings, RecoverStale(r) PROVE PolledInv'
    <2>1. KeepsJobs({})
      BY <1>0, <1>6, InsertKeeps DEF RecoverStale
    <2>2. \A s \in Recordings : row'[s].status = "YOUTUBE_PROCESSING" =>
              Outstanding("youtube.poll-processing", s) /\ Spares({}, s)
      BY <1>6 DEF RecoverStale, PolledInv, ProcessingIsPolled, Spares
    <2>3. \A g \in Slots : handler'[g].step \in JobSteps => JobKept(g)
      BY <1>6 DEF RecoverStale, JobKept
    <2> QED BY <2>1, <2>2, <2>3, PolledKept
  <1>7. CASE RecoverSelectProcessing \/ RecoverSelectStale \/ StartWorkers
    <2>1. KeepsJobs({}) /\ UNCHANGED <<row, handler>>
      BY <1>7, <1>e DEF RecoverSelectProcessing, RecoverSelectStale, StartWorkers
    <2>2. \A s \in Recordings : row[s].status = "YOUTUBE_PROCESSING" =>
              \/ Polled(s)'
              \/ Outstanding("youtube.poll-processing", s) /\ Spares({}, s)
      BY <1>7 DEF RecoverSelectProcessing, RecoverSelectStale, StartWorkers, PolledInv,
                  ProcessingIsPolled, Polled, Spares
    <2>3. \A g \in Slots : handler'[g].step \in JobSteps => JobKept(g)
      BY <2>1 DEF JobKept
    <2> QED BY <2>1, <2>2, <2>3, PolledKept
  <1>8. CASE Crash
    <2>1. \A g \in Slots : handler'[g].step \notin JobSteps
      BY <1>8, StepDefs DEF Crash, Idle
    <2> QED BY <1>8, <2>1 DEF Crash, PolledInv, ProcessingIsPolled
  <1> QED BY <1>1, <1>2, <1>3, <1>4, <1>5, <1>6, <1>7, <1>8 DEF WorkerNext

\* In every reachable state a recording that YouTube is processing has a poll to come,
\* or a worker that will make one when it starts: whatever crashed, was lost or
\* was delivered twice, no recording is left in processing for good.
THEOREM ProcessingHasPoll == Spec => []ProcessingIsPolled
  <1>1. Init => PolledInv
    BY StepDefs DEF Init, PolledInv, ProcessingIsPolled, EmptyRow, NoRow, Idle
  <1>2. TypeInv /\ UploadInv /\ VideoInv /\ OnceInv /\ PolledInv /\ [Next]_vars => PolledInv'
    <2> SUFFICES ASSUME TypeInv, UploadInv, VideoInv, OnceInv, PolledInv, [Next]_vars
                 PROVE  PolledInv'
      OBVIOUS
    <2>1. CASE UNCHANGED vars
      BY <2>1 DEF vars, processVars, PolledInv, ProcessingIsPolled, Outstanding, JobMatches
    <2>2. CASE Next
      BY <2>2, PipelineAssumption, PolledRequests, PolledUploads, PolledPolls, PolledCleanup,
         PolledWorker DEF Next, UploadInv, OnceInv
    <2> QED BY <2>1, <2>2
  <1>3. PolledInv => ProcessingIsPolled
    BY DEF PolledInv
  <1> QED BY <1>1, <1>2, <1>3, TypesInvariant, UploadsInvariant, OnceInvariant, PTL DEF Spec
-----------------------------------------------------------------------------
(* DeletionNoticed and ReadyIsUnlisted *)

\* What the upload handler does to rows, and that it leaves other handlers alone.
LEMMA UploadWrites ==
    ASSUME PipelineAssumption, TypeInv, UploadKnows, UploadNext
    PROVE  /\ \A r \in Recordings :
                 /\ row'[r].video = None => row[r].video = None
                 /\ row'[r].privacy = row[r].privacy
                 /\ row'[r].status = "READY" => row[r].status = "READY"
           /\ \A h \in Slots : handler[h].step \in PollSteps \cup FinishSteps =>
                 handler'[h] = handler[h]
           /\ UNCHANGED row \/ \E h \in YoutubeSlots : handler[h].step \in UploadSteps
           /\ UNCHANGED crashes
  <1> USE DEF At, uploadUnchanged, processVars
  <1>0. StoreTypes /\ JobInv /\ YoutubeSlots \subseteq Slots
    BY DEF TypeInv, Slots
  <1>k. /\ UploadSteps = {"redirect", "claim", "session", "persist", "send", "save", "fail"}
        /\ PollSteps = {"poll"} /\ FinishSteps = {"finish", "tombstone"}
        /\ UploadSteps \subseteq JobSteps
    BY DEF UploadSteps, PollSteps, FinishSteps, JobSteps
  <1> DEFINE Kept(r) == /\ row'[r].video = None => row[r].video = None
                        /\ row'[r].privacy = row[r].privacy
                        /\ row'[r].status = "READY" => row[r].status = "READY"
             Left == \A h \in Slots : handler[h].step \in PollSteps \cup FinishSteps =>
                        handler'[h] = handler[h]
  <1>1. ASSUME NEW r \in Recordings
        PROVE  Kept(r)
    <2>0. row[r] \in Row
      BY <1>0 DEF StoreTypes
    <2>1. CASE row'[r] = row[r]
      BY <2>1
    <2>2. ASSUME NEW h \in YoutubeSlots, UploadRedirect(h)
          PROVE  Kept(r)
      <3> DEFINE new == [row[r] EXCEPT !.status = RedirectTarget(handler[h].status)]
      <3>1. /\ new.video = row[r].video /\ new.privacy = row[r].privacy
            /\ new.status = RedirectTarget(handler[h].status)
        BY <2>0 DEF Row
      <3>2. CASE ~(r = handler[h].rec /\ row[r].status = handler[h].status)
        BY <1>0, <2>1, <2>2, <3>2 DEF UploadRedirect, RowAfter, transitionAllowed, StoreTypes
      <3>3. CASE r = handler[h].rec /\ row[r].status = handler[h].status
        <4>1. row' = RowAfter(r, handler[h].status, new)
          BY <2>2, <3>3 DEF UploadRedirect
        <4> HIDE DEF new
        <4>2. row'[r] = row[r] \/ row'[r] = new
          BY <1>0, <4>1 DEF RowAfter, StoreTypes
        <4> QED BY <2>1, <3>1, <3>3, <4>2 DEF RedirectTarget
      <3> QED BY <3>2, <3>3
    <2>3. ASSUME NEW h \in YoutubeSlots, UploadClaim(h)
          PROVE  Kept(r)
      <3> DEFINE new == [row[r] EXCEPT !.status = "YOUTUBE_UPLOADING", !.code = "none"]
      <3>1. /\ new.video = row[r].video /\ new.privacy = row[r].privacy
            /\ new.status = "YOUTUBE_UPLOADING"
        BY <2>0 DEF Row
      <3>2. row'[r] = row[r] \/ row'[r] = new
        BY <1>0, <2>3 DEF UploadClaim, StoreTypes
      <3> HIDE DEF new
      <3> QED BY <2>1, <3>1, <3>2
    <2>4. ASSUME NEW h \in YoutubeSlots, PersistSession(h)
          PROVE  Kept(r)
      BY <1>0, <2>0, <2>4 DEF PersistSession, StoreTypes, Row
    <2>5. ASSUME NEW h \in YoutubeSlots, SaveVideo(h)
          PROVE  Kept(r)
      <3> DEFINE saved == [row[r] EXCEPT !.video = handler[h].session, !.session = None]
                 moved == [saved EXCEPT !.status = "YOUTUBE_PROCESSING"]
      <3>1. /\ saved.video = handler[h].session /\ saved.privacy = row[r].privacy
            /\ saved.status = row[r].status
            /\ moved.video = handler[h].session /\ moved.privacy = row[r].privacy
            /\ moved.status = "YOUTUBE_PROCESSING"
        BY <2>0 DEF Row
      <3>2. handler[h].session # None
        BY <1>0, <2>5 DEF SaveVideo, UploadKnows
      <3>3. row'[r] = row[r] \/ row'[r] = saved \/ row'[r] = moved
        BY <1>0, <2>5 DEF SaveVideo, StoreTypes
      <3> HIDE DEF saved, moved
      <3> QED BY <2>1, <3>1, <3>2, <3>3
    <2>6. ASSUME NEW h \in YoutubeSlots, UploadFail(h)
          PROVE  Kept(r)
      <3> DEFINE new == FailedRow(r, handler[h].error)
      <3>1. /\ new.video = row[r].video /\ new.privacy = row[r].privacy
            /\ new.status \in {"QUEUED", "FAILED"}
        BY <2>0 DEF FailedRow, Row
      <3>2. row'[r] = row[r] \/ row'[r] = new
        BY <1>0, <2>6 DEF UploadFail, RowAfter, StoreTypes
      <3> HIDE DEF new
      <3> QED BY <2>1, <3>1, <3>2
    <2> QED BY <2>1, <2>2, <2>3, <2>4, <2>5, <2>6
            DEF UploadNext, UploadStart, OpenSession, ProbeSession, SendAccepted, SendUnclear,
                SendPartial, Sending, UploadThrows, SessionExpires
  <1>2. ASSUME NEW h \in YoutubeSlots, NEW e \in EventIds, UploadStart(h, e)
        PROVE  Left /\ UNCHANGED row
    BY <1>0, <1>2, <1>k DEF UploadStart, Takes, NothingToDo, Starts, Idle, JobInv, JobTypes
  <1>3. ASSUME NEW h \in YoutubeSlots, handler[h].step \in UploadSteps,
               \E new : handler' = [handler EXCEPT ![h] = new]
        PROVE  Left
    BY <1>0, <1>3, <1>k DEF JobInv, JobTypes
  <1>4. ASSUME NEW h \in YoutubeSlots,
               \/ UploadRedirect(h) \/ UploadClaim(h)
               \/ OpenSession(h) \/ PersistSession(h) \/ ProbeSession(h)
               \/ SendAccepted(h) \/ SendUnclear(h) \/ SendPartial(h)
               \/ \E error \in {"QUOTA", "OTHER", "REAUTH"} : UploadThrows(h, error)
               \/ SaveVideo(h) \/ UploadFail(h)
        PROVE  handler[h].step \in UploadSteps /\ \E new : handler' = [handler EXCEPT ![h] = new]
    BY <1>4, <1>k
       DEF UploadRedirect, UploadClaim, OpenSession, PersistSession, ProbeSession, SendAccepted,
           SendUnclear, SendPartial, Sending, UploadThrows, SaveVideo, UploadFail, JobCompleted,
           JobCompletedWithIntent, Goes, Fails
  <1>5. ASSUME NEW r \in Recordings, SessionExpires(r)
        PROVE  Left /\ UNCHANGED row
    BY <1>5 DEF SessionExpires
  <1>6. Left /\ (UNCHANGED row \/ \E h \in YoutubeSlots : handler[h].step \in UploadSteps)
    BY <1>2, <1>3, <1>4, <1>5 DEF UploadNext
  <1>7. UNCHANGED crashes
    BY DEF UploadNext, UploadStart, UploadRedirect, UploadClaim, OpenSession, PersistSession,
           ProbeSession, SendAccepted, SendUnclear, SendPartial, Sending, UploadThrows, SaveVideo,
           UploadFail, SessionExpires
  <1> QED BY <1>1, <1>6, <1>7

\* The slot that polls: it looks away, begins, or ends.
LEMMA PollSlots ==
    ASSUME PipelineAssumption, TypeInv, PollNext
    PROVE  \E h \in YoutubeSlots :
              /\ OthersKept(h)
              /\ \/ UNCHANGED <<row, handler>>
                 \/ /\ handler[h] = Idle /\ UNCHANGED row
                    /\ handler'[h].step = "poll" /\ handler'[h].rec \in Recordings
                    /\ row[handler'[h].rec].status = "YOUTUBE_PROCESSING"
                 \/ handler[h].step = "poll" /\ handler'[h].step = "idle"
  <1> USE DEF At
  <1>0. JobInv /\ YoutubeSlots \subseteq Slots /\ "youtube.poll-processing" \in IntentTypes
    BY DEF TypeInv, Slots, IntentTypes
  <1>1. ASSUME NEW h \in YoutubeSlots, NEW e \in EventIds, PollStart(h, e), ~NothingToDo(e)
        PROVE  /\ OthersKept(h) /\ handler[h] = Idle /\ UNCHANGED row
               /\ handler'[h].step = "poll" /\ handler'[h].rec \in Recordings
               /\ row[handler'[h].rec].status = "YOUTUBE_PROCESSING"
    <2> DEFINE poll == [Job("poll", e) EXCEPT !.video = row[events[e].rec].video]
    <2>1. poll.step = "poll" /\ poll.rec = events[e].rec
      BY DEF Job
    <2>2. /\ Takes(h, e, "youtube.poll-processing") /\ UNCHANGED row
          /\ row[events[e].rec].status = "YOUTUBE_PROCESSING"
          /\ handler' = [handler EXCEPT ![h] = poll]
      BY <1>1 DEF PollStart, Starts
    <2> HIDE DEF poll
    <2>3. handler[h] = Idle /\ events[e].rec \in Recordings
      BY <1>0, <2>2, JobTaken DEF Takes
    <2> QED BY <1>0, <2>1, <2>2, <2>3 DEF OthersKept, JobInv, JobTypes
  <1>2. ASSUME NEW h \in YoutubeSlots,
               PollReady(h) \/ PollFailed(h) \/ PollPrivate(h) \/ PollAgain(h)
        PROVE  OthersKept(h) /\ handler[h].step = "poll" /\ handler'[h].step = "idle"
    <2>1. handler[h].step = "poll" /\ handler' = [handler EXCEPT ![h] = Idle]
      BY <1>2 DEF PollReady, PollFailed, PollPrivate, PollAgain, JobCompleted,
                  JobCompletedWithIntent
    <2> QED BY <1>0, <2>1 DEF OthersKept, Idle, JobInv, JobTypes
  <1>3. ASSUME NEW h \in YoutubeSlots, NEW e \in EventIds, PollStart(h, e), NothingToDo(e)
        PROVE  OthersKept(h) /\ UNCHANGED <<row, handler>>
    BY <1>3 DEF PollStart, NothingToDo, OthersKept
  <1> QED BY <1>1, <1>2, <1>3 DEF PollNext

\* Both its object and its video are forgotten.
Clean(r) ==
    row[r].status = "DELETE_PENDING" /\ row[r].key = "null" /\ row[r].video = None

\* A handler is about to notice.
Finisher(r) == \E h \in Slots : handler[h].step \in FinishSteps /\ handler[h].rec = r

\* The inductive invariant of DeletionNoticed: a recording has its key until it is
\* deleted, so no deletion begins clean.
FinishInv ==
    /\ \A r \in Recordings : row[r].status \notin GoneStates \cup {NoRow} =>
          row[r].key # "null" /\ row[r].status # "EXPIRED"
    /\ crashes = 0 => \A r \in Recordings : Clean(r) => Finisher(r)

\* A step that leaves the finishers alone, and makes no recording clean.
LEMMA FinishKept ==
    ASSUME FinishInv, crashes' = crashes,
           \A h \in Slots : handler[h].step \in FinishSteps => handler'[h] = handler[h],
           \A r \in Recordings :
              /\ Clean(r)' => Clean(r)
              /\ row'[r].status \notin GoneStates \cup {NoRow} =>
                    row'[r].key # "null" /\ row'[r].status # "EXPIRED"
    PROVE  FinishInv'
  BY DEF FinishInv, Finisher

\* The requests, the polls and the worker around its handlers.
LEMMA FinishElsewhere ==
    ASSUME PipelineAssumption, ~ExpiryRuns, TypeInv, UploadInv, SourceInv, UrlInv, FinishInv,
           RequestNext \/ PollNext \/ (WorkerNext /\ ~Crash)
    PROVE  FinishInv'
  <1> DEFINE Rows(r) == /\ Clean(r)' => Clean(r)
                        /\ row'[r].status \notin GoneStates \cup {NoRow} =>
                              row'[r].key # "null" /\ row'[r].status # "EXPIRED"
  <1>0. /\ CompletionChecked /\ GoneStates = {"DELETE_PENDING", "DELETED"} /\ NoRow = "NONE"
        /\ \A r \in Recordings : row[r] \in Row
    BY DEF SourceInv, GoneStates, NoRow, TypeInv, StoreTypes
  <1>1. ASSUME NEW r \in Recordings, row'[r] = row[r]
        PROVE  Rows(r)
    BY <1>1 DEF FinishInv, Clean
  <1>2. CASE RequestNext
    <2>1. ASSUME NEW r \in Recordings, RequestWrites(r)
          PROVE  Rows(r)
      <3>1. CASE row'[r] = [EmptyRow EXCEPT !.status = "STAGING", !.key = "pending"]
        BY <3>1 DEF EmptyRow, Clean
      <3>2. CASE row'[r] = [row[r] EXCEPT !.key = "object"]
        BY <1>0, <3>2 DEF FinishInv, Clean, Row
      <3>3. CASE /\ row'[r] = [row[r] EXCEPT !.status = "QUEUED"]
                 /\ row[r].status \in {"STAGING", "FAILED"}
        BY <1>0, <3>3 DEF FinishInv, Clean, Row
      <3>4. CASE /\ row'[r] = [row[r] EXCEPT !.status = "DELETE_PENDING"]
                 /\ canTransitionRecording(row[r].status, "DELETE_PENDING")
                 /\ \E q \in Requests : request[q].op = "delete" /\ request[q].status = row[r].status
        <4>1. row[r].status \notin GoneStates \cup {NoRow}
          BY <1>0, <3>4 DEF UrlInv, canTransitionRecording, RECORDING_TRANSITIONS
        <4>2. row[r].key # "null"
          BY <4>1 DEF FinishInv
        <4> QED BY <1>0, <3>4, <4>2 DEF Clean, Row
      <3> QED BY <2>1, <3>1, <3>2, <3>3, <3>4 DEF RequestWrites, Writes
    <2>2. \A r \in Recordings : Rows(r)
      BY <1>0, <1>1, <1>2, <2>1, RequestRows DEF RequestWrites, Writes
    <2> QED BY <1>0, <1>2, <2>2, RequestRows, FinishKept
  <1>3. CASE PollNext
    <2>1. ASSUME NEW r \in Recordings, PollWrites(r)
          PROVE  Rows(r)
      BY <1>0, <2>1 DEF PollWrites, Writes, FinishInv, Clean, Row
    <2>2. \A r \in Recordings : Rows(r)
      BY <1>1, <1>3, <2>1, PollRows DEF PollWrites, Writes
    <2>3. \A h \in Slots : handler[h].step \in FinishSteps => handler'[h] = handler[h]
      BY <1>3, PollSlots DEF OthersKept, FinishSteps, Idle
    <2> QED BY <1>3, <2>2, <2>3, PollRows, FinishKept
  <1>4. CASE WorkerNext /\ ~Crash
    <2>1. ASSUME NEW r \in Recordings, Writes(r, [row[r] EXCEPT !.deferred = FALSE])
          PROVE  Rows(r)
      BY <1>0, <2>1 DEF Writes, FinishInv, Clean, Row
    <2>2. \A r \in Recordings : Rows(r)
      BY <1>1, <1>4, <2>1, WorkerRows DEF Writes
    <2>3. UNCHANGED <<handler, crashes>>
      BY <1>4 DEF WorkerNext, Dispatch, Acknowledge, ScanSelect, ScanInsert, DeferralLapses,
                  RecoverSelectProcessing, RecoverProcessing, RecoverSelectStale, RecoverStale,
                  StartWorkers, Reconnect, processVars
    <2> QED BY <2>2, <2>3, FinishKept
  <1> QED BY <1>2, <1>3, <1>4

\* A handler's step: the recording is no longer clean, or the handler will notice.
LEMMA FinishStep ==
    ASSUME FinishInv, NEW h \in Slots, OthersKept(h), crashes' = crashes,
           \A r \in Recordings :
              row'[r].status \notin GoneStates \cup {NoRow} =>
                 row'[r].key # "null" /\ row'[r].status # "EXPIRED",
           \A r \in Recordings : Clean(r)' =>
              \/ Clean(r) /\ ~(handler[h].step \in FinishSteps /\ handler[h].rec = r)
              \/ handler'[h].step \in FinishSteps /\ handler'[h].rec = r
    PROVE  FinishInv'
  BY DEF FinishInv, Finisher, OthersKept

\* The jobs that take things away.
LEMMA FinishCleanup ==
    ASSUME PipelineAssumption, ~ExpiryRuns, TypeInv, UploadInv, SourceInv, FinishInv, CleanupNext
    PROVE  FinishInv'
  <1> USE DEF At, cleanupUnchanged, processVars
  <1> DEFINE Keyed(r) == row'[r].status \notin GoneStates \cup {NoRow} =>
                            row'[r].key # "null" /\ row'[r].status # "EXPIRED"
  <1>0. /\ StoreTypes /\ JobInv /\ YoutubeSlots \subseteq Slots /\ MaintenanceSlots \subseteq Slots
        /\ FinishSteps = {"finish", "tombstone"} /\ GoneStates = {"DELETE_PENDING", "DELETED"}
        /\ \A r \in Recordings : row'[r] = row[r] => Keyed(r) /\ (Clean(r)' => Clean(r))
    BY DEF TypeInv, Slots, FinishSteps, GoneStates, FinishInv, Clean
  \* A handler that has not come to its finish.
  <1>a. ASSUME NEW h \in Slots, handler[h].step \notin FinishSteps, OthersKept(h),
               UNCHANGED <<row, crashes>>
        PROVE  FinishInv'
    BY <1>0, <1>a, FinishStep
  <1>1. ASSUME NEW h \in Slots, NEW e \in EventIds, DeleteStart(h, e) \/ CleanupStart(h, e)
        PROVE  FinishInv'
    <2>1. handler[h].step \notin FinishSteps /\ OthersKept(h) /\ UNCHANGED <<row, crashes>>
      BY <1>0, <1>1 DEF DeleteStart, CleanupStart, Takes, Starts, NothingToDo, Idle, OthersKept,
                        JobInv, JobTypes
    <2> QED BY <1>a, <2>1
  <1>2. ASSUME NEW h \in Slots,
               RemoveVideo(h) \/ DeleteThrows(h) \/ RemoveObject(h) \/ ExpireIntent(h)
        PROVE  FinishInv'
    <2>1. handler[h].step \notin FinishSteps /\ OthersKept(h) /\ UNCHANGED <<row, crashes>>
      BY <1>0, <1>2 DEF RemoveVideo, DeleteThrows, RemoveObject, ExpireIntent, Goes, JobFailed,
                        OthersKept, JobInv, JobTypes
    <2> QED BY <1>a, <2>1
  <1>g. ASSUME NEW h \in Slots, NEW step, Goes(h, step), handler[h].step \in JobSteps
        PROVE  OthersKept(h) /\ handler'[h].step = step /\ handler'[h].rec = handler[h].rec
    BY <1>0, <1>g, HandlerCases DEF Goes, OthersKept, Handler, JobInv, JobTypes
  <1>3. ASSUME NEW h \in YoutubeSlots, ForgetVideo(h) PROVE FinishInv'
    <2>1. handler[h].step \in JobSteps /\ handler[h].step \in DeleteSteps
      BY <1>3, StepDefs DEF ForgetVideo, DeleteSteps
    <2>2. PICK r \in Recordings : r = handler[h].rec /\ row[r] \in Row
      BY <1>0, <2>1, HandlerRecord
    <2>3. /\ row'[r].status = row[r].status /\ row'[r].key = row[r].key
          /\ \A s \in Recordings : s # r => row'[s] = row[s]
      BY <1>0, <1>3, <2>2 DEF ForgetVideo, StoreTypes, Row
    <2>4. OthersKept(h) /\ handler'[h].step = "finish" /\ handler'[h].rec = r
      BY <1>0, <1>3, <1>g, <2>1, <2>2 DEF ForgetVideo
    <2>5. \A s \in Recordings : Keyed(s)
      BY <1>0, <2>3 DEF FinishInv
    <2>6. \A s \in Recordings : s # r => (Clean(s)' => Clean(s))
      BY <1>0, <2>3
    <2>7. handler[h].step \notin FinishSteps /\ UNCHANGED crashes
      BY <1>0, <1>3 DEF ForgetVideo
    <2> QED BY <1>0, <2>4, <2>5, <2>6, <2>7, FinishStep
  <1>4. ASSUME NEW h \in MaintenanceSlots, ForgetKey(h) PROVE FinishInv'
    <2>1. handler[h].step \in JobSteps /\ Forgetting(h)
      BY <1>4, StepDefs DEF ForgetKey, Forgetting, CleanupSteps
    <2>2. PICK r \in Recordings : r = handler[h].rec /\ row[r] \in Row /\ Retired(r)
      BY <1>0, <2>1, HandlerRecord DEF SourceInv, CleansRetired
    <2>3. /\ row'[r].status = row[r].status /\ \A s \in Recordings : s # r => row'[s] = row[s]
      BY <1>0, <1>4, <2>2 DEF ForgetKey, StoreTypes, Row
    <2>4. OthersKept(h) /\ handler'[h].step = "finish" /\ handler'[h].rec = r
      BY <1>0, <1>4, <1>g, <2>1, <2>2 DEF ForgetKey
    <2>5. row[r].status \in GoneStates
      BY <1>0, <2>2 DEF FinishInv, Retired, RetiredStates, NoRow
    <2>6. \A s \in Recordings : Keyed(s)
      BY <1>0, <2>3, <2>5
    <2>7. \A s \in Recordings : s # r => (Clean(s)' => Clean(s))
      BY <1>0, <2>3
    <2>8. handler[h].step \notin FinishSteps /\ UNCHANGED crashes
      BY <1>0, <1>4 DEF ForgetKey
    <2> QED BY <1>0, <2>4, <2>6, <2>7, <2>8, FinishStep
  <1>5. ASSUME NEW h \in Slots, FinishCheck(h) PROVE FinishInv'
    <2>1. handler[h].step \in JobSteps /\ UNCHANGED <<row, crashes>>
      BY <1>5, StepDefs DEF FinishCheck
    <2>2. CASE Clean(handler[h].rec) /\ Goes(h, "tombstone")
      BY <1>0, <1>g, <2>1, <2>2, FinishStep
    <2>3. CASE ~Clean(handler[h].rec) /\ JobCompleted(h)
      <3>1. OthersKept(h)
        BY <1>0, <2>1, <2>3, JobCompletedOver DEF JobOver
      <3> QED BY <1>0, <2>1, <2>3, <3>1, FinishStep
    <2> QED BY <1>5, <2>2, <2>3 DEF FinishCheck, Clean
  <1>6. ASSUME NEW h \in Slots, FinishDelete(h) PROVE FinishInv'
    <2>1. handler[h].step \in JobSteps /\ OthersKept(h) /\ UNCHANGED crashes
      BY <1>0, <1>6, StepDefs, JobCompletedOver DEF FinishDelete, JobOver
    <2>2. PICK r \in Recordings : r = handler[h].rec /\ row[r] \in Row
      BY <1>0, <2>1, HandlerRecord
    <2>3. row' = [row EXCEPT ![r] = [row[r] EXCEPT !.status = "DELETED"]]
          \/ (row' = row /\ row[r].status # "DELETE_PENDING")
      BY <1>6, <2>2
         DEF FinishDelete, RowAfter, transitionAllowed, canTransitionRecording,
             RECORDING_TRANSITIONS
    <2>4. ~Clean(r)' /\ Keyed(r) /\ \A s \in Recordings : s # r => row'[s] = row[s]
      BY <1>0, <2>2, <2>3 DEF Clean, StoreTypes, Row
    <2> QED BY <1>0, <2>1, <2>2, <2>4, FinishStep
  <1>7. ASSUME NEW h \in MaintenanceSlots, NEW r \in Recordings, ExpireRow(h, r) PROVE FinishInv'
    BY <1>7 DEF ExpireRow
  <1> QED BY <1>0, <1>1, <1>2, <1>3, <1>4, <1>5, <1>6, <1>7 DEF CleanupNext

\* Where nothing schedules storage.expire-staging, as in this code: until the worker
\* crashes, a deletion whose object and video are both gone has a handler on its way
\* to the row, so the two cleanup jobs never each leave the last step to the other.
THEOREM CleanDeletionIsNoticed ==
    ASSUME ~ExpiryRuns
    PROVE  Spec => []DeletionNoticed
  <1>1. Init => FinishInv
    BY DEF Init, FinishInv, Clean, EmptyRow, NoRow, GoneStates
  <1>2. TypeInv /\ UploadInv /\ SourceInv /\ UrlInv /\ FinishInv /\ [Next]_vars => FinishInv'
    <2> SUFFICES ASSUME TypeInv, UploadInv, SourceInv, UrlInv, FinishInv, [Next]_vars
                 PROVE  FinishInv'
      OBVIOUS
    <2>1. CASE UNCHANGED vars
      BY <2>1 DEF vars, processVars, FinishInv, Clean, Finisher
    <2>2. CASE UploadNext
      <3>1. \A r \in Recordings : Clean(r)' => Clean(r)
        BY <2>2, UploadWrites, UploadFrame, PipelineAssumption
           DEF UploadInv, OnPath, PathMoves, Clean
      <3>2. \A r \in Recordings : row'[r].status \notin GoneStates \cup {NoRow} =>
                row'[r].key # "null" /\ row'[r].status # "EXPIRED"
        BY <2>2, UploadFrame, PipelineAssumption
           DEF FinishInv, OnPath, PathMoves, NoRow, GoneStates
      <3> QED BY <2>2, <3>1, <3>2, UploadWrites, FinishKept, PipelineAssumption DEF UploadInv
    <2>3. CASE Crash
      <3>1. crashes' # 0
        BY <2>3 DEF Crash, TypeInv, JobInv, JobTypes
      <3> QED BY <2>3, <3>1 DEF Crash, FinishInv
    <2> QED BY <2>1, <2>2, <2>3, FinishElsewhere, FinishCleanup, PipelineAssumption DEF Next
  <1>3. FinishInv => DeletionNoticed
    BY DEF FinishInv, DeletionNoticed, Clean, Finisher, Finishing
  <1> QED BY <1>1, <1>2, <1>3, TypesInvariant, UploadsInvariant, SourceInvariant, UrlInvariant, PTL
          DEF Spec

\* The inductive invariant of ReadyIsUnlisted with one slot: nobody else moves the row
\* of a recording while it is polled, except to delete it.
ReadyInv ==
    /\ ReadyIsUnlisted
    /\ \A h \in YoutubeSlots : handler[h].step = "poll" =>
          row[handler[h].rec].status \in GoneStates \cup {"YOUTUBE_PROCESSING"}

\* What every component but the polls does to ready rows, deletions and polling slots.
ReadyFrame ==
    /\ \A r \in Recordings :
          /\ row'[r].status = "READY" =>
                row[r].status = "READY" /\ row'[r].privacy = row[r].privacy
          /\ row[r].status \in GoneStates \cup {"YOUTUBE_PROCESSING"} =>
                row'[r].status = row[r].status \/ row'[r].status \in GoneStates
    /\ \A h \in YoutubeSlots : handler'[h].step = "poll" => handler'[h] = handler[h]

LEMMA ReadyKept ==
    ASSUME TypeInv, ReadyInv, ReadyFrame
    PROVE  ReadyInv'
  <1>1. \A h \in YoutubeSlots : handler[h].step = "poll" => handler[h].rec \in Recordings
    BY HandlerRecord, StepDefs DEF Slots
  <1> QED BY <1>1 DEF ReadyInv, ReadyFrame, ReadyIsUnlisted

\* The requests, the cleanup jobs and the worker around the handlers.
LEMMA ReadyElsewhere ==
    ASSUME PipelineAssumption, TypeInv, UploadInv, SourceInv,
           RequestNext \/ CleanupNext \/ WorkerNext
    PROVE  ReadyFrame
  <1> DEFINE Rows(r) == /\ row'[r].status = "READY" =>
                              row[r].status = "READY" /\ row'[r].privacy = row[r].privacy
                        /\ row[r].status \in GoneStates \cup {"YOUTUBE_PROCESSING"} =>
                              row'[r].status = row[r].status \/ row'[r].status \in GoneStates
             Polls == \A h \in YoutubeSlots : handler'[h].step = "poll" => handler'[h] = handler[h]
  <1>0. /\ CompletionChecked /\ CleansRetired /\ DeletesGone
        /\ GoneStates = {"DELETE_PENDING", "DELETED"} /\ NoRow = "NONE"
        /\ YoutubeSlots \subseteq Slots /\ MaintenanceSlots \subseteq Slots /\ JobInv
        /\ \A r \in Recordings : row[r] \in Row
    BY DEF SourceInv, UploadInv, GoneStates, NoRow, Slots, TypeInv, StoreTypes
  <1>1. CASE RequestNext
    <2>1. ASSUME NEW r \in Recordings, RequestWrites(r)
          PROVE  Rows(r)
      BY <1>0, <2>1 DEF RequestWrites, Writes, EmptyRow, Row
    <2>2. ASSUME NEW r \in Recordings
          PROVE  Rows(r)
      <3>1. CASE row'[r] = row[r]
        BY <3>1
      <3>2. row'[r] = row[r] \/ RequestWrites(r)
        BY <1>0, <1>1, RequestRows DEF RequestWrites, Writes
      <3> QED BY <2>1, <3>1, <3>2
    <2> QED BY <1>0, <1>1, <2>2, RequestRows DEF ReadyFrame
  <1>2. CASE CleanupNext
    <2>1. ASSUME NEW r \in Recordings, CleanupWrites(r)
          PROVE  Rows(r)
      BY <1>0, <2>1 DEF CleanupWrites, Writes, Gone, Row
    <2>2. \A r \in Recordings : Rows(r)
      BY <1>0, <1>2, <2>1, CleanupRows DEF CleanupWrites, Writes
    <2>3. ASSUME NEW h \in Slots, NEW step, Goes(h, step), step # "poll", handler[h].step \in JobSteps
          PROVE  Polls
      BY <1>0, <2>3, HandlerCases DEF Goes, Handler, JobInv, JobTypes
    <2>4. ASSUME NEW h \in Slots, JobCompleted(h) \/ JobFailed(h)
          PROVE  Polls
      BY <1>0, <2>4 DEF JobCompleted, JobFailed, Idle, JobInv, JobTypes
    <2>5. ASSUME NEW h, NEW e, DeleteStart(h, e) \/ CleanupStart(h, e)
          PROVE  Polls
      BY <1>0, <2>5 DEF DeleteStart, CleanupStart, Starts, NothingToDo, Job, JobInv, JobTypes
    <2>6. ASSUME NEW h \in Slots,
                 \/ RemoveVideo(h) \/ DeleteThrows(h) \/ ForgetVideo(h) \/ RemoveObject(h)
                 \/ ForgetKey(h) \/ FinishCheck(h) \/ FinishDelete(h)
          PROVE  Polls
      <3>1. handler[h].step \in JobSteps
        BY <2>6, StepDefs
           DEF RemoveVideo, DeleteThrows, ForgetVideo, RemoveObject, ForgetKey, FinishCheck,
               FinishDelete, At
      <3>2. \/ \E step \in {"forget", "finish", "forgetKey", "tombstone"} : Goes(h, step)
            \/ JobCompleted(h) \/ JobFailed(h)
        BY <2>6
           DEF RemoveVideo, DeleteThrows, ForgetVideo, RemoveObject, ForgetKey, FinishCheck,
               FinishDelete
      <3> QED BY <2>3, <2>4, <3>1, <3>2
    <2>7. ASSUME NEW h \in Slots, ExpireIntent(h) \/ \E r \in Recordings : ExpireRow(h, r)
          PROVE  Polls
      <3>1. PICK new : new.step # "poll" /\ handler' = [handler EXCEPT ![h] = new]
        BY <2>7 DEF ExpireIntent, ExpireRow, Idle
      <3> QED BY <1>0, <3>1 DEF JobInv, JobTypes
    <2>8. Polls
      <3> HIDE DEF Polls
      <3> QED BY <1>0, <1>2, <2>5, <2>6, <2>7 DEF CleanupNext
    <2> QED BY <2>2, <2>8 DEF ReadyFrame
  <1>3. CASE WorkerNext
    <2>1. ASSUME NEW r \in Recordings, Writes(r, [row[r] EXCEPT !.deferred = FALSE])
          PROVE  Rows(r)
      BY <1>0, <2>1 DEF Writes, Row
    <2>2. \A r \in Recordings : Rows(r)
      BY <1>0, <1>3, <2>1, WorkerRows DEF Writes
    <2>3. Polls
      BY <1>0, <1>3, WorkerFrame DEF MovesOnly
    <2> QED BY <2>2, <2>3 DEF ReadyFrame
  <1> QED BY <1>1, <1>2, <1>3

\* The upload handler's only slot does not poll while it uploads.
LEMMA ReadyUploads ==
    ASSUME PipelineAssumption, \A g, h \in YoutubeSlots : g = h, TypeInv, UploadInv, ReadyInv,
           UploadNext
    PROVE  ReadyInv'
  <1>0. /\ UploadKnows /\ YoutubeSlots \subseteq Slots /\ PollSteps = {"poll"}
        /\ UploadSteps = {"redirect", "claim", "session", "persist", "send", "save", "fail"}
    BY DEF UploadInv, Slots, PollSteps, UploadSteps
  <1>1. \A h \in YoutubeSlots : handler'[h].step = "poll" => handler'[h] = handler[h]
    BY <1>0, UploadFrame DEF MovesOnly
  <1>2. \A r \in Recordings : row'[r].status = "READY" =>
            row[r].status = "READY" /\ row'[r].privacy = row[r].privacy
    BY <1>0, UploadWrites
  <1>3. CASE UNCHANGED row
    BY <1>1, <1>3, ReadyKept DEF ReadyFrame
  <1>4. CASE \E h \in YoutubeSlots : handler[h].step \in UploadSteps
    BY <1>0, <1>1, <1>2, <1>4 DEF ReadyInv, ReadyIsUnlisted
  <1> QED BY <1>0, <1>3, <1>4, UploadWrites

\* Neither does anybody else answer a poll.
LEMMA ReadyPolls ==
    ASSUME PipelineAssumption, \A g, h \in YoutubeSlots : g = h, TypeInv, ReadyInv, PollNext
    PROVE  ReadyInv'
  <1>0. YoutubeSlots \subseteq Slots /\ \A r \in Recordings : row[r] \in Row
    BY DEF Slots, TypeInv, StoreTypes
  <1>1. ASSUME NEW h \in YoutubeSlots, handler[h].step = "poll", handler[h].rec \in Recordings,
               PollWrites(handler[h].rec)
        PROVE  ReadyIsUnlisted'
    <2>1. PICK r \in Recordings : r = handler[h].rec
      BY <1>1
    <2>2. row[r].status \in GoneStates \cup {"YOUTUBE_PROCESSING"} /\ PollWrites(r)
      BY <1>1, <2>1 DEF ReadyInv
    <2>3. row'[r].status = "READY" => row'[r].privacy = "unlisted"
      BY <1>0, <2>2 DEF PollWrites, Writes, GoneStates, Row
    <2>4. \A s \in Recordings : s # r => row'[s] = row[s]
      BY <2>2 DEF PollWrites, Writes
    <2> QED BY <2>3, <2>4 DEF ReadyInv, ReadyIsUnlisted
  <1>2. ReadyIsUnlisted'
    BY <1>1, PollRows DEF ReadyInv, ReadyIsUnlisted
  <1>3. PICK h \in YoutubeSlots :
              \/ UNCHANGED <<row, handler>>
              \/ /\ UNCHANGED row /\ handler'[h].step = "poll"
                 /\ row[handler'[h].rec].status = "YOUTUBE_PROCESSING"
              \/ handler'[h].step = "idle"
    BY PollSlots
  <1>4. \A g \in YoutubeSlots : g = h
    OBVIOUS
  <1>5. \A g \in YoutubeSlots : handler'[g].step = "poll" =>
            row'[handler'[g].rec].status \in GoneStates \cup {"YOUTUBE_PROCESSING"}
    BY <1>3, <1>4 DEF ReadyInv
  <1> QED BY <1>2, <1>5 DEF ReadyInv

\* With one upload slot, the default, a recording offered as ready was last seen
\* unlisted.  With two, a late poll may still write its private answer by id.
THEOREM ReadyStaysUnlisted ==
    ASSUME \A g, h \in YoutubeSlots : g = h
    PROVE  Spec => []ReadyIsUnlisted
  <1>1. Init => ReadyInv
    BY DEF Init, ReadyInv, ReadyIsUnlisted, EmptyRow, NoRow, Idle, Slots
  <1>2. TypeInv /\ UploadInv /\ SourceInv /\ ReadyInv /\ [Next]_vars => ReadyInv'
    <2> SUFFICES ASSUME TypeInv, UploadInv, SourceInv, ReadyInv, [Next]_vars
                 PROVE  ReadyInv'
      OBVIOUS
    <2>1. CASE UNCHANGED vars
      BY <2>1 DEF vars, ReadyInv, ReadyIsUnlisted
    <2> QED BY <2>1, ReadyElsewhere, ReadyKept, ReadyUploads, ReadyPolls, PipelineAssumption DEF Next
  <1>3. ReadyInv => ReadyIsUnlisted
    BY DEF ReadyInv
  <1> QED BY <1>1, <1>2, <1>3, TypesInvariant, UploadsInvariant, SourceInvariant, PTL DEF Spec
-----------------------------------------------------------------------------
(* An event's slot and IntentDelivery *)

\* The stage of IntentDelivery an outbox row with its job is at; a slot that is
\* absent again serves the next intent.
Stage(event) ==
    IF event = NoEvent THEN "absent" ELSE IF event.state = "unpublished" THEN "pending" ELSE "queued"

\* A transaction inserts an intent nobody has tried yet: in a free slot, or in that of
\* the job it ends.
Commits(e) ==
    /\ Stage(events[e]) # "pending"
    /\ \E type, r : events'[e] = Intent(type, r)

\* Only a running dispatcher makes a job of it, and the job asks what the intent asked.
Enqueues(e) ==
    /\ Stage(events[e]) = "pending" /\ worker = "up"
    /\ events'[e] = [events[e] EXCEPT !.state = "waiting"]

\* The job is started, retried or lost with its worker, and nothing it spent comes back.
LivesOn(e) ==
    /\ Stage(events[e]) = "queued" /\ Stage(events'[e]) = "queued"
    /\ events'[e].type = events[e].type /\ events'[e].rec = events[e].rec
    /\ events'[e].failures >= events[e].failures /\ events'[e].stalls >= events[e].stalls

\* A crash takes only a job that had stalled as often as it may.
Ends(e) ==
    /\ Stage(events[e]) = "queued" /\ events'[e] = NoEvent
    /\ crashes' # crashes => events[e].stalls >= MaxStalls

\* IntentDelivery's steps, seen from one slot.
Delivers(e) == UNCHANGED events[e] \/ Commits(e) \/ Enqueues(e) \/ LivesOn(e) \/ Ends(e)

\* A job that is not waiting to be published keeps its stage or ends.
LEMMA JobStage ==
    ASSUME NEW event \in Event, event.state # "unpublished"
    PROVE  event # NoEvent /\ Stage(event) = "queued"
  BY DEF Stage, Event, NoEvent

\* What is left of a job that returned or failed.
LEMMA LeftOver ==
    ASSUME PipelineAssumption, NEW e \in EventIds, events[e] \in Event, crashes' = crashes,
           events[e].state = "active", events'[e] \in {Returned(e), Retried(e)}
    PROVE  LivesOn(e) \/ Ends(e)
  <1>1. Stage(events[e]) = "queued"
    BY JobStage
  <1>2. CASE events'[e] = NoEvent
    BY <1>1, <1>2 DEF Ends
  <1>3. CASE events'[e] = [events[e] EXCEPT !.state = "done"]
    <2>1. /\ events'[e] \in Event /\ events'[e].state = "done"
          /\ events'[e].type = events[e].type /\ events'[e].rec = events[e].rec
          /\ events'[e].failures = events[e].failures /\ events'[e].stalls = events[e].stalls
      BY <1>3 DEF Event, JobStates
    <2>2. Stage(events'[e]) = "queued"
      BY <2>1, JobStage
    <2>3. events[e].failures >= events[e].failures /\ events[e].stalls >= events[e].stalls
      BY DEF Event, PipelineAssumption
    <2> QED BY <1>1, <2>1, <2>2, <2>3 DEF LivesOn
  <1>4. CASE /\ events[e].failures + 1 < MaxAttempts
             /\ events'[e] = [events[e] EXCEPT !.state = "waiting", !.failures = @ + 1]
    <2>1. events[e].failures \in Nat /\ events[e].stalls \in Nat
      BY DEF Event, PipelineAssumption
    <2>n. events[e].failures + 1 \in 0 .. MaxAttempts - 1
      BY <1>4, <2>1 DEF PipelineAssumption
    <2>2. /\ events'[e] \in Event /\ events'[e].state = "waiting"
          /\ events'[e].type = events[e].type /\ events'[e].rec = events[e].rec
          /\ events'[e].failures = events[e].failures + 1 /\ events'[e].stalls = events[e].stalls
      BY <1>4, <2>n DEF Event, JobStates
    <2>3. Stage(events'[e]) = "queued"
      BY <2>2, JobStage
    <2> QED BY <1>1, <2>1, <2>2, <2>3 DEF LivesOn
  <1> QED BY <1>2, <1>3, <1>4 DEF Returned, Retried

\* Intents appear in free slots.
LEMMA InsertDelivers ==
    ASSUME NEW e \in Free, \E type, r : events'[e] = Intent(type, r)
    PROVE  Delivers(e)
  BY DEF Delivers, Commits, Free, Stage

\* A handler that ends leaves the other slots alone.
LEMMA EndDelivers ==
    ASSUME PipelineAssumption, JobInv, NEW h \in Slots, handler[h].step \in JobSteps,
           crashes' = crashes,
           \/ JobCompleted(h) \/ JobFailed(h)
           \/ \E type, r : JobCompletedWithIntent(h, type, r)
    PROVE  \A e \in EventIds : Delivers(e)
  <1> DEFINE done == handler[h].event
  <1>1. done \in EventIds /\ events[done] \in Event /\ events[done].state = "active"
    BY HeldJob DEF JobInv, JobsHeld
  <1>2. CASE JobCompleted(h) \/ JobFailed(h)
    <2>1. \A e \in EventIds : e # done => events'[e] = events[e]
      BY <1>2 DEF JobCompleted, JobFailed, JobInv, JobTypes
    <2>2. events'[done] \in {Returned(done), Retried(done)}
      BY <1>1, <1>2 DEF JobCompleted, JobFailed, JobInv, JobTypes
    <2> QED BY <1>1, <2>1, <2>2, LeftOver DEF Delivers
  <1>3. ASSUME NEW type, NEW r, JobCompletedWithIntent(h, type, r)
        PROVE  \A e \in EventIds : Delivers(e)
    <2>1. PICK f \in Free \cup {done} :
              events' = [events EXCEPT ![done] = Returned(done), ![f] = Intent(type, r)]
      BY <1>3 DEF JobCompletedWithIntent
    <2>2. Stage(events[f]) # "pending" /\ f \in EventIds
      BY <1>1, JobStage DEF Free, Stage
    <2>3. Delivers(f)
      BY <2>1, <2>2 DEF Delivers, Commits, JobInv, JobTypes
    <2>5. \A e \in EventIds : e \notin {done, f} => events'[e] = events[e]
      BY <2>1 DEF JobInv, JobTypes
    <2>4. CASE done # f
      <3>1. events'[done] = Returned(done)
        BY <1>1, <2>1, <2>2, <2>4 DEF JobInv, JobTypes
      <3>2. LivesOn(done) \/ Ends(done)
        BY <1>1, <3>1, LeftOver
      <3> QED BY <2>3, <2>5, <3>2 DEF Delivers
    <2> QED BY <2>3, <2>4, <2>5 DEF Delivers
  <1> QED BY <1>2, <1>3

\* A job that is taken is started, or ends there.
LEMMA StartDelivers ==
    ASSUME PipelineAssumption, TypeInv, NEW h, NEW e \in EventIds, NEW type \in IntentTypes,
           Takes(h, e, type), NothingToDo(e) \/ \E job : Starts(h, e, job), crashes' = crashes
    PROVE  \A f \in EventIds : Delivers(f)
  <1>1. events[e] \in Event /\ events[e].state = "waiting"
    BY JobTaken DEF Takes
  <1>2. Stage(events[e]) = "queued"
    BY <1>1, JobStage
  <1>3. \A f \in EventIds : f # e => events'[f] = events[f]
    BY DEF NothingToDo, Starts, TypeInv, JobInv, JobTypes
  <1>4. CASE NothingToDo(e)
    BY <1>2, <1>3, <1>4 DEF NothingToDo, Delivers, Ends, TypeInv, JobInv, JobTypes
  <1>5. CASE \E job : Starts(h, e, job)
    <2>1. events'[e] = [events[e] EXCEPT !.state = "active"]
      BY <1>5 DEF Starts, TypeInv, JobInv, JobTypes
    <2>2. /\ events'[e] \in Event /\ events'[e].state = "active"
          /\ events'[e].type = events[e].type /\ events'[e].rec = events[e].rec
          /\ events'[e].failures = events[e].failures /\ events'[e].stalls = events[e].stalls
      BY <1>1, <2>1 DEF Event, JobStates
    <2>3. Stage(events'[e]) = "queued"
      BY <2>2, JobStage
    <2>4. events[e].failures >= events[e].failures /\ events[e].stalls >= events[e].stalls
      BY <1>1 DEF Event, PipelineAssumption
    <2>5. LivesOn(e)
      BY <1>2, <2>2, <2>3, <2>4 DEF LivesOn
    <2> QED BY <1>3, <2>5 DEF Delivers
  <1> QED BY <1>4, <1>5

\* An intent inserted by itself.
LEMMA OneInserted ==
    ASSUME JobInv, NEW type, NEW r, insertOutboxEvent(type, r)
    PROVE  \A e \in EventIds : Delivers(e)
  <1>1. PICK e \in Free : events' = [events EXCEPT ![e] = Intent(type, r)]
    BY DEF insertOutboxEvent
  <1>2. e \in EventIds /\ events'[e] = Intent(type, r)
    BY <1>1 DEF Free, JobInv, JobTypes
  <1>3. \A f \in EventIds : f # e => events'[f] = events[f]
    BY <1>1 DEF JobInv, JobTypes
  <1> QED BY <1>2, <1>3, InsertDelivers DEF Delivers

\* The requests insert, and touch nothing else.
LEMMA RequestsDeliver ==
    ASSUME TypeInv, RequestNext
    PROVE  \A e \in EventIds : Delivers(e)
  <1>0. JobInv
    BY DEF TypeInv
  <1>1. CASE UNCHANGED events
    BY <1>1 DEF Delivers
  <1>2. CASE \E type, r : insertOutboxEvent(type, r)
    BY <1>0, <1>2, OneInserted
  <1>3. ASSUME NEW q \in Requests, DeleteCommit(q), ~UNCHANGED events
        PROVE  \A e \in EventIds : Delivers(e)
    <2>1. PICK r : \E e, f \in Free :
              /\ e # f
              /\ events' = [events EXCEPT
                    ![e] = IF request[q].video # None THEN Intent("youtube.delete", r) ELSE NoEvent,
                    ![f] = IF request[q].key # "null" THEN Intent("storage.cleanup", r) ELSE NoEvent]
      BY <1>3 DEF DeleteCommit
    <2>2. \A e \in EventIds : \/ events'[e] = events[e]
                              \/ e \in Free /\ \E type : events'[e] = Intent(type, r)
      BY <1>0, <2>1 DEF Free, JobInv, JobTypes
    <2> QED BY <2>2, InsertDelivers DEF Delivers
  <1>4. ASSUME ~UNCHANGED events, \A q \in Requests : ~DeleteCommit(q)
        PROVE  \E type, r : insertOutboxEvent(type, r)
    BY <1>4 DEF RequestNext, CreateInsert, CreateFinish, CompleteCommit, RetryCommit,
                BrowserPut, UrlExpires, RequestLost, CompleteCheck, RetryCheck, DeleteCheck
  <1> QED BY <1>1, <1>2, <1>3, <1>4

\* The upload handler.
LEMMA UploadsDeliver ==
    ASSUME PipelineAssumption, TypeInv, UploadNext
    PROVE  \A e \in EventIds : Delivers(e)
  <1>0. JobInv /\ YoutubeSlots \subseteq Slots /\ "youtube.upload" \in IntentTypes
    BY DEF TypeInv, Slots, IntentTypes
  <1>c. crashes' = crashes
    <2> USE DEF uploadUnchanged, processVars
    <2>1. ASSUME NEW h, NEW e, UploadStart(h, e) PROVE crashes' = crashes
      BY <2>1 DEF UploadStart
    <2>2. ASSUME NEW h,
                 \/ UploadRedirect(h) \/ UploadClaim(h) \/ OpenSession(h) \/ PersistSession(h)
                 \/ ProbeSession(h) \/ SendAccepted(h) \/ SendUnclear(h) \/ SendPartial(h)
                 \/ \E error : UploadThrows(h, error)
                 \/ SaveVideo(h) \/ UploadFail(h)
          PROVE  crashes' = crashes
      BY <2>2
         DEF UploadRedirect, UploadClaim, OpenSession, PersistSession, ProbeSession, SendAccepted,
             SendUnclear, SendPartial, Sending, UploadThrows, SaveVideo, UploadFail
    <2>3. ASSUME NEW r, SessionExpires(r) PROVE crashes' = crashes
      BY <2>3 DEF SessionExpires
    <2> QED BY <2>1, <2>2, <2>3 DEF UploadNext
  <1>1. CASE UNCHANGED events
    BY <1>1 DEF Delivers
  <1>2. ASSUME NEW h \in YoutubeSlots, NEW e \in EventIds, UploadStart(h, e)
        PROVE  \A f \in EventIds : Delivers(f)
    <2>1. Takes(h, e, "youtube.upload") /\ (NothingToDo(e) \/ \E job : Starts(h, e, job))
      BY <1>2 DEF UploadStart
    <2> QED BY <1>0, <1>c, <2>1, StartDelivers
  <1>3. ASSUME NEW h \in YoutubeSlots, ~UNCHANGED events,
               \/ UploadRedirect(h) \/ UploadClaim(h) \/ OpenSession(h) \/ PersistSession(h)
               \/ ProbeSession(h) \/ SendAccepted(h) \/ SendUnclear(h) \/ SendPartial(h)
               \/ \E error \in {"QUOTA", "OTHER", "REAUTH"} : UploadThrows(h, error)
               \/ SaveVideo(h) \/ UploadFail(h)
        PROVE  \A e \in EventIds : Delivers(e)
    <2>1. handler[h].step \in JobSteps
      BY <1>3, StepDefs
         DEF At, UploadRedirect, UploadClaim, OpenSession, PersistSession, ProbeSession,
             SendAccepted, SendUnclear, SendPartial, Sending, UploadThrows, SaveVideo, UploadFail
    <2>2. \/ JobCompleted(h) \/ JobFailed(h)
          \/ \E type, r : JobCompletedWithIntent(h, type, r)
      BY <1>3
         DEF UploadRedirect, UploadClaim, OpenSession, PersistSession, ProbeSession,
             SendAccepted, SendUnclear, SendPartial, UploadThrows, SaveVideo, UploadFail
    <2> QED BY <1>0, <1>c, <2>1, <2>2, EndDelivers
  <1>4. ASSUME NEW r \in Recordings, SessionExpires(r) PROVE UNCHANGED events
    BY <1>4 DEF SessionExpires
  <1> QED BY <1>1, <1>2, <1>3, <1>4 DEF UploadNext

\* The poll handler.
LEMMA PollsDeliver ==
    ASSUME PipelineAssumption, TypeInv, PollNext
    PROVE  \A e \in EventIds : Delivers(e)
  <1>0. JobInv /\ YoutubeSlots \subseteq Slots /\ "youtube.poll-processing" \in IntentTypes
    BY DEF TypeInv, Slots, IntentTypes
  <1>c. crashes' = crashes
    BY DEF PollNext, PollStart, PollReady, PollFailed, PollPrivate, PollAgain, pollUnchanged,
           processVars
  <1>1. ASSUME NEW h \in YoutubeSlots, NEW e \in EventIds, PollStart(h, e)
        PROVE  \A f \in EventIds : Delivers(f)
    <2>1. Takes(h, e, "youtube.poll-processing") /\ (NothingToDo(e) \/ \E job : Starts(h, e, job))
      BY <1>1 DEF PollStart
    <2> QED BY <1>0, <1>c, <2>1, StartDelivers
  <1>2. ASSUME NEW h \in YoutubeSlots,
               PollReady(h) \/ PollFailed(h) \/ PollPrivate(h) \/ PollAgain(h)
        PROVE  \A e \in EventIds : Delivers(e)
    <2>1. handler[h].step \in JobSteps
      BY <1>2, StepDefs DEF At, PollReady, PollFailed, PollPrivate, PollAgain
    <2>2. JobCompleted(h) \/ \E type, r : JobCompletedWithIntent(h, type, r)
      BY <1>2 DEF PollReady, PollFailed, PollPrivate, PollAgain
    <2> QED BY <1>0, <1>c, <2>1, <2>2, EndDelivers
  <1> QED BY <1>1, <1>2 DEF PollNext

\* The jobs that take things away.
LEMMA CleanupDelivers ==
    ASSUME PipelineAssumption, TypeInv, CleanupNext
    PROVE  \A e \in EventIds : Delivers(e)
  <1>0. JobInv /\ YoutubeSlots \subseteq Slots /\ MaintenanceSlots \subseteq Slots
        /\ {"youtube.delete", "storage.cleanup"} \subseteq IntentTypes
    BY DEF TypeInv, Slots, IntentTypes
  <1>c. crashes' = crashes
    BY DEF CleanupNext, DeleteStart, RemoveVideo, DeleteThrows, ForgetVideo, CleanupStart,
           RemoveObject, ForgetKey, FinishCheck, FinishDelete, ExpireRow, ExpireIntent,
           cleanupUnchanged, processVars
  <1>1. CASE UNCHANGED events
    BY <1>1 DEF Delivers
  <1>2. ASSUME NEW h \in Slots, NEW e \in EventIds, DeleteStart(h, e) \/ CleanupStart(h, e)
        PROVE  \A f \in EventIds : Delivers(f)
    <2>1. /\ Takes(h, e, "youtube.delete") \/ Takes(h, e, "storage.cleanup")
          /\ NothingToDo(e) \/ \E job : Starts(h, e, job)
      BY <1>2 DEF DeleteStart, CleanupStart
    <2> QED BY <1>0, <1>c, <2>1, StartDelivers
  <1>3. ASSUME NEW h \in Slots, ~UNCHANGED events,
               \/ RemoveVideo(h) \/ DeleteThrows(h) \/ ForgetVideo(h) \/ RemoveObject(h)
               \/ ForgetKey(h) \/ FinishCheck(h) \/ FinishDelete(h)
        PROVE  \A e \in EventIds : Delivers(e)
    <2>1. handler[h].step \in JobSteps
      BY <1>3, StepDefs
         DEF At, RemoveVideo, DeleteThrows, ForgetVideo, RemoveObject, ForgetKey, FinishCheck,
             FinishDelete
    <2>2. JobCompleted(h) \/ JobFailed(h)
      BY <1>3
         DEF RemoveVideo, DeleteThrows, ForgetVideo, RemoveObject, ForgetKey, FinishCheck,
             FinishDelete
    <2> QED BY <1>0, <1>c, <2>1, <2>2, EndDelivers
  <1>4. ASSUME NEW h, NEW r, ExpireRow(h, r) PROVE UNCHANGED events
    BY <1>4 DEF ExpireRow
  <1>5. ASSUME NEW h, ExpireIntent(h) PROVE \A e \in EventIds : Delivers(e)
    BY <1>0, <1>5, OneInserted DEF ExpireIntent
  <1> QED BY <1>0, <1>1, <1>2, <1>3, <1>4, <1>5 DEF CleanupNext

\* Dispatch, scanner, crash and recovery.
LEMMA WorkerDelivers ==
    ASSUME PipelineAssumption, TypeInv, WorkerNext
    PROVE  \A e \in EventIds : Delivers(e)
  <1>0. JobInv
    BY DEF TypeInv
  <1>1. CASE UNCHANGED events
    BY <1>1 DEF Delivers
  <1>2. ASSUME NEW e \in EventIds, Dispatch(e) PROVE \A f \in EventIds : Delivers(f)
    <2>1. Stage(events[e]) = "pending" /\ worker = "up"
      BY <1>2 DEF Dispatch, Stage
    <2>2. events'[e] = [events[e] EXCEPT !.state = "waiting"]
      BY <1>0, <1>2 DEF Dispatch, JobInv, JobTypes
    <2>3. \A f \in EventIds : f # e => events'[f] = events[f]
      BY <1>0, <1>2 DEF Dispatch, JobInv, JobTypes
    <2> QED BY <2>1, <2>2, <2>3 DEF Delivers, Enqueues
  <1>3. ASSUME NEW e \in EventIds, Acknowledge(e) PROVE \A f \in EventIds : Delivers(f)
    <2>1. Stage(events[e]) = "queued" /\ events'[e] = NoEvent /\ crashes' = crashes
      BY <1>0, <1>3 DEF Acknowledge, Stage, JobInv, JobTypes, processVars
    <2>2. \A f \in EventIds : f # e => events'[f] = events[f]
      BY <1>0, <1>3 DEF Acknowledge, JobInv, JobTypes
    <2> QED BY <2>1, <2>2 DEF Delivers, Ends
  <1>4. CASE ScanInsert
    <2>1. PICK place \in [scan -> Free] :
              events' = [e \in EventIds |->
                            IF \E r \in scan : place[r] = e
                            THEN Intent("youtube.upload", CHOOSE r \in scan : place[r] = e)
                            ELSE events[e]]
      BY <1>4 DEF ScanInsert
    <2>2. \A e \in EventIds : \/ events'[e] = events[e]
                              \/ e \in Free /\ \E r : events'[e] = Intent("youtube.upload", r)
      BY <2>1
    <2> QED BY <2>2, InsertDelivers DEF Delivers
  <1>5. ASSUME NEW r \in Recordings, RecoverProcessing(r) \/ RecoverStale(r)
        PROVE  \A e \in EventIds : Delivers(e)
    BY <1>0, <1>5, OneInserted DEF RecoverProcessing, RecoverStale
  <1>6. CASE Crash
    <2>1. ASSUME NEW e \in EventIds PROVE Delivers(e)
      <3>1. events'[e] = AfterStall(events[e])
        BY <1>6 DEF Crash
      <3>2. CASE events[e] = NoEvent \/ events[e].state \notin {"active", "done"}
        BY <3>1, <3>2 DEF AfterStall, Delivers
      <3>3. CASE events[e] # NoEvent /\ events[e].state \in {"active", "done"}
        <4>1. events[e] \in Event /\ Stage(events[e]) = "queued"
          BY <1>0, <3>3, EventCases DEF Stage, JobInv
        <4>2. CASE events'[e] = NoEvent /\ ~(events[e].stalls < MaxStalls)
          <5>1. events[e].stalls >= MaxStalls
            BY <4>1, <4>2 DEF Event, PipelineAssumption
          <5> QED BY <4>1, <4>2, <5>1 DEF Delivers, Ends
        <4>3. CASE /\ events[e].stalls < MaxStalls
                   /\ events'[e] = [events[e] EXCEPT !.state = "waiting", !.stalls = @ + 1]
          <5>1. /\ events[e].stalls \in Nat /\ events[e].stalls + 1 \in 0 .. MaxStalls
                /\ events[e].failures >= events[e].failures
            BY <4>1, <4>3 DEF Event, PipelineAssumption
          <5>2. /\ events'[e] \in Event /\ events'[e].state = "waiting"
                /\ events'[e].type = events[e].type /\ events'[e].rec = events[e].rec
                /\ events'[e].failures = events[e].failures
                /\ events'[e].stalls = events[e].stalls + 1
            BY <4>1, <4>3, <5>1 DEF Event, JobStates
          <5>3. Stage(events'[e]) = "queued"
            BY <5>2, JobStage
          <5> QED BY <4>1, <5>1, <5>2, <5>3 DEF Delivers, LivesOn
        <4> QED BY <3>1, <3>3, <4>2, <4>3 DEF AfterStall
      <3> QED BY <3>2, <3>3
    <2> QED BY <2>1
  <1>7. CASE \/ ScanSelect \/ RecoverSelectProcessing \/ RecoverSelectStale \/ StartWorkers
             \/ (\E r \in Recordings : DeferralLapses(r)) \/ (\E o \in Owners : Reconnect(o))
    BY <1>1, <1>7 DEF ScanSelect, RecoverSelectProcessing, RecoverSelectStale, StartWorkers,
                      DeferralLapses, Reconnect
  <1> QED BY <1>2, <1>3, <1>4, <1>5, <1>6, <1>7 DEF WorkerNext

\* Every slot of the pipeline lives through the stages of IntentDelivery, which Outbox
\* implements: whatever crashes, is retried or is delivered twice, no step drops a
\* committed intent before it became a job, changes what it asks, makes a job of
\* nothing, or makes one twice of the same intent; and a job never regains an attempt.
THEOREM IntentsAreDelivered == Spec => [][\A e \in EventIds : Delivers(e)]_events
  <1>1. TypeInv /\ [Next]_vars => [\A e \in EventIds : Delivers(e)]_events
    BY PipelineAssumption, RequestsDeliver, UploadsDeliver, PollsDeliver, CleanupDelivers,
       WorkerDelivers DEF Next, vars
  <1> QED BY <1>1, TypesInvariant, PTL DEF Spec
=============================================================================
