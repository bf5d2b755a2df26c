---------------------------- MODULE UploadHandler ----------------------------
(***************************************************************************)
(* The job youtube.upload: handleUpload, failAmbiguous and applyFailure of *)
(* apps/worker/src/processors.ts, one action per await that changes or     *)
(* reads shared state, and the answers of the YouTube upload endpoint.     *)
(***************************************************************************)
EXTENDS PipelineState

uploadUnchanged == UNCHANGED <<request, storageVars, processVars, overtaken>>

NoUploadStates == {"READY", "DELETED", "EXPIRED", "DELETE_PENDING", "STAGING"}

\* getRecording and the two early branches: nothing to do, or a video already
\* exists and the attempt turns into a redirect to polling.
UploadStart(h, e) ==
    LET r == events[e].rec IN
    /\ Takes(h, e, "youtube.upload")
    /\ \/ /\ row[r].status \in NoUploadStates
          /\ NothingToDo(e)
       \/ /\ row[r].status \notin NoUploadStates
          /\ Starts(h, e, IF row[r].video # None
                          THEN [Job("redirect", e) EXCEPT !.status = row[r].status]
                          ELSE Job("claim", e))
    /\ UNCHANGED <<row, providerVars, reauth>> /\ uploadUnchanged

\* The redirect moves the row one state along the upload path (other states
\* name themselves as the next state, which the table refuses) and always
\* inserts a poll intent.
RedirectTarget(status) ==
    IF status = "YOUTUBE_UPLOADING" THEN "YOUTUBE_PROCESSING"
    ELSE IF status = "QUEUED" THEN "YOUTUBE_UPLOADING" ELSE status

UploadRedirect(h) ==
    LET r == handler[h].rec
        from == handler[h].status
    IN
    /\ At(h, "redirect")
    /\ row' = RowAfter(r, from, [row[r] EXCEPT !.status = RedirectTarget(from)])
    /\ JobCompletedWithIntent(h, "youtube.poll-processing", r)
    /\ UNCHANGED <<providerVars, reauth>> /\ uploadUnchanged

\* Mutant: a row somebody else is uploading is taken over.
UploadTakeover(h) ==
    LET r == handler[h].rec IN
    /\ At(h, "claim")
    /\ \/ /\ row[r].status \in {"QUEUED", "YOUTUBE_UPLOADING"}
          /\ row' = [row EXCEPT ![r] = [@ EXCEPT !.status = "YOUTUBE_UPLOADING", !.code = "none"]]
          /\ handler' = [handler EXCEPT ![h] = [@ EXCEPT !.step = "session",
                                                         !.session = row[r].session]]
          /\ UNCHANGED events
       \/ /\ row[r].status \notin {"QUEUED", "YOUTUBE_UPLOADING"}
          /\ JobCompleted(h)
          /\ UNCHANGED row
    /\ UNCHANGED <<providerVars, reauth>> /\ uploadUnchanged

\* QUEUED -> YOUTUBE_UPLOADING.  Losing the compare-and-set ends the job; a row
\* without a source goes on to be failed.  Whether there is a video is not looked
\* at again: another slot may have made one, before a failure and a retry.
UploadClaim(h) ==
    LET r == handler[h].rec IN
    /\ At(h, "claim")
    /\ \/ /\ transitionAllowed(r, "QUEUED", "YOUTUBE_UPLOADING")
          /\ row' = [row EXCEPT ![r] = [@ EXCEPT !.status = "YOUTUBE_UPLOADING", !.code = "none"]]
          /\ handler' = [handler EXCEPT ![h] =
                IF row[r].key = "null" THEN [@ EXCEPT !.step = "fail", !.error = "OTHER"]
                ELSE [@ EXCEPT !.step = "session", !.session = row[r].session]]
          /\ overtaken' = IF row[r].video # None THEN overtaken \cup {r} ELSE overtaken
          /\ UNCHANGED events
       \/ /\ ~transitionAllowed(r, "QUEUED", "YOUTUBE_UPLOADING")
          /\ JobCompleted(h)
          /\ UNCHANGED <<row, overtaken>>
    /\ UNCHANGED <<request, storageVars, processVars, providerVars, reauth>>
-----------------------------------------------------------------------------
(* The upload session *)

Fails(h, error) ==
    handler' = [handler EXCEPT ![h] = [@ EXCEPT !.step = "fail", !.error = error]]

\* initResumableUpload for a row without a stored session.
OpenSession(h) ==
    LET r == handler[h].rec IN
    /\ At(h, "session") /\ handler[h].session = None
    /\ opened[r] < MaxSessions
    /\ opened' = [opened EXCEPT ![r] = @ + 1]
    /\ handler' = [handler EXCEPT ![h] = [@ EXCEPT !.step = "persist", !.session = opened[r] + 1]]
    /\ UNCHANGED <<row, events, expired, inserted, live, reauth>> /\ uploadUnchanged

\* The session URI is stored by id before any media is sent.
PersistSession(h) ==
    /\ At(h, "persist")
    /\ row' = [row EXCEPT ![handler[h].rec].session = handler[h].session]
    /\ Goes(h, "send")
    /\ UNCHANGED <<events, providerVars, reauth>> /\ uploadUnchanged

\* A stored session is probed; only the answer "expired" is looked at.
ProbeSession(h) ==
    /\ At(h, "session") /\ handler[h].session # None
    /\ \/ /\ handler[h].session \in expired[handler[h].rec]
          /\ Fails(h, "AMBIGUOUS")
       \/ Goes(h, "send")
    /\ UNCHANGED <<row, events, providerVars, reauth>> /\ uploadUnchanged

\* YouTube forgets a session somebody may still use.
SessionExpires(r) ==
    /\ row[r].session # None
    /\ expired' = [expired EXCEPT ![r] = @ \cup {row[r].session}]
    /\ UNCHANGED <<row, events, handler, opened, inserted, live, reauth>> /\ uploadUnchanged
-----------------------------------------------------------------------------
(* Sending the media: the object is read whole and PUT in one request *)

\* YouTube's side of a complete upload: the first one makes the video, a repeat
\* of a finished session answers with the same video.
Insert(r, s) ==
    /\ inserted' = [inserted EXCEPT ![r] = @ \cup {s}]
    /\ live' = [live EXCEPT ![r] = IF s \in inserted[r] THEN @ ELSE @ \cup {s}]

Sending(h) ==
    /\ At(h, "send")
    /\ object[handler[h].rec]
    /\ UNCHANGED <<row, opened, expired, reauth>> /\ uploadUnchanged

\* 200 or 201 with a video id.
SendAccepted(h) ==
    /\ Sending(h)
    /\ handler[h].session \notin expired[handler[h].rec]
    /\ Insert(handler[h].rec, handler[h].session)
    /\ Goes(h, "save")
    /\ UNCHANGED events

\* A transport failure, a 5xx or an unreadable 200: YouTube may or may not have
\* made the video.
SendUnclear(h) ==
    /\ Sending(h)
    /\ \/ /\ handler[h].session \notin expired[handler[h].rec]
          /\ Insert(handler[h].rec, handler[h].session)
       \/ UNCHANGED <<inserted, live>>
    /\ Fails(h, "AMBIGUOUS")
    /\ UNCHANGED events

\* 308: the handler returns and leaves the row in YOUTUBE_UPLOADING.
SendPartial(h) ==
    /\ Sending(h)
    /\ handler[h].session \notin expired[handler[h].rec] \cup inserted[handler[h].rec]
    /\ JobCompleted(h)
    /\ UNCHANGED <<inserted, live>>

\* Everything that reaches the catch block without YouTube having made a video
\* in this call: no client or no token, a refused init, a failed statement, an
\* unreadable object, a 4xx for the media.
UploadThrows(h, error) ==
    /\ \/ At(h, "session") /\ (handler[h].session # None => error = "OTHER")
       \/ At(h, "persist") /\ error = "OTHER"
       \/ At(h, "send") /\ (object[handler[h].rec] \/ error = "OTHER")
       \/ At(h, "save") /\ error = "OTHER"
    /\ Fails(h, error)
    /\ UNCHANGED <<row, events, providerVars, reauth>> /\ uploadUnchanged

\* The video id and the cleared session are written by id; only a row still in
\* YOUTUBE_UPLOADING moves on and gets its poll intent, in one transaction.
SaveVideo(h) ==
    LET r == handler[h].rec
        saved == [row[r] EXCEPT !.video = handler[h].session, !.session = None]
    IN
    /\ At(h, "save")
    /\ \/ /\ transitionAllowed(r, "YOUTUBE_UPLOADING", "YOUTUBE_PROCESSING")
          /\ row' = [row EXCEPT ![r] = [saved EXCEPT !.status = "YOUTUBE_PROCESSING"]]
          /\ JobCompletedWithIntent(h, "youtube.poll-processing", r)
       \/ /\ ~transitionAllowed(r, "YOUTUBE_UPLOADING", "YOUTUBE_PROCESSING")
          /\ row' = [row EXCEPT ![r] = saved]
          /\ JobCompleted(h)
    /\ UNCHANGED <<providerVars, reauth>> /\ uploadUnchanged

\* Mutant: an unclear outcome is a failure like any other.
FailedRowRetryable(r, error) ==
    IF error = "QUOTA"
    THEN [row[r] EXCEPT !.status = "QUEUED", !.code = "QUOTA", !.deferred = TRUE]
    ELSE [row[r] EXCEPT !.status = "FAILED", !.code = "OTHER", !.session = None]

\* failAmbiguous and applyFailure.  Quota goes back to QUEUED with a deferral
\* and its session; an authorization error then marks every connection row.
FailedRow(r, error) ==
    CASE error = "QUOTA"     -> [row[r] EXCEPT !.status = "QUEUED", !.code = "QUOTA", !.deferred = TRUE]
      [] error = "AMBIGUOUS" -> [row[r] EXCEPT !.status = "FAILED", !.code = "AMBIGUOUS", !.session = None]
      [] OTHER               -> [row[r] EXCEPT !.status = "FAILED", !.code = "OTHER"]

ConnectionsAfter(error, r) == IF error = "REAUTH" THEN Owners ELSE reauth

UploadFail(h) ==
    LET r == handler[h].rec IN
    /\ At(h, "fail")
    /\ row' = RowAfter(r, "YOUTUBE_UPLOADING", FailedRow(r, handler[h].error))
    /\ reauth' = ConnectionsAfter(handler[h].error, r)
    /\ JobCompleted(h)
    /\ UNCHANGED providerVars /\ uploadUnchanged

UploadNext ==
    \/ \E h \in YoutubeSlots :
          \/ \E e \in EventIds : UploadStart(h, e)
          \/ UploadRedirect(h) \/ UploadClaim(h)
          \/ OpenSession(h) \/ PersistSession(h) \/ ProbeSession(h)
          \/ SendAccepted(h) \/ SendUnclear(h) \/ SendPartial(h)
          \/ \E error \in {"QUOTA", "OTHER", "REAUTH"} : UploadThrows(h, error)
          \/ SaveVideo(h) \/ UploadFail(h)
    \/ \E r \in Recordings : SessionExpires(r)
=============================================================================
