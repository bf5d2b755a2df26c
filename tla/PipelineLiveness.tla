-------------------------- MODULE PipelineLiveness ---------------------------
(***************************************************************************)
(* RecordingPipeline under the fairness the worker's scheduling gives, and *)
(* what must eventually happen.  Nothing is assumed of users and browsers. *)
(***************************************************************************)
EXTENDS RecordingPipeline

\* A handler that runs goes on: an await ends with an answer or an error.
HandlerStep(h) ==
    \/ UploadRedirect(h) \/ UploadClaim(h) \/ OpenSession(h) \/ PersistSession(h)
    \/ ProbeSession(h) \/ SendAccepted(h) \/ SendUnclear(h) \/ SendPartial(h)
    \/ \E error \in {"QUOTA", "OTHER", "REAUTH"} : UploadThrows(h, error)
    \/ SaveVideo(h) \/ UploadFail(h)
    \/ PollReady(h) \/ PollFailed(h) \/ PollPrivate(h) \/ PollAgain(h)
    \/ RemoveVideo(h) \/ DeleteThrows(h) \/ ForgetVideo(h)
    \/ RemoveObject(h) \/ ForgetKey(h) \/ ExpireIntent(h)
    \/ FinishCheck(h) \/ FinishDelete(h)

\* BullMQ hands out waiting jobs first in, first out: a job that waits is taken
\* although the slot is busy time and again.
Taken(e) ==
    \E h \in Slots :
        UploadStart(h, e) \/ PollStart(h, e) \/ DeleteStart(h, e) \/ CleanupStart(h, e)

Restart ==
    \/ RecoverSelectProcessing \/ RecoverSelectStale \/ StartWorkers
    \/ \E r \in Recordings : RecoverProcessing(r) \/ RecoverStale(r)

\* The timers of main.ts fire, the container is restarted, deferrals lapse.
Fairness ==
    /\ \A h \in Slots : WF_vars(HandlerStep(h))
    /\ \A e \in EventIds : WF_vars(Dispatch(e)) /\ WF_vars(Acknowledge(e)) /\ SF_vars(Taken(e))
    /\ WF_vars(ScanSelect) /\ WF_vars(ScanInsert)
    /\ WF_vars(Restart)
    /\ \A r \in Recordings : WF_vars(DeferralLapses(r))

FairSpec == Spec /\ Fairness
-----------------------------------------------------------------------------
\* Nothing is lost (README): whatever job was lost, failed or never published, a
\* queued recording without a video is attempted or deleted.
QueuedIsAttempted ==
    \A r \in Recordings :
        row[r].status = "QUEUED" /\ row[r].video = None ~> row[r].status # "QUEUED"

\* A retried recording that already has a video gets back to status handling.
RetriedVideoIsHandled ==
    \A r \in Recordings :
        row[r].status = "QUEUED" /\ row[r].video # None ~> row[r].status # "QUEUED"

\* An attempt that got a partial answer is taken up again.
UploadingIsContinued ==
    \A r \in Recordings :
        row[r].status = "YOUTUBE_UPLOADING" ~> row[r].status # "YOUTUBE_UPLOADING"

\* What a deletion may leave: a video that no job deletes, because the attempts of
\* its job were used up or an upload saved the video late.
LeftBehind(r) == row[r].video # None /\ ~Outstanding("youtube.delete", r)

\* As long as the worker does not crash a deletion comes to an end, whatever order
\* its two jobs run in, unless a video is left behind.
DeletionCompletes ==
    \A r \in Recordings :
        row[r].status = "DELETE_PENDING" ~>
            row[r].status = "DELETED" \/ LeftBehind(r) \/ crashes > 0
=============================================================================
