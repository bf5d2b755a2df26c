----------------------------- MODULE PollHandler -----------------------------
(***************************************************************************)
(* The job youtube.poll-processing: handlePollProcessing of                *)
(* apps/worker/src/processors.ts.  The row is read first; the answer of    *)
(* YouTube is acted on later, when the row may have moved.                 *)
(* The branch for YOUTUBE_REAUTH_REQUIRED is left out: neither             *)
(* loadYoutubeClient nor getVideoStatus throws that code.                  *)
(***************************************************************************)
EXTENDS PipelineState

pollUnchanged == UNCHANGED <<request, storageVars, providerVars, processVars, reauth, overtaken>>

PollStart(h, e) ==
    LET r == events[e].rec
        pollable == row[r].status = "YOUTUBE_PROCESSING" /\ row[r].video # None
    IN
    /\ Takes(h, e, "youtube.poll-processing")
    /\ \/ /\ ~pollable
          /\ NothingToDo(e)
       \/ /\ pollable
          /\ Starts(h, e, [Job("poll", e) EXCEPT !.video = row[r].video])
    /\ UNCHANGED row /\ pollUnchanged

\* Has YouTube still got the video?  A missing one is reported as "unknown".
Known(h) == handler[h].video \in live[handler[h].rec]

\* Mutant: the privacy of the answer is not looked at.
PollReadyAnyPrivacy(h) ==
    LET r == handler[h].rec IN
    /\ At(h, "poll") /\ Known(h)
    /\ row' = RowAfter(r, "YOUTUBE_PROCESSING", [row[r] EXCEPT !.status = "READY"])
    /\ JobCompleted(h)
    /\ pollUnchanged

\* processed, unlisted and embeddable.
PollReady(h) ==
    LET r == handler[h].rec IN
    /\ At(h, "poll") /\ Known(h)
    /\ row' = RowAfter(r, "YOUTUBE_PROCESSING",
                       [row[r] EXCEPT !.status = "READY", !.privacy = "unlisted"])
    /\ JobCompleted(h)
    /\ pollUnchanged

\* YouTube could not process the video.
PollFailed(h) ==
    LET r == handler[h].rec IN
    /\ At(h, "poll") /\ Known(h)
    /\ row' = RowAfter(r, "YOUTUBE_PROCESSING",
                       [row[r] EXCEPT !.status = "FAILED", !.code = "OTHER"])
    /\ JobCompleted(h)
    /\ pollUnchanged

\* YouTube forced the video to private: the privacy is written by id, the
\* failure by compare-and-set.
PollPrivate(h) ==
    LET r == handler[h].rec
        hidden == [row[r] EXCEPT !.privacy = "private"]
    IN
    /\ At(h, "poll") /\ Known(h)
    /\ row' = IF transitionAllowed(r, "YOUTUBE_PROCESSING", "FAILED")
              THEN [row EXCEPT ![r] = [hidden EXCEPT !.status = "FAILED", !.code = "OTHER"]]
              ELSE [row EXCEPT ![r] = hidden]
    /\ JobCompleted(h)
    /\ pollUnchanged

\* Mutant: an error ends the polling.
PollGivesUp(h) ==
    /\ At(h, "poll")
    /\ JobCompleted(h)
    /\ UNCHANGED row /\ pollUnchanged

\* Still processing, unknown, or any error: poll again later.
PollAgain(h) ==
    /\ At(h, "poll")
    /\ JobCompletedWithIntent(h, "youtube.poll-processing", handler[h].rec)
    /\ UNCHANGED row /\ pollUnchanged

PollNext ==
    \E h \in YoutubeSlots :
        \/ \E e \in EventIds : PollStart(h, e)
        \/ PollReady(h) \/ PollFailed(h) \/ PollPrivate(h) \/ PollAgain(h)
=============================================================================
