-------------------------- MODULE RecordingRequests --------------------------
(***************************************************************************)
(* The recording services of the web process                               *)
(* (apps/web/src/lib/services/recordings.ts) and the browser's PUT.  Each  *)
(* service reads the row, may await the object store, and then writes; the *)
(* request keeps what it read in `request`.  A service that returns or     *)
(* throws before its first write changes nothing and has no action.        *)
(***************************************************************************)
EXTENDS PipelineState

Reading(op, r) ==
    [op |-> op, rec |-> r, status |-> NoRow, key |-> "null", video |-> None]

Answered(q) == request' = [request EXCEPT ![q] = NoRequest]

webUnchanged ==
    UNCHANGED <<handler, providerVars, processVars, reauth, overtaken>>
-----------------------------------------------------------------------------
(* createRecordingUpload *)

\* insertRecording with storageKey "pending".  The column is UNIQUE, so the
\* insert fails while another row still says "pending".
CreateInsert(q, r) ==
    /\ request[q] = NoRequest
    /\ row[r].status = NoRow
    /\ \A s \in Recordings : row[s].key # "pending"
    /\ row' = [row EXCEPT ![r] = [EmptyRow EXCEPT !.status = "STAGING", !.key = "pending"]]
    /\ request' = [request EXCEPT ![q] = Reading("create", r)]
    /\ UNCHANGED <<events, storageVars>> /\ webUnchanged

\* The presigned URL exists and its key is written by id, whatever the row's
\* status is by now; the answer hands the URL to the browser.
CreateFinish(q) ==
    LET r == request[q].rec IN
    /\ request[q].op = "create"
    /\ row' = [row EXCEPT ![r].key = "object"]
    /\ url' = [url EXCEPT ![r] = TRUE]
    /\ Answered(q)
    /\ UNCHANGED <<events, object>> /\ webUnchanged

\* The browser's PUT through the presigned URL; it never asks the database.
BrowserPut(r) ==
    /\ url[r]
    /\ object' = [object EXCEPT ![r] = TRUE]
    /\ UNCHANGED <<row, events, request, url>> /\ webUnchanged

\* The URL's time to live ends.
UrlExpires(r) ==
    /\ url[r]
    /\ url' = [url EXCEPT ![r] = FALSE]
    /\ UNCHANGED <<row, events, request, object>> /\ webUnchanged
-----------------------------------------------------------------------------
(* completeRecordingUpload *)

\* Mutant: the object is not looked at.
CompleteUnverified(q, r) ==
    /\ request[q] = NoRequest
    /\ row[r].status = "STAGING"
    /\ row[r].key = "object"
    /\ request' = [request EXCEPT ![q] = Reading("complete", r)]
    /\ UNCHANGED <<row, events, storageVars>> /\ webUnchanged

\* The row was STAGING and statPrivateObject found the declared object.
CompleteCheck(q, r) ==
    /\ request[q] = NoRequest
    /\ row[r].status = "STAGING"
    /\ row[r].key = "object" /\ object[r]
    /\ request' = [request EXCEPT ![q] = Reading("complete", r)]
    /\ UNCHANGED <<row, events, storageVars>> /\ webUnchanged

\* confirmStagedRecordingTx: STAGING -> QUEUED with the upload intent, or
\* INVALID_RECORDING_STATE and nothing written.
CompleteCommit(q) ==
    LET r == request[q].rec IN
    /\ request[q].op = "complete"
    /\ \/ /\ row[r].status = "STAGING"
          /\ row' = [row EXCEPT ![r].status = "QUEUED"]
          /\ insertOutboxEvent("youtube.upload", r)
       \/ /\ row[r].status # "STAGING"
          /\ UNCHANGED <<row, events>>
    /\ Answered(q)
    /\ UNCHANGED storageVars /\ webUnchanged
-----------------------------------------------------------------------------
(* retryRecording *)

\* Mutant: any failed recording may be retried.
RetryAnyFailure(q, r) ==
    /\ request[q] = NoRequest
    /\ row[r].status = "FAILED"
    /\ row[r].key # "null"
    /\ request' = [request EXCEPT ![q] = [Reading("retry", r) EXCEPT !.video = row[r].video]]
    /\ UNCHANGED <<row, events, storageVars>> /\ webUnchanged

RetryCheck(q, r) ==
    /\ request[q] = NoRequest
    /\ row[r].status = "FAILED"
    /\ row[r].code # "AMBIGUOUS"
    /\ row[r].key # "null"
    /\ request' = [request EXCEPT ![q] = [Reading("retry", r) EXCEPT !.video = row[r].video]]
    /\ UNCHANGED <<row, events, storageVars>> /\ webUnchanged

\* FAILED -> QUEUED with the intent chosen by the row as it was read: polling
\* for a row with a video, a fresh upload otherwise.  Nothing else is reset.  The
\* failure code is not looked at again: after another retry and another attempt
\* the row may have failed with an unclear outcome.
RetryCommit(q) ==
    LET r == request[q].rec IN
    /\ request[q].op = "retry"
    /\ \/ /\ transitionAllowed(r, "FAILED", "QUEUED")
          /\ row' = [row EXCEPT ![r].status = "QUEUED"]
          /\ insertOutboxEvent(IF request[q].video # None
                               THEN "youtube.poll-processing" ELSE "youtube.upload", r)
          /\ overtaken' = IF row[r].code = "AMBIGUOUS" THEN overtaken \cup {r} ELSE overtaken
       \/ /\ ~transitionAllowed(r, "FAILED", "QUEUED")
          /\ UNCHANGED <<row, events, overtaken>>
    /\ Answered(q)
    /\ UNCHANGED <<storageVars, handler, providerVars, processVars, reauth>>
-----------------------------------------------------------------------------
(* deleteRecording *)

DeleteCheck(q, r) ==
    /\ request[q] = NoRequest
    /\ row[r].status \notin GoneStates \cup {NoRow}
    /\ request' = [request EXCEPT ![q] =
          [Reading("delete", r) EXCEPT !.status = row[r].status, !.key = row[r].key,
                                          !.video = row[r].video]]
    /\ UNCHANGED <<row, events, storageVars>> /\ webUnchanged

\* The compare-and-set on the status it read, and the intents for the video and
\* the key it read.
DeleteCommit(q) ==
    LET r == request[q].rec IN
    /\ request[q].op = "delete"
    /\ \/ /\ transitionAllowed(r, request[q].status, "DELETE_PENDING")
          /\ row' = [row EXCEPT ![r].status = "DELETE_PENDING"]
          /\ \E e, f \in Free :
                /\ e # f
                /\ events' = [events EXCEPT
                      ![e] = IF request[q].video # None THEN Intent("youtube.delete", r) ELSE NoEvent,
                      ![f] = IF request[q].key # "null" THEN Intent("storage.cleanup", r) ELSE NoEvent]
       \/ /\ ~transitionAllowed(r, request[q].status, "DELETE_PENDING")
          /\ UNCHANGED <<row, events>>
    /\ Answered(q)
    /\ UNCHANGED storageVars /\ webUnchanged
-----------------------------------------------------------------------------
\* The web process restarts, or the statement a request was about to run fails:
\* the rest of the request never happens.
RequestLost(q) ==
    /\ request[q] # NoRequest
    /\ Answered(q)
    /\ UNCHANGED <<row, events, storageVars>> /\ webUnchanged

RequestNext ==
    \/ \E q \in Requests :
          \/ \E r \in Recordings :
                \/ CreateInsert(q, r) \/ CompleteCheck(q, r) \/ RetryCheck(q, r) \/ DeleteCheck(q, r)
          \/ CreateFinish(q) \/ CompleteCommit(q) \/ RetryCommit(q) \/ DeleteCommit(q)
          \/ RequestLost(q)
    \/ \E r \in Recordings : BrowserPut(r) \/ UrlExpires(r)
=============================================================================
