--------------------------- MODULE StagingRequests ---------------------------
(***************************************************************************)
(* What the web process and the object store do with the page's calls:     *)
(* creating an upload checks the staging capacity, inserts the row under a *)
(* placeholder key and then gives it its own; the PUT stores the object;   *)
(* completing, retrying, deleting and listing are one step each (the       *)
(* module RecordingRequests models their inner steps).                     *)
(***************************************************************************)
EXTENDS PracticeState, FiniteSetsExt

kept == <<page, media, up, shownVars, made, ghosts>>

Steps(s, step) ==
    Send(s, IF step \in {"ok", "refused"} THEN Answered(calls[s], step)
                                          ELSE [calls[s] EXCEPT !.step = step])
Refuses(s) == Steps(s, "refused") /\ UNCHANGED <<rows, kept>>

\* Rows whose object counts against the capacity.
Staged == {r \in Recs : /\ rows[r].key # "none"
                        /\ rows[r].status \notin {"none", "DELETED"}}

ActiveStaging == Cardinality(Staged)

\* Mutant: the incoming upload is left out of the projected total.
FitsWithoutIncoming == ActiveStaging <= Capacity

Fits == ActiveStaging + 1 <= Capacity

CheckStagingCapacity(s) ==
    /\ calls[s].op = "create" /\ calls[s].step = "sent"
    /\ Steps(s, IF Fits THEN "checked" ELSE "refused")
    /\ UNCHANGED <<rows, kept>>

\* storage_key is unique, and every insertion uses the key "pending": a second
\* one fails while a row still holds it.
PlaceholderFree == \A r \in Recs : rows[r].key # "pending"

\* Mutant: the row takes its own id where the take belongs.
InsertRecordingSwapped(s) ==
    /\ calls[s].op = "create" /\ calls[s].step = "checked" /\ PlaceholderFree
    /\ \E r \in Recs :
        /\ rows[r].status = "none"
        /\ rows' = [rows EXCEPT ![r] = [status |-> "STAGING", key |-> "pending",
                                        object |-> FALSE, take |-> r]]
        /\ calls' = [calls EXCEPT ![s] = [@ EXCEPT !.step = "inserted", !.rec = r]]
        /\ UNCHANGED kept

InsertRecording(s) ==
    /\ calls[s].op = "create" /\ calls[s].step = "checked"
    /\ IF PlaceholderFree
       THEN \E r \in Recs :
             /\ rows[r].status = "none"
             /\ rows' = [rows EXCEPT ![r] = [status |-> "STAGING", key |-> "pending",
                                             object |-> FALSE, take |-> calls[s].take]]
             /\ calls' = [calls EXCEPT ![s] = [@ EXCEPT !.step = "inserted", !.rec = r]]
             /\ UNCHANGED kept
       ELSE Refuses(s)

KeepKey(s) ==
    /\ calls[s].op = "create" /\ calls[s].step = "inserted"
    /\ rows' = [rows EXCEPT ![calls[s].rec].key = "own"]
    /\ Steps(s, "ok") /\ UNCHANGED kept

\* The object store takes the body under the presigned key.
PutObject(s) ==
    /\ calls[s].op = "put" /\ calls[s].step = "sent"
    /\ \/ /\ rows' = [rows EXCEPT ![calls[s].rec].object = TRUE]
          /\ Steps(s, "ok") /\ UNCHANGED kept
       \/ Refuses(s)

\* completeRecordingUpload: queues a staged row whose object is there, answers
\* alike for one already queued, refuses one that is gone.
Complete(s) ==
    LET r == calls[s].rec IN
    /\ calls[s].op = "complete" /\ calls[s].step = "sent"
    /\ \/ /\ rows[r].status = "STAGING" /\ rows[r].key = "own" /\ rows[r].object
          /\ rows' = [rows EXCEPT ![r].status = "QUEUED"]
          /\ Steps(s, "ok") /\ UNCHANGED kept
       \/ /\ rows[r].status = "STAGING" /\ ~rows[r].object
          /\ Refuses(s)
       \/ /\ rows[r].status \in {"QUEUED", "READY", "FAILED"}
          /\ Steps(s, "ok") /\ UNCHANGED <<rows, kept>>
       \/ /\ rows[r].status \in {"DELETE_PENDING", "DELETED"}
          /\ Refuses(s)

RetryRecording(s) ==
    LET r == calls[s].rec IN
    /\ calls[s].op = "retry" /\ calls[s].step = "sent"
    /\ IF rows[r].status = "FAILED"
       THEN /\ rows' = [rows EXCEPT ![r].status = "QUEUED"]
            /\ Steps(s, "ok") /\ UNCHANGED kept
       ELSE Refuses(s)

DeleteRecording(s) ==
    LET r == calls[s].rec IN
    /\ calls[s].op = "delete" /\ calls[s].step = "sent"
    /\ rows' = [rows EXCEPT ![r].status = IF @ = "DELETED" THEN @ ELSE "DELETE_PENDING"]
    /\ Steps(s, "ok") /\ UNCHANGED kept

Served == Max({calls[s].order : s \in Slots})

ListRecordings(s) ==
    /\ calls[s].op = "list" /\ calls[s].step = "sent"
    /\ Send(s, Answered([calls[s] EXCEPT !.view = Listing, !.order = 1 + Served], "ok"))
    /\ UNCHANGED <<rows, kept>>

\* The process dies, or a statement fails, under a call it has not finished.
CallDies(s) == calls[s].op # "idle" /\ calls[s].step \notin {"ok", "refused"} /\ Refuses(s)

\* Another tab of the account creates an upload.
OtherCreates(s) ==
    /\ Free(s) /\ made' = made + 1
    /\ Send(s, [CallOf("create", NoTake, NoRec) EXCEPT !.heard = FALSE])
    /\ UNCHANGED <<page, media, up, rows, shownVars, ghosts>>

\* The worker transfers, gives up, or finishes a deletion.
WorkerMoves(r) ==
    /\ \/ /\ rows[r].status = "QUEUED"
          /\ \E next \in {"READY", "FAILED"} : rows' = [rows EXCEPT ![r].status = next]
       \/ /\ rows[r].status = "DELETE_PENDING"
          /\ rows' = [rows EXCEPT ![r] = [@ EXCEPT !.status = "DELETED", !.key = "none",
                                                   !.object = FALSE]]
    /\ UNCHANGED <<calls, kept>>

Serves(s) ==
    \/ CheckStagingCapacity(s) \/ InsertRecording(s) \/ KeepKey(s) \/ PutObject(s)
    \/ Complete(s) \/ RetryRecording(s) \/ DeleteRecording(s) \/ ListRecordings(s)
    \/ CallDies(s) \/ OtherCreates(s)
=============================================================================
