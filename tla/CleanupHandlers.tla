--------------------------- MODULE CleanupHandlers ---------------------------
(***************************************************************************)
(* The jobs that take things away: youtube.delete, storage.cleanup and     *)
(* storage.expire-staging (handleDelete, handleStorageCleanup,              *)
(* maybeFinishDeletion and handleExpireStaging of                          *)
(* apps/worker/src/processors.ts).                                         *)
(***************************************************************************)
EXTENDS PipelineState

cleanupUnchanged ==
    UNCHANGED <<request, url, opened, expired, inserted, processVars, overtaken>>
-----------------------------------------------------------------------------
(* youtube.delete *)

\* A row without a video ends the job here, without maybeFinishDeletion.
DeleteStart(h, e) ==
    LET r == events[e].rec IN
    /\ Takes(h, e, "youtube.delete")
    /\ \/ /\ row[r].video = None
          /\ NothingToDo(e)
       \/ /\ row[r].video # None
          /\ Starts(h, e, [Job("delete", e) EXCEPT !.video = row[r].video])
    /\ UNCHANGED <<row, object, live, reauth>> /\ cleanupUnchanged

\* deleteVideo answered 204, or 404 for a video already gone.
RemoveVideo(h) ==
    /\ At(h, "delete")
    /\ live' = [live EXCEPT ![handler[h].rec] = @ \ {handler[h].video}]
    /\ Goes(h, "forget")
    /\ UNCHANGED <<row, events, object, reauth>> /\ cleanupUnchanged

\* Any other answer, or no client: the job throws; a 401 marks the connections.
DeleteThrows(h) ==
    /\ At(h, "delete")
    /\ JobFailed(h)
    /\ reauth' \in {reauth, Owners}
    /\ UNCHANGED <<row, object, live>> /\ cleanupUnchanged

ForgetVideo(h) ==
    /\ At(h, "forget")
    /\ row' = [row EXCEPT ![handler[h].rec] = [@ EXCEPT !.video = None, !.privacy = "null"]]
    /\ Goes(h, "finish")
    /\ UNCHANGED <<events, object, live, reauth>> /\ cleanupUnchanged
-----------------------------------------------------------------------------
(* storage.cleanup *)

CleanupStart(h, e) ==
    LET r == events[e].rec IN
    /\ Takes(h, e, "storage.cleanup")
    /\ Starts(h, e, IF row[r].key = "null" THEN Job("finish", e)
                    ELSE [Job("remove", e) EXCEPT !.key = row[r].key])
    /\ UNCHANGED <<row, object, live, reauth>> /\ cleanupUnchanged

\* deletePrivateObject; its error is swallowed, so the object may survive.
RemoveObject(h) ==
    LET r == handler[h].rec IN
    /\ At(h, "remove")
    /\ object' \in {object, [object EXCEPT ![r] = @ /\ handler[h].key # "object"]}
    /\ Goes(h, "forgetKey")
    /\ UNCHANGED <<row, events, live, reauth>> /\ cleanupUnchanged

\* Mutant: only youtube.delete looks whether the deletion is finished.
ForgetKeyAndLeave(h) ==
    /\ At(h, "forgetKey")
    /\ row' = [row EXCEPT ![handler[h].rec].key = "null"]
    /\ JobCompleted(h)
    /\ UNCHANGED <<object, live, reauth>> /\ cleanupUnchanged

ForgetKey(h) ==
    /\ At(h, "forgetKey")
    /\ row' = [row EXCEPT ![handler[h].rec].key = "null"]
    /\ Goes(h, "finish")
    /\ UNCHANGED <<events, object, live, reauth>> /\ cleanupUnchanged
-----------------------------------------------------------------------------
(* maybeFinishDeletion: a read, then the compare-and-set it allowed *)

FinishCheck(h) ==
    LET r == handler[h].rec
        clean == row[r].status = "DELETE_PENDING" /\ row[r].key = "null" /\ row[r].video = None
    IN
    /\ At(h, "finish")
    /\ \/ clean /\ Goes(h, "tombstone") /\ UNCHANGED events
       \/ ~clean /\ JobCompleted(h)
    /\ UNCHANGED <<row, object, live, reauth>> /\ cleanupUnchanged

FinishDelete(h) ==
    LET r == handler[h].rec IN
    /\ At(h, "tombstone")
    /\ row' = RowAfter(r, "DELETE_PENDING", [row[r] EXCEPT !.status = "DELETED"])
    /\ JobCompleted(h)
    /\ UNCHANGED <<object, live, reauth>> /\ cleanupUnchanged
-----------------------------------------------------------------------------
(* storage.expire-staging *)

\* One row of the loop: STAGING -> EXPIRED forgets the key; the age test is any
\* outcome.  The cleanup intent is a second transaction.
ExpireRow(h, r) ==
    /\ ExpiryRuns /\ worker = "up"
    /\ h \in MaintenanceSlots /\ handler[h] = Idle
    /\ transitionAllowed(r, "STAGING", "EXPIRED")
    /\ row' = [row EXCEPT ![r] = [@ EXCEPT !.status = "EXPIRED", !.key = "null"]]
    /\ handler' = [handler EXCEPT ![h] = [step |-> "intent", rec |-> r]]
    /\ UNCHANGED <<events, object, live, reauth>> /\ cleanupUnchanged

ExpireIntent(h) ==
    /\ At(h, "intent")
    /\ insertOutboxEvent("storage.cleanup", handler[h].rec)
    /\ handler' = [handler EXCEPT ![h] = Idle]
    /\ UNCHANGED <<row, object, live, reauth>> /\ cleanupUnchanged

CleanupNext ==
    \/ \E h \in YoutubeSlots :
          \/ \E e \in EventIds : DeleteStart(h, e)
          \/ RemoveVideo(h) \/ DeleteThrows(h) \/ ForgetVideo(h)
    \/ \E h \in MaintenanceSlots :
          \/ \E e \in EventIds : CleanupStart(h, e)
          \/ RemoveObject(h) \/ ForgetKey(h) \/ ExpireIntent(h)
          \/ \E r \in Recordings : ExpireRow(h, r)
    \/ \E h \in Slots : FinishCheck(h) \/ FinishDelete(h)
=============================================================================
