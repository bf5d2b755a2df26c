---------------------------- MODULE WorkerProcess ----------------------------
(***************************************************************************)
(* The worker process around its handlers: the outbox dispatch loop, the   *)
(* upload scanner (apps/worker/src/scanner.ts), crash, restart and startup *)
(* recovery (apps/worker/src/services.ts, main.ts).  Dispatch is one step  *)
(* here; the module Outbox takes it apart.                                 *)
(***************************************************************************)
EXTENDS PipelineState

workerUnchanged == UNCHANGED <<request, storageVars, providerVars, reauth, overtaken>>

\* dispatchPendingOutboxEvents: an unpublished row becomes a waiting job.  A
\* delayed row (availableAt) is published some time later, as any other.
Dispatch(e) ==
    /\ worker = "up"
    /\ events[e] # NoEvent /\ events[e].state = "unpublished"
    /\ events' = [events EXCEPT ![e].state = "waiting"]
    /\ UNCHANGED <<row, handler, processVars>> /\ workerUnchanged

\* Redis hears that a job is done.
Acknowledge(e) ==
    /\ worker = "up"
    /\ events[e] # NoEvent /\ events[e].state = "done"
    /\ events' = [events EXCEPT ![e] = NoEvent]
    /\ UNCHANGED <<row, handler, processVars>> /\ workerUnchanged
-----------------------------------------------------------------------------
(* The upload scanner: one pass at a time *)

HasUnpublishedUpload(r) ==
    \E e \in EventIds : /\ events[e] # NoEvent
                        /\ events[e].type = "youtube.upload"
                        /\ events[e].rec = r
                        /\ events[e].state = "unpublished"

\* Mutant: a row with an upload session is left to the job that opened it.
DueWithoutSession(r) ==
    /\ row[r].status = "QUEUED"
    /\ row[r].key # "null"
    /\ row[r].video = None
    /\ row[r].session = None
    /\ ~row[r].deferred
    /\ ~HasUnpublishedUpload(r)

DueForUpload(r) ==
    /\ row[r].status = "QUEUED"
    /\ row[r].key # "null"
    /\ row[r].video = None
    /\ ~row[r].deferred
    /\ ~HasUnpublishedUpload(r)

ScanSelect ==
    /\ worker = "up"
    /\ scan = {}
    /\ scan' = {r \in Recordings : DueForUpload(r)}
    /\ UNCHANGED <<row, events, handler, worker, todo, crashes>> /\ workerUnchanged

\* One transaction inserts for every selected row; it looks at nothing again.
ScanInsert ==
    /\ scan # {}
    /\ scan' = {}
    /\ \E place \in [scan -> Free] :
          /\ \A r, s \in scan : place[r] = place[s] => r = s
          /\ events' = [e \in EventIds |->
                IF \E r \in scan : place[r] = e
                THEN Intent("youtube.upload", CHOOSE r \in scan : place[r] = e)
                ELSE events[e]]
    /\ UNCHANGED <<row, handler, worker, todo, crashes>> /\ workerUnchanged

\* uploadDeferredUntil passes.
DeferralLapses(r) ==
    /\ row[r].deferred
    /\ row' = [row EXCEPT ![r].deferred = FALSE]
    /\ UNCHANGED <<events, handler, processVars>> /\ workerUnchanged
-----------------------------------------------------------------------------
(* Crash, restart, recovery *)

\* The process dies: handlers and scanner lose what they held.  BullMQ finds the
\* jobs stalled and gives them to a worker again, MaxStalls times each; so it does
\* with a job whose handler had returned unheard.
AfterStall(ev) ==
    IF ev = NoEvent \/ ev.state \notin {"active", "done"} THEN ev
    ELSE IF ev.stalls < MaxStalls THEN [ev EXCEPT !.state = "waiting", !.stalls = @ + 1]
    ELSE NoEvent

Crash ==
    /\ worker # "down" /\ crashes < MaxCrashes
    /\ crashes' = crashes + 1
    /\ worker' = "down"
    /\ handler' = [h \in Slots |-> Idle]
    /\ events' = [e \in EventIds |-> AfterStall(events[e])]
    /\ scan' = {} /\ todo' = {}
    /\ UNCHANGED row /\ workerUnchanged

\* recoverOnStartup, first part: every YOUTUBE_PROCESSING row is selected, then
\* gets a poll intent in a transaction of its own.
RecoverSelectProcessing ==
    /\ worker = "down"
    /\ worker' = "polls"
    /\ todo' = {r \in Recordings : row[r].status = "YOUTUBE_PROCESSING"}
    /\ UNCHANGED <<row, events, handler, scan, crashes>> /\ workerUnchanged

RecoverProcessing(r) ==
    /\ worker = "polls" /\ r \in todo
    /\ todo' = todo \ {r}
    /\ insertOutboxEvent("youtube.poll-processing", r)
    /\ UNCHANGED <<row, handler, scan, worker, crashes>> /\ workerUnchanged

\* Second part: rows in YOUTUBE_UPLOADING for more than 15 minutes, any of them.
RecoverSelectStale ==
    /\ worker = "polls" /\ todo = {}
    /\ worker' = "uploads"
    /\ \E stale \in SUBSET {r \in Recordings : row[r].status = "YOUTUBE_UPLOADING"} : todo' = stale
    /\ UNCHANGED <<row, events, handler, scan, crashes>> /\ workerUnchanged

RecoverStale(r) ==
    /\ worker = "uploads" /\ r \in todo
    /\ todo' = todo \ {r}
    /\ insertOutboxEvent("youtube.upload", r)
    /\ UNCHANGED <<row, handler, scan, worker, crashes>> /\ workerUnchanged

\* Only then do the BullMQ workers, the dispatcher and the scanner start.
StartWorkers ==
    /\ worker = "uploads" /\ todo = {}
    /\ worker' = "up"
    /\ UNCHANGED <<row, events, handler, scan, todo, crashes>> /\ workerUnchanged

\* An administrator's reconnect makes an owner's connection usable again.
Reconnect(o) ==
    /\ o \in reauth
    /\ reauth' = reauth \ {o}
    /\ UNCHANGED <<row, events, handler, request, processVars, storageVars, providerVars, overtaken>>

WorkerNext ==
    \/ \E e \in EventIds : Dispatch(e) \/ Acknowledge(e)
    \/ ScanSelect \/ ScanInsert
    \/ \E r \in Recordings : DeferralLapses(r) \/ RecoverProcessing(r) \/ RecoverStale(r)
    \/ Crash \/ RecoverSelectProcessing \/ RecoverSelectStale \/ StartWorkers
    \/ \E o \in Owners : Reconnect(o)
=============================================================================
