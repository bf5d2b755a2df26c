-------------------------- MODULE RecordingPipeline --------------------------
(***************************************************************************)
(* The whole path of a recording: web requests, outbox, worker handlers,   *)
(* scanner, crashes and YouTube, composed, with what must hold of them.    *)
(***************************************************************************)
EXTENDS RecordingRequests, UploadHandler, PollHandler, CleanupHandlers, WorkerProcess

Init ==
    /\ row = [r \in Recordings |-> EmptyRow]
    /\ events = [e \in EventIds |-> NoEvent]
    /\ handler = [h \in Slots |-> Idle]
    /\ request = [q \in Requests |-> NoRequest]
    /\ scan = {} /\ worker = "up" /\ todo = {} /\ crashes = 0
    /\ url = [r \in Recordings |-> FALSE]
    /\ object = [r \in Recordings |-> FALSE]
    /\ opened = [r \in Recordings |-> 0]
    /\ expired = [r \in Recordings |-> {}]
    /\ inserted = [r \in Recordings |-> {}]
    /\ live = [r \in Recordings |-> {}]
    /\ reauth = {} /\ overtaken = {}

Next == RequestNext \/ UploadNext \/ PollNext \/ CleanupNext \/ WorkerNext

Spec == Init /\ [][Next]_vars

\* Every variable holds what the code can put there: rows, jobs, handlers in
\* mid-flight, requests, and at most MaxSessions upload sessions per recording.
TypeOK ==
    /\ row \in [Recordings -> Row]
    /\ events \in [EventIds -> Event \cup {NoEvent}]
    /\ handler \in [Slots -> Handler \cup Sweeper \cup {Idle}]
    /\ request \in [Requests -> Request \cup {NoRequest}]
    /\ scan \subseteq Recordings /\ todo \subseteq Recordings
    /\ worker \in {"up", "down", "polls", "uploads"} /\ crashes \in Nat
    /\ url \in [Recordings -> BOOLEAN] /\ object \in [Recordings -> BOOLEAN]
    /\ opened \in [Recordings -> 0 .. MaxSessions]
    /\ expired \in [Recordings -> SUBSET (0 .. MaxSessions)]
    /\ inserted \in [Recordings -> SUBSET (0 .. MaxSessions)]
    /\ live \in [Recordings -> SUBSET (0 .. MaxSessions)]
    /\ reauth \subseteq Owners /\ overtaken \subseteq Recordings
-----------------------------------------------------------------------------
(* Safety *)

InAttempt(h, r) == handler[h].step \in AttemptSteps /\ handler[h].rec = r

\* However many upload intents, jobs, slots, retries and crashes there are: as
\* long as a recording has no video and is not deleted, at most one handler is
\* past its claim on it, and the row says YOUTUBE_UPLOADING all the while.
UploadExclusive ==
    \A r \in Recordings, h \in YoutubeSlots :
        InAttempt(h, r) /\ row[r].video = None /\ row[r].status \notin GoneStates =>
            /\ row[r].status = "YOUTUBE_UPLOADING"
            /\ \A g \in YoutubeSlots : InAttempt(g, r) => g = h

\* A verified recording keeps its object and its key until it is deleted: every
\* later upload, retry or local playback finds the source (plan/02, READY).
SourceRetained ==
    \A r \in Recordings : row[r].status \in KeptStates => row[r].key = "object" /\ object[r]

\* A row that is being processed or ready has its video, and only deletion can
\* take it away.
VideoWhenProcessed ==
    \A r \in Recordings :
        row[r].status \in {"YOUTUBE_PROCESSING", "READY"} => row[r].video \in inserted[r]

\* YouTube is never asked for a second video of a recording, whatever is lost,
\* repeated or redelivered, unless a retry or a claim acted on a read that had been
\* overtaken: the first needs two requests, the second two upload slots.
OneInsert == \A r \in Recordings \ overtaken : Cardinality(inserted[r]) <= 1

Outstanding(type, r) ==
    \E e \in EventIds : /\ events[e] # NoEvent /\ events[e].state # "done"
                        /\ events[e].type = type /\ events[e].rec = r

\* Somebody still polls a row in YOUTUBE_PROCESSING: an intent, a job, a running
\* handler, or recovery has it on its list or is about to look for it.
ProcessingIsPolled ==
    \A r \in Recordings : row[r].status = "YOUTUBE_PROCESSING" =>
        \/ Outstanding("youtube.poll-processing", r)
        \/ worker = "down"
        \/ worker = "polls" /\ r \in todo

Finishing(r) ==
    \/ Outstanding("storage.cleanup", r)
    \/ \E h \in Slots : handler[h].step \in FinishSteps /\ handler[h].rec = r

\* A deletion whose object and video are both gone still has a handler that will
\* notice, as long as the worker has not crashed: the two cleanup jobs cannot each
\* leave the last step to the other.
DeletionNoticed ==
    crashes = 0 =>
        \A r \in Recordings :
            row[r].status = "DELETE_PENDING" /\ row[r].key = "null" /\ row[r].video = None
                => Finishing(r)

\* A READY recording is unlisted as far as the application knows: no late answer
\* of another poll overwrites it.
ReadyIsUnlisted == \A r \in Recordings : row[r].status = "READY" => row[r].privacy = "unlisted"
-----------------------------------------------------------------------------
(* What no step may do *)

\* An upload whose outcome YouTube left unclear is never queued again by a retry
\* ("Fail closed", recordings.ts:226).  A retry that read the row before another
\* one and its attempt does queue it: the run overtaken_retry shows how.
AmbiguousStaysFailed ==
    [][\A r \in Recordings : row[r].status = "FAILED" /\ row[r].code = "AMBIGUOUS"
          => row'[r].status # "QUEUED"]_vars

-----------------------------------------------------------------------------
Lifecycle == INSTANCE RecordingLifecycle WITH
    status <- [r \in Recordings |-> row[r].status],
    source <- object,
    videos <- [r \in Recordings |-> Cardinality(inserted[r])],
    repeated <- overtaken

\* The composed system implements the life cycle users were promised.
ImplementsLifecycle == Lifecycle!LifecycleSpec
=============================================================================
