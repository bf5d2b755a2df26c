------------------------- MODULE RecordingLifecycle --------------------------
(***************************************************************************)
(* What the product promises about one recording, without jobs, processes  *)
(* or providers: it moves along the published life cycle, its media stays  *)
(* in storage until it is deleted or abandoned, and YouTube is asked for   *)
(* one video at most, before the recording counts as uploaded.  The        *)
(* exception is a recording sent to be uploaded again by mistake.          *)
(***************************************************************************)
EXTENDS Naturals, RecordingStates

CONSTANT Recordings

VARIABLES
    status,   \* the state a user sees
    source,   \* is the source media in storage?
    videos,   \* videos YouTube ever made for the recording
    repeated  \* recordings sent to be uploaded again by mistake

lifecycleVars == <<status, source, videos, repeated>>

LifecycleInit ==
    /\ status = [r \in Recordings |-> NoRow]
    /\ source = [r \in Recordings |-> FALSE]
    /\ videos = [r \in Recordings |-> 0]
    /\ repeated = {}

Start(r) ==
    /\ status[r] = NoRow
    /\ status' = [status EXCEPT ![r] = "STAGING"]
    /\ UNCHANGED <<source, videos, repeated>>

\* Uploading counts on the source; leaving the upload path with success counts
\* on the video.  The mistake is made on the way into an upload, after a failure
\* or after a video.
Move(r) ==
    /\ \E next \in RECORDING_STATES :
          /\ status[r] # NoRow /\ canTransitionRecording(status[r], next)
          /\ next = "QUEUED" => source[r]
          /\ next \in {"YOUTUBE_PROCESSING", "READY"} => videos[r] > 0
          /\ status' = [status EXCEPT ![r] = next]
          /\ \/ UNCHANGED repeated
             \/ /\ \/ status[r] = "FAILED" /\ next = "QUEUED"
                   \/ next = "YOUTUBE_UPLOADING" /\ videos[r] > 0
                /\ repeated' = repeated \cup {r}
    /\ UNCHANGED <<source, videos>>

Store(r) ==
    /\ status[r] # NoRow
    /\ source' = [source EXCEPT ![r] = TRUE]
    /\ UNCHANGED <<status, videos, repeated>>

Discard(r) ==
    /\ status[r] \in GoneStates \cup {"EXPIRED"}
    /\ source' = [source EXCEPT ![r] = FALSE]
    /\ UNCHANGED <<status, videos, repeated>>

\* The one videos.insert; a deletion may overtake it.
Publish(r) ==
    /\ \/ status[r] \in GoneStates \cup {"YOUTUBE_UPLOADING"} /\ videos[r] = 0
       \/ r \in repeated
    /\ videos' = [videos EXCEPT ![r] = @ + 1]
    /\ UNCHANGED <<status, source, repeated>>

LifecycleNext == \E r \in Recordings : Start(r) \/ Move(r) \/ Store(r) \/ Discard(r) \/ Publish(r)

LifecycleSpec == LifecycleInit /\ [][LifecycleNext]_lifecycleVars
=============================================================================
