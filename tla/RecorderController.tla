------------------------- MODULE RecorderController -------------------------
(***************************************************************************)
(* The headless recorder and the two page handlers that drive it: camera   *)
(* permission, the MediaRecorder, the take it makes, discarding it, and    *)
(* what leaving the page releases.                                         *)
(***************************************************************************)
EXTENDS PracticeState

outside == <<up, calls, rows, shownVars, made, ghosts>>

NoReview == [capture |-> NoTake, player |-> "none"]

\* reset(): tears the recorder down, stops the tracks, revokes the URL.
\* A MediaRecorder already asked to stop still fires its event.
Reset(r) ==
    [r EXCEPT !.permission = "idle", !.stream = "none", !.recording = FALSE,
              !.machine = IF @ = "stopping" THEN @ ELSE "none", !.preview = "none"]

\* What the controller's effect releases when the page is left: it is renewed
\* with every stream, so it knows the current one.
Released(r) == Reset(r)

RequestPermission ==
    /\ page /\ recorder.permission = "idle" /\ review.capture = NoTake
    /\ recorder' = [recorder EXCEPT !.permission = "requesting"]
    /\ asking' = TRUE
    /\ UNCHANGED <<page, loose, review, taken, outside>>

\* A page that has been left no longer hears the promise; nobody then holds
\* the stream.
PermissionGranted ==
    /\ asking /\ asking' = FALSE
    /\ IF page
       THEN /\ \E codec \in BOOLEAN :
                recorder' = [recorder EXCEPT !.permission = "granted", !.stream = "live",
                                             !.codec = codec]
            /\ UNCHANGED loose
       ELSE loose' = loose \cup {"camera"} /\ UNCHANGED recorder
    /\ UNCHANGED <<page, review, taken, outside>>

\* Denied, or no device: the page tells which, and offers no way to ask again.
PermissionRefused ==
    /\ asking /\ asking' = FALSE
    /\ recorder' = IF page THEN [recorder EXCEPT !.permission = "refused"] ELSE recorder
    /\ UNCHANGED <<page, loose, review, taken, outside>>

Start ==
    /\ page /\ recorder.permission = "granted" /\ review.capture = NoTake
    /\ recorder.stream = "live" /\ ~recorder.recording /\ recorder.codec
    /\ recorder' = [recorder EXCEPT !.machine = "active", !.recording = TRUE]
    /\ UNCHANGED <<page, asking, loose, review, taken, outside>>

\* onStop: with no active MediaRecorder stop() answers null and nothing changes.
Stop ==
    /\ page /\ recorder.recording /\ recorder.machine = "active"
    /\ recorder' = [recorder EXCEPT !.machine = "stopping"]
    /\ UNCHANGED <<page, asking, loose, review, taken, outside>>

\* Mutant: the stop listener keeps the tracks running.
StopFiresKeepsTracks ==
    /\ recorder.machine = "stopping"
    /\ \E t \in Takes \ taken :
        /\ page
        /\ review' = [capture |-> t, player |-> "plays"]
        /\ taken' = taken \cup {t}
        /\ recorder' = [recorder EXCEPT !.machine = "none", !.recording = FALSE,
                                        !.preview = "revoked"]
        /\ UNCHANGED loose
    /\ UNCHANGED <<page, asking, outside>>

\* The stop event: the tracks stop and the take goes under review.  Dropping
\* the stream renews the controller's effect, whose cleanup revokes the URL
\* just made: the player already on screen goes on with it, a later one has
\* none.  A page left meanwhile makes a URL that nothing revokes.
StopFires ==
    /\ recorder.machine = "stopping"
    /\ IF page
       THEN \E t \in Takes \ taken :
             /\ review' = [capture |-> t, player |-> "plays"]
             /\ taken' = taken \cup {t}
             /\ recorder' = [recorder EXCEPT !.machine = "none", !.stream = "none",
                                             !.recording = FALSE, !.preview = "revoked"]
             /\ UNCHANGED loose
       ELSE /\ recorder' = [recorder EXCEPT !.machine = "none"]
            /\ loose' = loose \cup {"url"}
            /\ UNCHANGED <<review, taken>>
    /\ UNCHANGED <<page, asking, outside>>

\* Mutant: the error listener leaves the recording flag up.
RecorderFailsQuietly ==
    /\ page /\ recorder.machine = "active"
    /\ recorder' = [recorder EXCEPT !.machine = "none"]
    /\ UNCHANGED <<page, asking, loose, review, taken, outside>>

\* The MediaRecorder's error event: the chunks are dropped, the camera stays on.
RecorderFails ==
    /\ page /\ recorder.machine = "active"
    /\ recorder' = [recorder EXCEPT !.machine = "none", !.recording = FALSE]
    /\ UNCHANGED <<page, asking, loose, review, taken, outside>>

\* The device is unplugged: its tracks end, and the MediaRecorder stops with a
\* stop event that has no listener yet.
DeviceLost ==
    /\ recorder.stream = "live"
    /\ recorder' = [recorder EXCEPT !.stream = "ended",
                                    !.machine = IF @ = "active" THEN "inactive" ELSE @]
    /\ UNCHANGED <<page, asking, loose, review, taken, outside>>

Discard ==
    /\ page /\ review.capture # NoTake /\ ~Uploading /\ ~Trimming
    /\ recorder' = Reset(recorder) /\ review' = NoReview
    /\ UNCHANGED <<page, asking, loose, taken, outside>>

\* Route change or unmount: nobody hears the answers about attempts any more.
\* The upload handle is not aborted.
Leave ==
    /\ page /\ page' = FALSE
    /\ recorder' = Released(recorder) /\ review' = NoReview
    /\ calls' = [s \in Slots |-> IF calls[s].op \in {"list", "retry", "delete"}
                                THEN Unheard(calls[s]) ELSE calls[s]]
    /\ list' = Nothing /\ muddled' = FALSE
    /\ up' = IF up.phase = "reload" THEN NoUpload ELSE up
    /\ UNCHANGED <<asking, loose, taken, rows, made, ghosts>>

Records ==
    \/ RequestPermission \/ PermissionGranted \/ PermissionRefused
    \/ Start \/ Stop \/ StopFires \/ RecorderFails \/ DeviceLost \/ Discard \/ Leave
=============================================================================
