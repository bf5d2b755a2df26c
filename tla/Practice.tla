------------------------------ MODULE Practice ------------------------------
(***************************************************************************)
(* A visit of the practice page beside the web process, the worker and the *)
(* account's other tabs.                                                   *)
(***************************************************************************)
EXTENDS BrowserUpload, AttemptsList, StagingRequests

\* Attempts of earlier visits: failed ones, as many as fit the capacity.
Init ==
    /\ page = TRUE
    /\ recorder = FreshRecorder /\ asking = FALSE /\ loose = {} /\ review = NoReview
    /\ taken = {} /\ up = NoUpload
    /\ calls = [s \in Slots |-> Idle] /\ made = 0
    /\ \E old \in SUBSET Recs :
        /\ Cardinality(old) <= Capacity
        /\ rows = [r \in Recs |-> IF r \in old
                                  THEN [NoRow EXCEPT !.status = "FAILED", !.key = "own",
                                                     !.object = TRUE]
                                  ELSE NoRow]
    /\ list = Listing /\ muddled = FALSE
    /\ unheard = {} /\ aborted = {}

Next ==
    \/ Records
    \/ TrimUpload \/ TrimFails
    \/ \E s \in Slots : Transports(s) \/ Lists(s) \/ Serves(s)
    \/ \E r \in Recs : WorkerMoves(r)

Spec == Init /\ [][Next]_vars
-----------------------------------------------------------------------------
\* Every variable keeps its type.
TypeOK ==
    /\ page \in BOOLEAN /\ recorder \in Recorders /\ asking \in BOOLEAN
    /\ loose \subseteq {"camera", "url"}
    /\ review \in [capture : Takes \cup {NoTake}, player : {"none", "plays", "broken"}]
    /\ up \in Uploads /\ calls \in [Slots -> Calls] /\ rows \in [Recs -> Rows]
    /\ list \in Views /\ taken \subseteq Takes /\ made \in 0 .. MaxCalls
    /\ muddled \in BOOLEAN
    /\ unheard \subseteq Takes /\ aborted \subseteq Recs

\* The controller holds a running camera only on the open page, once allowed,
\* and before there is a take: stopping, discarding, uploading and leaving all
\* turn it off (use-recorder-controller.ts:11-13).  A camera granted to a page
\* already left is the exception the ghost `loose` names.
CameraOnlyToRecord ==
    recorder.stream = "live" =>
        page /\ recorder.permission = "granted" /\ review.capture = NoTake

\* A page that says "Recording" can be stopped: its MediaRecorder runs, unless
\* the device was lost; then the flag stays up and the take is gone.
RecordingCanStop ==
    recorder.recording =>
        recorder.machine \in {"active", "stopping"} \/ recorder.stream = "ended"

\* A take that an upload clears from the page is on the server past staging:
\* no failure along create, PUT and complete loses it (onUpload keeps the
\* capture, and offers it again).
Past == {r \in Recs : rows[r].status \notin {"none", "STAGING"}}
Transferred == {r \in Past : rows[r].status \notin {"DELETE_PENDING", "DELETED"}}
TakeSurvivesUpload ==
    [][review.capture # NoTake /\ review'.capture = NoTake /\ page' /\ Uploading
        => \E r \in Past : rows[r].take = review.capture]_vars

\* A take becomes two recordings past staging only after the answer to a
\* completion was lost: retrying what failed earlier leaves the first row in
\* staging for good.
TakeIsOneRecording ==
    \A r, q \in Transferred :
        r # q /\ rows[r].take = rows[q].take /\ rows[r].take # NoTake => rows[r].take \in unheard

\* Every creation that fits the capacity when it looks is let in, so creations
\* that overlap overshoot it: by at most one upload for each further call the
\* process serves (checkStagingCapacity), those let in and not yet inserted counted.
LetIn == {s \in Slots : calls[s].op = "create" /\ calls[s].step = "checked"}
StagingOvershootIsBounded ==
    ActiveStaging + Cardinality(LetIn) + 1 <= Capacity + Cardinality(Slots)

\* An upload cancelled while its PUT was in flight is never completed ("Aborting
\* never claims completion", upload-transport.ts:9); cancelled during its creation
\* or completion it goes on, as if nothing had been pressed.
AbortedIsNeverQueued == aborted \cap Transferred = {}

\* When the page has stopped polling, hears nothing more and lost or reordered no
\* answer, it shows every recording the server took from it as it is there.
Settled ==
    /\ page /\ up.phase = "none" /\ ~muddled /\ ~Polling
    /\ \A s \in Slots : ~(calls[s].heard /\ calls[s].op \in {"list", "retry", "delete"})
AttemptsSettle ==
    Settled => \A r \in Past : rows[r].take \notin unheard => list[r] = Listing[r]
=============================================================================
