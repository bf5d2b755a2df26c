---------------------------- MODULE PracticeState ----------------------------
(***************************************************************************)
(* One visit of the practice page of a question: the recorder, the take    *)
(* under review, the upload that carries it to object storage, the list of *)
(* attempts, and the API calls the page has in flight.  The modules        *)
(* RecorderController, BrowserUpload, StagingRequests and AttemptsList add *)
(* the steps; Practice composes them.                                      *)
(*                                                                         *)
(* A call is sent, served by the web process in one or more steps, and     *)
(* answered; answers come in any order, and the page may never hear one.   *)
(***************************************************************************)
EXTENDS Naturals, FiniteSets

CONSTANTS
    Takes,       \* captures the visitor can make
    Recs,        \* recording rows that can exist
    Slots,       \* bound: calls in flight at once
    Capacity,    \* MAX_STAGING_BYTES, in recordings (each of one unit)
    MaxCalls,    \* bound: calls the visitor, the timer and other tabs start
    NoTake, NoRec, NoSlot

ASSUME PracticeAssumption ==
    /\ NoTake \notin Takes /\ NoRec \notin Recs /\ NoSlot \notin Slots
    /\ Capacity \in Nat /\ MaxCalls \in Nat
    /\ IsFiniteSet(Recs) /\ IsFiniteSet(Slots) /\ Slots # {}

VARIABLES
    page,       \* the page is open; what runs after it is left, runs on
    recorder,   \* useRecorderController
    asking,     \* a getUserMedia request is pending
    loose,      \* ghost: media the page holds no longer, and never released
    review,     \* the take under review and its player
    up,         \* the upload handle: uploadCapture and uploadRecordingBlob
    calls,      \* the calls in flight
    rows,       \* the recordings of the question, and their objects
    list,       \* the attempts the page shows
    taken,      \* takes made
    made,       \* calls started
    muddled,    \* ghost: an answer about the attempts was lost or overtaken
    unheard,    \* ghost: takes whose completion the page did not hear of
    aborted     \* ghost: recordings whose PUT the visitor cancelled

media == <<recorder, asking, loose, review, taken>>
ghosts == <<unheard, aborted>>
shownVars == <<list, muddled>>
vars == <<page, media, up, calls, rows, shownVars, made, ghosts>>

Permissions == {"idle", "requesting", "granted", "refused"}
NonTerminal == {"STAGING", "QUEUED"}
Statuses == {"none", "STAGING", "QUEUED", "READY", "FAILED", "DELETE_PENDING", "DELETED"}
Views == [Recs -> Statuses]

Recorders ==
    [permission : Permissions,
     stream : {"none", "live", "ended"},
     machine : {"none", "active", "stopping", "inactive"},   \* the MediaRecorder
     recording : BOOLEAN,
     preview : {"none", "revoked"},   \* the URL previewUrl names
     codec : BOOLEAN]                 \* a supported mime type was negotiated
FreshRecorder ==
    [permission |-> "idle", stream |-> "none", machine |-> "none", recording |-> FALSE,
     preview |-> "none", codec |-> FALSE]

Uploads == [phase : {"none", "cut", "create", "put", "complete", "reload"},
            take : Takes \cup {NoTake}, rec : Recs \cup {NoRec}, slot : Slots \cup {NoSlot},
            trim : BOOLEAN]
NoUpload == [phase |-> "none", take |-> NoTake, rec |-> NoRec, slot |-> NoSlot,
             trim |-> FALSE]

Nothing == [r \in Recs |-> "none"]
Calls == [op : {"idle", "create", "put", "complete", "list", "retry", "delete"},
          take : Takes \cup {NoTake}, rec : Recs \cup {NoRec},
          step : {"sent", "checked", "inserted", "ok", "refused"},
          heard : BOOLEAN, view : Views, order : Nat]   \* which of the lists served and waiting this is
CallOf(op, take, rec) ==
    [op |-> op, take |-> take, rec |-> rec, step |-> "sent", heard |-> TRUE,
     view |-> Nothing, order |-> 0]
Idle == CallOf("idle", NoTake, NoRec)

Rows == [status : Statuses, key : {"none", "pending", "own"}, object : BOOLEAN,
         take : Takes \cup {NoTake}]
NoRow == [status |-> "none", key |-> "none", object |-> FALSE, take |-> NoTake]

\* The states the page shows with a progress text: the upload runs, the cut.
Uploading == up.phase \in {"create", "put", "complete"}
Trimming == up.phase # "none" /\ up.trim

\* What the list endpoint answers: rows that are not deleted.
Listing == [r \in Recs |-> IF rows[r].status \in {"DELETE_PENDING", "DELETED"} THEN "none"
                                                                 ELSE rows[r].status]

\* The page polls while a row it shows is not terminal.
HasNonTerminal == \E r \in Recs : list[r] \in NonTerminal

Free(s) == calls[s].op = "idle" /\ made < MaxCalls
Send(s, call) == calls' = [calls EXCEPT ![s] = call]

\* A call nobody hears any more ends when it is answered.
Answered(call, step) == IF call.heard THEN [call EXCEPT !.step = step] ELSE Idle
Unheard(call) == IF call.step \in {"ok", "refused"} THEN Idle ELSE [call EXCEPT !.heard = FALSE]
=============================================================================
