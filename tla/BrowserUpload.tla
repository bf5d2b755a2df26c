---------------------------- MODULE BrowserUpload ----------------------------
(***************************************************************************)
(* The upload of a take: the page's handlers (upload, trim and upload,     *)
(* cancel) and the transport they share, which creates the row, PUTs the   *)
(* body and completes.  It runs on when the page is left.                  *)
(***************************************************************************)
EXTENDS RecorderController

unmoved == <<page, asking, loose, taken, rows, shownVars, made>>

\* uploadRecordingBlob sends the creation.
Begin(s, take, trim) ==
    /\ Send(s, CallOf("create", take, NoRec))
    /\ up' = [phase |-> "create", take |-> take, rec |-> NoRec, slot |-> s,
              trim |-> trim]

\* The buttons stand under a take that is neither being uploaded nor cut.
\* While it is uploaded or cut its player is off the screen.
Upload(s) ==
    /\ page /\ review.capture # NoTake /\ ~Uploading /\ ~Trimming /\ Free(s)
    /\ Begin(s, review.capture, FALSE)
    /\ made' = made + 1 /\ review' = [review EXCEPT !.player = "none"]
    /\ UNCHANGED <<page, recorder, asking, loose, taken, rows, shownVars, ghosts>>

TrimUpload ==
    /\ page /\ review.capture # NoTake /\ ~Uploading /\ ~Trimming
    /\ up' = [NoUpload EXCEPT !.phase = "cut", !.take = review.capture, !.trim = TRUE]
    /\ review' = [review EXCEPT !.player = "none"]
    /\ UNCHANGED <<page, recorder, asking, loose, taken, rows, shownVars, made, calls, ghosts>>

\* The panel under the take comes back, with whatever URL there is now.
PanelReturns == review' = [review EXCEPT !.player = IF review.capture = NoTake THEN "none"
                                                    ELSE "broken"]

TrimDone(s) ==
    /\ up.phase = "cut" /\ Free(s) /\ made' = made + 1
    /\ Begin(s, up.take, TRUE)
    /\ UNCHANGED <<page, media, rows, shownVars, ghosts>>

TrimFails ==
    /\ up.phase = "cut" /\ up' = NoUpload /\ PanelReturns
    /\ UNCHANGED <<unmoved, recorder, calls, ghosts>>

\* The call the upload waits for.
Waits(s, op) == up.slot = s /\ calls[s].op = op /\ calls[s].heard

Continues(s, phase, r) ==
    /\ up' = [up EXCEPT !.phase = phase, !.rec = r]
    /\ Send(s, CallOf(phase, up.take, r))

CreateAnswered(s) ==
    /\ Waits(s, "create") /\ calls[s].step = "ok"
    /\ Continues(s, "put", calls[s].rec)
    /\ UNCHANGED <<unmoved, recorder, review, ghosts>>

PutAnswered(s) ==
    /\ Waits(s, "put") /\ calls[s].step = "ok"
    /\ Continues(s, "complete", up.rec)
    /\ UNCHANGED <<unmoved, recorder, review, ghosts>>

\* Mutant: any answer to the completion clears the take.
CompleteAnsweredAnyhow(s) ==
    /\ up.slot = s /\ calls[s].op = "complete" /\ calls[s].heard
    /\ recorder' = Reset(recorder) /\ review' = NoReview
    /\ Send(s, IF page THEN CallOf("list", NoTake, NoRec) ELSE Idle)
    /\ up' = IF page /\ up.trim THEN [up EXCEPT !.phase = "reload"] ELSE NoUpload
    /\ UNCHANGED <<page, asking, loose, taken, rows, shownVars, made, ghosts>>

\* Mutant: the take is still offered after it was uploaded.
CompleteAnsweredKeeps(s) ==
    /\ Waits(s, "complete") /\ calls[s].step = "ok"
    /\ Send(s, Idle) /\ up' = NoUpload /\ PanelReturns
    /\ UNCHANGED <<unmoved, recorder, ghosts>>

\* The upload succeeded: the take and the recorder are cleared and the attempts
\* reloaded; a trimmed upload counts as trimming until that reload ends.
CompleteAnswered(s) ==
    /\ Waits(s, "complete") /\ calls[s].step = "ok"
    /\ recorder' = IF page THEN Reset(recorder) ELSE recorder
    /\ review' = NoReview
    /\ Send(s, IF page THEN CallOf("list", NoTake, NoRec) ELSE Idle)
    /\ up' = IF page /\ up.trim THEN [up EXCEPT !.phase = "reload"] ELSE NoUpload
    /\ UNCHANGED <<page, asking, loose, taken, rows, shownVars, made, ghosts>>

\* Any refusal: the take stays, to be uploaded again.
UploadRefused(s) ==
    /\ \E op \in {"create", "put", "complete"} : Waits(s, op)
    /\ calls[s].step = "refused"
    /\ Send(s, Idle) /\ up' = NoUpload /\ PanelReturns
    /\ UNCHANGED <<unmoved, recorder, ghosts>>

\* The network fails under the call the upload waits for.  One not yet served
\* may never arrive.
UploadLost(s) ==
    /\ \E op \in {"create", "put", "complete"} : Waits(s, op)
    /\ \/ calls[s].step = "sent" /\ Send(s, Idle)
       \/ Send(s, Unheard(calls[s]))
    /\ unheard' = IF calls[s].op = "complete" THEN unheard \cup {up.take} ELSE unheard
    /\ up' = NoUpload /\ PanelReturns
    /\ UNCHANGED <<unmoved, recorder, aborted>>

\* Mutant: the abort resolves the PUT.
CancelResolves(s) ==
    /\ page /\ up.phase = "put" /\ up.slot = s
    /\ Continues(s, "complete", up.rec)
    /\ aborted' = aborted \cup {up.rec}
    /\ UNCHANGED <<unmoved, recorder, review, unheard>>

\* Cancelling reaches the transport only while the PUT is in flight: the signal
\* has no listener before it, and nothing left to abort after it, so that the
\* button then does nothing.
CancelUpload(s) ==
    /\ page /\ up.phase = "put" /\ up.slot = s /\ calls[s].step = "sent"
    /\ \/ Send(s, Idle)
       \/ Send(s, Unheard(calls[s]))
    /\ aborted' = aborted \cup {up.rec}
    /\ up' = NoUpload /\ PanelReturns
    /\ UNCHANGED <<unmoved, recorder, unheard>>

Transports(s) ==
    \/ Upload(s) \/ TrimDone(s) \/ CreateAnswered(s) \/ PutAnswered(s)
    \/ CompleteAnswered(s) \/ UploadRefused(s) \/ UploadLost(s) \/ CancelUpload(s)
=============================================================================
