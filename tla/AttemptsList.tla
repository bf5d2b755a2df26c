---------------------------- MODULE AttemptsList -----------------------------
(***************************************************************************)
(* The attempts the practice page lists: grouped polling while one of them *)
(* is not terminal, retrying and deleting, and the reload after each.      *)
(***************************************************************************)
EXTENDS PracticeState

aside == <<page, media, rows, ghosts>>

\* Mutant: queued attempts count as done.
HasStaging == \E r \in Recs : list[r] = "STAGING"

\* The rows shown keep the timer running.
Polling == HasNonTerminal

\* A tick of the timer, or the page becoming visible again.
Poll(s) ==
    /\ page /\ Polling /\ Free(s) /\ made' = made + 1
    /\ Send(s, CallOf("list", NoTake, NoRec))
    /\ UNCHANGED <<aside, up, shownVars>>

Mutates(s, op, r) ==
    /\ page /\ Free(s) /\ made' = made + 1
    /\ Send(s, CallOf(op, NoTake, r))
    /\ UNCHANGED <<aside, up, shownVars>>

Retry(s) == \E r \in Recs : list[r] = "FAILED" /\ Mutates(s, "retry", r)
Delete(s) == \E r \in Recs : list[r] # "none" /\ Mutates(s, "delete", r)

\* The change was made: the attempts are reloaded.
MutationAnswered(s) ==
    /\ page /\ calls[s].heard /\ calls[s].op \in {"retry", "delete"} /\ calls[s].step = "ok"
    /\ Send(s, CallOf("list", NoTake, NoRec))
    /\ UNCHANGED <<aside, up, shownVars, made>>

\* A reload ends, and with it the handler of a trimmed upload.
ReloadEnds(s) == up' = IF up.phase = "reload" /\ up.slot = s THEN NoUpload ELSE up

\* Answers are applied in the order they come: one served before another that
\* was applied overwrites it, and is then the older.
Overtakes(s) == [x \in Slots |-> IF x = s THEN Idle
                                ELSE IF calls[x].op = "list" /\ 0 < calls[x].order /\ calls[x].order < calls[s].order
                                     THEN [calls[x] EXCEPT !.order = 0]
                                     ELSE calls[x]]
ListAnswered(s) ==
    /\ page /\ calls[s].heard /\ calls[s].op = "list" /\ calls[s].step = "ok"
    /\ list' = calls[s].view
    /\ muddled' = (muddled \/ calls[s].order = 0)
    /\ calls' = Overtakes(s) /\ ReloadEnds(s)
    /\ UNCHANGED <<aside, made>>

\* A refused or lost answer keeps the last list; the next tick retries.
AttemptsCallFails(s) ==
    /\ page /\ calls[s].heard /\ calls[s].op \in {"list", "retry", "delete"}
    /\ \/ calls[s].step \in {"sent", "refused"} /\ Send(s, Idle)
       \/ calls[s].step # "refused" /\ Send(s, Unheard(calls[s]))
    /\ muddled' = TRUE /\ ReloadEnds(s)
    /\ UNCHANGED <<aside, list, made>>

Lists(s) ==
    \/ Poll(s) \/ Retry(s) \/ Delete(s)
    \/ MutationAnswered(s) \/ ListAnswered(s) \/ AttemptsCallFails(s)
=============================================================================
