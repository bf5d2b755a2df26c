---------------------------- MODULE DraftRequests ----------------------------
(***************************************************************************)
(* The calls on a question's written drafts:                               *)
(* packages/db/src/services/records.ts with the routes under               *)
(* api/questions/[questionId]/drafts and api/drafts/[draftId].             *)
(***************************************************************************)
EXTENDS LibraryState, FiniteSets

\* Mutant: the position is the number of drafts.
CreateDraftCounts(s, u, o, q, content) ==
    /\ q \in ReachableQuestions(o)
    /\ Arrive(s, [Blank("createDraft", u, o, q) EXCEPT
                    !.value = content, !.pos = Cardinality(DraftsOf(q)), !.list = q])

\* The route resolves the scope; the one statement checks it as it writes.
\* What it reads is its snapshot: an insert beside it is not in it.
CreateDraftArrives(s, u, o, q, content) ==
    \E p \in Positions :
      /\ q \in ReachableQuestions(o)
      /\ IsNext(DraftsOf(q), drafts, p)
      /\ Arrive(s, [Blank("createDraft", u, o, q) EXCEPT
                      !.value = content, !.pos = p, !.list = q])

CreateDraftCommits(s) ==
    LET c == calls[s] IN
    /\ c.op = "createDraft"
    /\ \E d \in DraftIds :
         /\ drafts[d] = NoDraft
         /\ drafts' = [drafts EXCEPT ![d] =
              [question |-> c.at, live |-> TRUE, pos |-> c.pos, content |-> c.value]]
    /\ ListWritten(s, FALSE)
    /\ UNCHANGED <<topics, tags, questions>>

\* The draft is found through its question's topic and that topic's owner.
OwnedDrafts(o) == {d \in DraftIds : \E q \in ReachableQuestions(o) : d \in DraftsOf(q)}

UpdateDraftArrives(s, u, o, d, content) ==
    Arrive(s, [Blank("updateDraft", u, o, d) EXCEPT !.value = content])

UpdateDraftCommits(s) ==
    LET c == calls[s] IN
    /\ c.op = "updateDraft"
    /\ drafts' = IF c.at \in OwnedDrafts(c.scope)
                 THEN [drafts EXCEPT ![c.at].content = c.value] ELSE drafts
    /\ Ends(s)
    /\ UNCHANGED <<topics, tags, questions>>

DeleteDraftArrives(s, u, o, d) ==
    Arrive(s, Blank("deleteDraft", u, o, d))

\* The gap stays: only the order of what is left counts.
DeleteDraftCommits(s) ==
    LET c == calls[s] IN
    /\ c.op = "deleteDraft"
    /\ drafts' = IF c.at \in OwnedDrafts(c.scope)
                 THEN [drafts EXCEPT ![c.at].live = FALSE] ELSE drafts
    /\ Ends(s)
    /\ UNCHANGED <<topics, tags, questions>>

\* A question without drafts is answered as one that does not exist.
ReorderDraftsArrives(s, u, o, q, order) ==
    /\ q \in ReachableQuestions(o)
    /\ OrderOf(DraftsOf(q), order)
    /\ Arrive(s, [Blank("reorderDrafts", u, o, q) EXCEPT !.order = order, !.list = q])

\* A draft deleted meanwhile is no longer there to be written.
ReorderDraftsCommits(s) ==
    LET c == calls[s] IN
    /\ c.op = "reorderDrafts"
    /\ drafts' = [d \in DraftIds |->
         IF d \in Listed(c.order) /\ d \in DraftsOf(c.at)
         THEN [drafts[d] EXCEPT !.pos = PlaceIn(c.order, d)] ELSE drafts[d]]
    /\ ListWritten(s, TRUE)
    /\ UNCHANGED <<topics, tags, questions>>
=============================================================================
