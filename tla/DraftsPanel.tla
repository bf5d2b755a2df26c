----------------------------- MODULE DraftsPanel -----------------------------
(***************************************************************************)
(* The drafts of a question: a form that adds one, a form that edits one   *)
(* in place, deleting, moving, and the flag that warns before unload while *)
(* a form is open.                                                         *)
(***************************************************************************)
EXTENDS PageState

onDrafts == page = "drafts" /\ UNCHANGED query
Quiet == UNCHANGED <<page, server, items, busy, calls, used, made, lost, clash>>

\* Two ghosts say that what happens next was prepared by an overlap: "crossed",
\* a form was opened beside the other form or beside the deletion of its draft;
\* "risky", the edit form was opened while the save of another draft ran.
NoForm == [creating |-> FALSE, editing |-> NoId, guard |-> FALSE, crossed |-> FALSE,
           risky |-> FALSE]
Forms == [creating : BOOLEAN, editing : Ids \cup {NoId}, guard : BOOLEAN, crossed : BOOLEAN,
          risky : BOOLEAN]

\* The ghost ends with the last form.
Settle(f) == IF f.creating \/ f.editing # NoId THEN f
             ELSE [f EXCEPT !.crossed = FALSE, !.risky = FALSE]

\* Mutant: the parent is not told that the form closed.
ClosedEditQuietly(f) == Settle([f EXCEPT !.editing = NoId])

\* Closing either form tells the parent that no form is open.
ClosedCreate(f) == Settle([f EXCEPT !.creating = FALSE, !.guard = FALSE])
ClosedEdit(f) == Settle([f EXCEPT !.editing = NoId, !.guard = FALSE])

\* A save is in flight.
Saving == \E y \in Ids : <<"edit", y>> \in busy

StartCreate ==
    /\ onDrafts /\ ~form.creating
    /\ form' = [form EXCEPT !.creating = TRUE, !.guard = TRUE,
                            !.crossed = @ \/ form.editing # NoId \/ Saving]
    /\ Quiet

CloseCreate ==
    /\ onDrafts /\ form.creating /\ <<"create", NoId>> \notin busy
    /\ form' = ClosedCreate(form) /\ Quiet

\* The edit button stands on every draft not being edited, whatever is in flight.
BeginEdit ==
    /\ onDrafts
    /\ \E x \in Ids :
        /\ Has(items, x) /\ form.editing # x
        /\ form' = [form EXCEPT !.editing = x, !.guard = TRUE,
                      !.crossed = @ \/ form.creating \/ <<"delete", x>> \in busy,
                      !.risky = Saving]
    /\ Quiet

CloseEdit ==
    /\ onDrafts /\ form.editing # NoId /\ Has(items, form.editing)
    /\ <<"edit", form.editing>> \notin busy
    /\ form' = ClosedEdit(form) /\ Quiet

CreateDraft(s) ==
    /\ onDrafts /\ form.creating /\ <<"create", NoId>> \notin busy
    /\ Starts(s, CallOf("create", NoId), {<<"create", NoId>>}) /\ UNCHANGED <<items, form>>

\* One save at a time.
SaveEdit(s) ==
    /\ onDrafts /\ form.editing # NoId /\ Has(items, form.editing) /\ ~Saving
    /\ Starts(s, [CallOf("edit", form.editing) EXCEPT !.value = ~At(items, form.editing).text],
              {<<"edit", form.editing>>})
    /\ UNCHANGED <<items, form>>

\* One deletion at a time; the button is not on the draft being edited.
RemoveDraft(s) ==
    /\ onDrafts /\ \A y \in Ids : <<"delete", y>> \notin busy
    /\ \E x \in Ids :
        /\ Has(items, x) /\ x # form.editing
        /\ Starts(s, CallOf("delete", x), {<<"delete", x>>})
    /\ UNCHANGED <<items, form>>

\* The list is moved at once; the call keeps the list as it was.
MoveDraft(s) ==
    /\ onDrafts /\ <<"reorder", NoId>> \notin busy
    /\ \E k \in 1 .. Len(items) - 1 :
        /\ Starts(s, [CallOf("reorder", NoId) EXCEPT !.order = IdsOf(Swapped(items, k)),
                                                     !.base = items],
                  {<<"reorder", NoId>>})
        /\ items' = Swapped(items, k)
    /\ UNCHANGED form

\* A move that failed puts back the list it started from.
MoveReverted(c) == IF c.op = "reorder" THEN c.base ELSE items

\* Mutant: a deletion closes the form of any draft.
FormAfterAny(c) == IF c.op = "create" THEN ClosedCreate(form) ELSE ClosedEdit(form)

\* A draft was saved: whichever draft is being edited by now, its form closes.
\* A deletion closes no form: the one that read "editing" was the one before it.
FormAfter(c) == CASE c.op = "create" -> ClosedCreate(form)
                  [] c.op = "edit" -> ClosedEdit(form)
                  [] OTHER -> form

DraftAnswered(s) ==
    LET c == calls[s] IN
    /\ onDrafts /\ c.op # "idle" /\ c.step # "sent"
    /\ IF c.step = "ok"
       THEN /\ items' = CASE c.op = "reorder" -> c.answer
                          [] c.op = "create" -> items \o c.answer
                          [] c.op = "edit" -> With(items, c.answer[1])
                          [] c.op = "delete" -> Without(items, c.id)
            /\ form' = FormAfter(c)
       ELSE items' = MoveReverted(c) /\ UNCHANGED form
    /\ Ends(s, {<<c.op, c.id>>}) /\ UNCHANGED lost

DraftSteps == StartCreate \/ CloseCreate \/ BeginEdit \/ CloseEdit
DraftCalls(s) ==
    CreateDraft(s) \/ SaveEdit(s) \/ RemoveDraft(s) \/ MoveDraft(s) \/ DraftAnswered(s)
=============================================================================
