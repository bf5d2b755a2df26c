------------------------------ MODULE WebPages -------------------------------
(***************************************************************************)
(* One page of the web client beside the web process.                      *)
(***************************************************************************)
EXTENDS TopicPage, DraftsPanel, ReloadingPages

\* The page opens with the list the server rendered; the library loads its own.
Init ==
    /\ page \in Pages
    /\ \E list \in [1 .. IF page = "detail" THEN 1 ELSE 2 -> [id : Ids, flag : BOOLEAN, text : {FALSE}]] :
        /\ IsInjective(IdsOf(list))
        /\ page \in {"drafts", "detail"} => ~list[1].flag
        /\ server = list
        /\ items = IF page = "library" THEN <<>> ELSE list
        /\ used = Range(IdsOf(list))
    /\ busy = {} /\ made = 0 /\ lost = FALSE /\ clash = FALSE /\ form = NoForm
    /\ query = [filter |-> "all", shown |-> IF page = "library" THEN "none" ELSE "all"]
    /\ \E s \in Slots :
        calls = [x \in Slots |-> IF page = "library" /\ x = s THEN LoadOf("all") ELSE Idle]

Next ==
    \/ DraftSteps
    \/ \E s \in Slots : TopicSteps(s) \/ DraftCalls(s) \/ ReloadSteps(s) \/ Serve(s) \/ LoseAnswer(s)

Spec == Init /\ [][Next]_vars
-----------------------------------------------------------------------------
\* Every variable keeps its type.
TypeOK ==
    /\ page \in Pages \cup {"left"} /\ server \in Seq(Item) /\ items \in Seq(Item)
    /\ busy \subseteq Ops \X (Ids \cup {NoId}) /\ calls \in [Slots -> Calls]
    /\ query \in Queries /\ form \in Forms
    /\ used \subseteq Ids /\ made \in 0 .. MaxCalls /\ lost \in BOOLEAN /\ clash \in BOOLEAN

Settled == InFlight = {} /\ ~lost

\* A page at rest shows what the database holds, under its filter, if no answer
\* was lost: patching a list with answers that come in any order is right as
\* long as no two calls in flight at once touched the same row, or one of them
\* the whole list.
PatchedSettles == page \in {"topic", "drafts"} /\ Settled /\ ~clash => items = server

\* The pages that load their list again need no such condition, except the users
\* page when two loads overlap: "stale responses never overwrite newer ones"
\* (use-library-data.ts:13).
ReloadedSettles ==
    page \in {"library", "users", "detail"} /\ Settled /\ ~clash
        => Shown = Filtered(server, query.filter)

\* The page warns before unload exactly while a draft form is open
\* (drafts-panel.tsx:45), unless the two forms, or a form and the deletion of
\* its draft, were open together: the two share one flag.
GuardMatchesForms ==
    page = "drafts" /\ ~form.crossed =>
        (form.guard <=> form.creating \/ form.editing # NoId)

\* An answer closes the form of a draft being edited, with what was typed in it,
\* only if it is the answer about that draft, or if the form was opened while
\* the save of another draft was in flight.
EditOutlivesAnswers ==
    [][form.editing # NoId /\ form'.editing # form.editing /\ calls' # calls
        => \/ form.risky
           \/ \E s \in Slots : calls[s].op = "edit" /\ calls[s].id = form.editing]_vars
=============================================================================
