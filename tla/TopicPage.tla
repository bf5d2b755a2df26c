------------------------------ MODULE TopicPage ------------------------------
(***************************************************************************)
(* The questions of a topic page: add, add many, edit, delete, move, and   *)
(* the drafted checkbox.  Each handler patches the page's list with what   *)
(* the call it made answers; none of them reloads it.                      *)
(***************************************************************************)
EXTENDS PageState

onTopic == page = "topic" /\ UNCHANGED <<query, form>>

\* The move buttons stay enabled while a move is in flight.
MoveQuestion(s) ==
    /\ onTopic
    /\ \E k \in 1 .. Len(items) - 1 :
        Starts(s, [CallOf("reorder", NoId) EXCEPT !.order = IdsOf(Swapped(items, k))], {})
    /\ UNCHANGED items

\* The checkbox flips at once; the call keeps what it was for a revert.
ToggleDrafted(s) ==
    /\ onTopic
    /\ \E k \in 1 .. Len(items) :
        LET old == items[k]
            new == [old EXCEPT !.flag = ~@]
        IN  /\ Starts(s, [CallOf("flag", old.id) EXCEPT !.value = new.flag, !.base = <<old>>], {})
            /\ items' = With(items, new)

AddQuestion(s) ==
    /\ onTopic /\ <<"create", NoId>> \notin busy
    /\ Starts(s, CallOf("create", NoId), {<<"create", NoId>>}) /\ UNCHANGED items

BulkAddQuestions(s) ==
    /\ onTopic /\ <<"bulk", NoId>> \notin busy
    /\ Starts(s, CallOf("bulk", NoId), {<<"bulk", NoId>>}) /\ UNCHANGED items

EditQuestion(s) ==
    /\ onTopic
    /\ \E k \in 1 .. Len(items) :
        /\ <<"edit", items[k].id>> \notin busy
        /\ Starts(s, [CallOf("edit", items[k].id) EXCEPT !.value = ~items[k].text],
                  {<<"edit", items[k].id>>})
    /\ UNCHANGED items

DeleteQuestion(s) ==
    /\ onTopic
    /\ \E k \in 1 .. Len(items) :
        /\ <<"delete", items[k].id>> \notin busy
        /\ Starts(s, CallOf("delete", items[k].id), {<<"delete", items[k].id>>})
    /\ UNCHANGED items

\* Mutant: an edited question keeps the row the page had.
PatchedEditLost(list, c) ==
    CASE c.op \in {"reorder", "bulk"} -> c.answer
      [] c.op = "create" -> list \o c.answer
      [] c.op = "delete" -> Without(list, c.id)
      [] OTHER -> list

\* What a handler makes of the list when its call succeeds.
Patched(list, c) ==
    CASE c.op \in {"reorder", "bulk"} -> c.answer
      [] c.op = "create" -> list \o c.answer
      [] c.op = "edit" -> With(list, c.answer[1])
      [] c.op = "delete" -> Without(list, c.id)
      [] OTHER -> list

\* A refused toggle puts back the flag the row had when it was made.
Reverted(list, c) ==
    IF c.op = "flag" /\ Has(list, c.id)
    THEN With(list, [At(list, c.id) EXCEPT !.flag = c.base[1].flag])
    ELSE list

TopicAnswered(s) ==
    LET c == calls[s] IN
    /\ onTopic /\ c.op # "idle" /\ c.step # "sent"
    /\ items' = IF c.step = "ok" THEN Patched(items, c) ELSE Reverted(items, c)
    /\ Ends(s, {<<c.op, c.id>>}) /\ UNCHANGED lost

TopicSteps(s) ==
    \/ MoveQuestion(s) \/ ToggleDrafted(s) \/ AddQuestion(s) \/ BulkAddQuestions(s)
    \/ EditQuestion(s) \/ DeleteQuestion(s) \/ TopicAnswered(s)
=============================================================================
