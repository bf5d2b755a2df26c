------------------------------ MODULE PageState ------------------------------
(***************************************************************************)
(* One open page of the web client, the list it is about, and the API      *)
(* calls it has in flight.  On the library, users, and detail pages the    *)
(* list is topics, accounts, or the one record shown; on a topic page its  *)
(* questions; in the drafts panel the drafts of a question.                *)
(*                                                                         *)
(* A call is sent, served by the web process in one step, and answered;    *)
(* answers come in any order, and the page may never hear one.  A page     *)
(* that no longer waits for an answer does not hear it either.             *)
(***************************************************************************)
EXTENDS Naturals, Sequences, SequencesExt

CONSTANTS
    Pages,      \* the pages a behaviour may open
    Ids,        \* rows of the list
    Slots,      \* bound: calls in flight at once
    MaxCalls,   \* bound: calls the visitor starts
    NoId        \* no row

ASSUME PageAssumption == NoId \notin Ids /\ MaxCalls \in Nat

VARIABLES
    page,     \* the page that is open
    server,   \* the list as the database holds it
    items,    \* the list as the page holds it
    busy,     \* the pending flags that are up, each with the row it is about
    calls,    \* the calls in flight
    query,    \* the filter chosen, and the one the list on show answers
    form,     \* the drafts panel's forms, and the unsaved-work guard
    used,     \* rows there have been
    made,     \* calls started
    lost,     \* ghost: an answer failed or was not heard
    clash     \* ghost: calls in flight at once touched the same row

core == <<page, server, items, busy, calls, used, made, lost, clash>>
vars == <<core, query, form>>

Item == [id : Ids, flag : BOOLEAN, text : BOOLEAN]
\* Mutant: a new row comes without the id it was given.
NewNameless(x) == [id |-> NoId, flag |-> FALSE, text |-> FALSE]

\* What a row is at its creation.
New(x) == [id |-> x, flag |-> FALSE, text |-> FALSE]

\* The rows of the list that are in S, in their order.
Kept(list, S) ==
    LET kept[n \in 0 .. Len(list)] ==
            IF n = 0 THEN <<>>
            ELSE IF list[n] \in S THEN Append(kept[n - 1], list[n]) ELSE kept[n - 1]
    IN  kept[Len(list)]

Filters == {"all", "flagged"}
Filtered(list, f) == IF f = "all" THEN list ELSE Kept(list, {i \in Item : i.flag})

IdsOf(list) == [k \in 1 .. Len(list) |-> list[k].id]
Has(list, x) == \E k \in 1 .. Len(list) : list[k].id = x
At(list, x) == list[CHOOSE k \in 1 .. Len(list) : list[k].id = x]
Without(list, x) == Kept(list, {i \in Item : i.id # x})
With(list, item) == [k \in 1 .. Len(list) |-> IF list[k].id = item.id THEN item ELSE list[k]]

\* The list with a row moved one place up or down.
Swapped(list, k) == [list EXCEPT ![k] = list[k + 1], ![k + 1] = list[k]]

\* Calls that answer with, or rewrite, the whole list.
Wide == {"reorder", "bulk", "untag"}
Ops == Wide \cup {"idle", "load", "create", "edit", "flag", "delete", "tags"}
Calls == [op : Ops, id : Ids \cup {NoId}, value : BOOLEAN, order : Seq(Ids),
          base : Seq(Item), filter : Filters,
          step : {"sent", "ok", "refused"}, answer : Seq(Item)]
CallOf(op, x) == [op |-> op, id |-> x, value |-> FALSE, order |-> <<>>, base |-> <<>>,
                  filter |-> "all", step |-> "sent", answer |-> <<>>]
Idle == CallOf("idle", NoId)

Free(s) == calls[s].op = "idle" /\ made < MaxCalls
InFlight == {s \in Slots : calls[s].op # "idle"}

\* Two calls of which one is about the whole list, or both about one row.
Clashes(call) ==
    \E s \in InFlight :
        /\ calls[s].op # "load" /\ call.op # "load"
        /\ call.op \in Wide \/ calls[s].op \in Wide \/ (call.id # NoId /\ calls[s].id = call.id)

\* The visitor starts a call.
Starts(s, call, flags) ==
    /\ Free(s) /\ made' = made + 1
    /\ calls' = [calls EXCEPT ![s] = call]
    /\ busy' = busy \cup flags
    /\ clash' = (clash \/ Clashes(call))
    /\ UNCHANGED <<page, server, used, lost>>

Hears(s, op, step) == calls[s].op = op /\ calls[s].step = step

\* A handler ends with its call.
Ends(s, flags) ==
    /\ calls' = [calls EXCEPT ![s] = Idle]
    /\ busy' = busy \ flags
    /\ UNCHANGED <<page, server, used, made, clash>>

-----------------------------------------------------------------------------
\* The web process serves a call: the route and its service, which Library
\* models step by step.
Answers(s, list) == calls' = [calls EXCEPT ![s].step = "ok", ![s].answer = list]

ServesList(s) ==
    LET c == calls[s] IN
    \/ /\ c.op = "load"
       /\ Answers(s, Filtered(server, c.filter)) /\ UNCHANGED <<server, used>>
    \/ /\ c.op = "tags" /\ Answers(s, <<>>) /\ UNCHANGED <<server, used>>
    \/ /\ c.op \in {"create", "bulk"}
       /\ \E x \in Ids \ used :
            /\ server' = Append(server, New(x)) /\ used' = used \cup {x}
            /\ Answers(s, IF c.op = "bulk" THEN server' ELSE <<New(x)>>)
    \/ /\ c.op \in {"edit", "flag"} /\ Has(server, c.id)
       /\ LET old == At(server, c.id)
              new == IF c.op = "edit" THEN [old EXCEPT !.text = c.value]
                                      ELSE [old EXCEPT !.flag = c.value]
          IN  server' = With(server, new) /\ Answers(s, <<new>>)
       /\ UNCHANGED used
    \/ /\ c.op = "delete" /\ Has(server, c.id)
       /\ server' = Without(server, c.id) /\ Answers(s, <<>>) /\ UNCHANGED used
    \/ /\ c.op = "reorder" /\ IsInjective(c.order) /\ Range(c.order) = Range(IdsOf(server))
       /\ server' = [k \in 1 .. Len(c.order) |-> At(server, c.order[k])]
       /\ Answers(s, server') /\ UNCHANGED used
    \* Deleting a tag takes it off every row.
    \/ /\ c.op = "untag"
       /\ server' = [k \in 1 .. Len(server) |-> [server[k] EXCEPT !.flag = FALSE]]
       /\ Answers(s, <<>>) /\ UNCHANGED used

\* A check of the service refuses, a statement fails, or the request is lost.
RefusesList(s) ==
    /\ calls[s].op # "idle"
    /\ calls' = [calls EXCEPT ![s].step = "refused"] /\ UNCHANGED <<server, used>>

Serve(s) ==
    /\ calls[s].step = "sent" /\ (ServesList(s) \/ RefusesList(s))
    /\ UNCHANGED <<page, items, busy, made, lost, clash, query, form>>

\* The answer to a call that was served is lost: the page sees a failure.
LoseAnswer(s) ==
    /\ calls[s].op # "idle" /\ calls[s].step = "ok"
    /\ calls' = [calls EXCEPT ![s].step = "refused"] /\ lost' = TRUE
    /\ UNCHANGED <<page, server, items, busy, used, made, clash, query, form>>
=============================================================================
