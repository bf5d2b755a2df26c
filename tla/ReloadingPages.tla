---------------------------- MODULE ReloadingPages ---------------------------
(***************************************************************************)
(* The pages that change a record and then load their list again.          *)
(*   library: topics under a filter, loaded by useLibraryData, which hears *)
(*            only its latest load;                                        *)
(*   users:   accounts under a search, where any load that ends is shown;  *)
(*   detail:  one record and its buttons, one action at a time, with a     *)
(*            refresh of the server-rendered page after it (the user       *)
(*            detail, YouTube settings and queue pages).                   *)
(***************************************************************************)
EXTENDS PageState

reloading == page \in {"library", "users", "detail"} /\ UNCHANGED form
onLibrary == page = "library" /\ UNCHANGED form
onUsers == page = "users" /\ UNCHANGED form
onDetail == page = "detail" /\ UNCHANGED form

Queries == [filter : Filters, shown : Filters \cup {"none"}]

\* What useLibraryData hands the page: nothing, until the filter's own answer.
Shown == IF page = "library" /\ query.shown # query.filter THEN <<>> ELSE items

LoadOf(f) == [CallOf("load", NoId) EXCEPT !.filter = f]

\* The loads that a new one makes the page stop waiting for.
Cancelled == IF page = "users" THEN {}
             ELSE {s \in Slots : calls[s].op = "load"}

\* A handler ends by loading the list, over the call it waited for.
Reloads(s, f, flags) ==
    /\ calls' = [x \in Slots |-> IF x = s THEN LoadOf(f)
                                 ELSE IF x \in Cancelled THEN Idle ELSE calls[x]]
    /\ busy' = (busy \ flags) \cup (IF page = "users" THEN {<<"load", NoId>>} ELSE {})
    /\ clash' = (clash \/ (page = "users" /\ \E x \in Slots \ {s} : calls[x].op = "load"))
    /\ UNCHANGED <<page, server, items, used, made, lost>>

\* The filter changes, and the effect loads under the new key.
SetFilter(s) ==
    /\ onLibrary /\ Free(s) /\ made' = made + 1
    /\ \E f \in Filters \ {query.filter} :
        /\ query' = [query EXCEPT !.filter = f]
        /\ calls' = [x \in Slots |-> IF x = s THEN LoadOf(f)
                                     ELSE IF x \in Cancelled THEN Idle ELSE calls[x]]
    /\ UNCHANGED <<page, server, items, busy, used, lost, clash>>

\* The search form and the page buttons are off while a load runs; what was
\* typed counts when it is sent.
Search(s) ==
    /\ onUsers /\ <<"load", NoId>> \notin busy
    /\ \E f \in Filters :
        /\ query' = [query EXCEPT !.filter = f]
        /\ Starts(s, LoadOf(f), {<<"load", NoId>>})
    /\ UNCHANGED items

\* Topics are moved on the full list only, one move at a time.
ReorderTopic(s) ==
    /\ onLibrary /\ query.filter = "all" /\ <<"reorder", NoId>> \notin busy
    /\ \E k \in 1 .. Len(Shown) - 1 :
        Starts(s, [CallOf("reorder", NoId) EXCEPT !.order = IdsOf(Swapped(Shown, k))],
               {<<"reorder", NoId>>})
    /\ UNCHANGED <<items, query>>

RemoveTopic(s) ==
    /\ onLibrary
    /\ \E k \in 1 .. Len(Shown) :
        /\ <<"delete", Shown[k].id>> \notin busy
        /\ Starts(s, CallOf("delete", Shown[k].id), {<<"delete", Shown[k].id>>})
    /\ UNCHANGED <<items, query>>

\* Creating a topic, on the library page, or an account, on the users page.
CreateRow(s) ==
    /\ page \in {"library", "users"} /\ UNCHANGED form /\ <<"create", NoId>> \notin busy
    /\ Starts(s, CallOf("create", NoId), {<<"create", NoId>>}) /\ UNCHANGED <<items, query>>

\* The tags dialog: deleting a tag; creating one changes no topic.
RemoveTag(s) == onLibrary /\ Starts(s, CallOf("untag", NoId), {}) /\ UNCHANGED <<items, query>>

\* A button of a detail page: a change of the record from what the page shows.
Act(s) ==
    /\ onDetail /\ busy = {} /\ Len(items) = 1
    /\ Starts(s, [CallOf("flag", items[1].id) EXCEPT !.value = ~items[1].flag],
              {<<"flag", items[1].id>>})
    /\ UNCHANGED <<items, query>>

\* Mutant: the list is not loaded again.
MutationSilent(s) ==
    /\ reloading /\ calls[s].step = "ok" /\ calls[s].op \in {"reorder", "delete", "flag", "tags"}
    /\ Ends(s, {<<calls[s].op, calls[s].id>>}) /\ UNCHANGED <<items, lost, query>>

\* The change was made.  The library loads under the filter chosen by now.
MutationDone(s) ==
    /\ reloading /\ calls[s].step = "ok" /\ calls[s].op \in {"reorder", "delete", "flag", "tags"}
    /\ Reloads(s, query.filter, {<<calls[s].op, calls[s].id>>})
    /\ UNCHANGED query

\* The dialog reads the tags before it has the library load.
TagRemoved(s) ==
    /\ onLibrary /\ Hears(s, "untag", "ok")
    /\ calls' = [calls EXCEPT ![s] = CallOf("tags", NoId)]
    /\ UNCHANGED <<page, server, items, busy, used, made, lost, clash, query>>

\* A topic was created: the page goes to it.  An account: the users are loaded
\* from the closure's search.
RowCreated(s) ==
    /\ Hears(s, "create", "ok") /\ UNCHANGED form
    /\ \/ /\ page = "library" /\ page' = "left"
          /\ calls' = [x \in Slots |-> Idle] /\ busy' = {}
          /\ UNCHANGED <<server, items, used, made, lost, clash, query>>
       \/ /\ page = "users" /\ Reloads(s, query.filter, {<<"create", NoId>>})
          /\ UNCHANGED query

Loaded(s) ==
    /\ reloading /\ Hears(s, "load", "ok")
    /\ items' = calls[s].answer
    /\ query' = [query EXCEPT !.shown = calls[s].filter]
    /\ Ends(s, {<<"load", NoId>>}) /\ UNCHANGED lost

\* A failure is shown and changes nothing; the list stays as it was.
ReloadingFails(s) ==
    /\ reloading /\ calls[s].op # "idle" /\ calls[s].step = "refused"
    /\ lost' = (lost \/ calls[s].op \in {"load", "tags"})
    /\ Ends(s, {<<calls[s].op, calls[s].id>>}) /\ UNCHANGED <<items, query>>

ReloadSteps(s) ==
    \/ SetFilter(s) \/ Search(s) \/ ReorderTopic(s) \/ RemoveTopic(s) \/ CreateRow(s)
    \/ RemoveTag(s) \/ Act(s) \/ MutationDone(s) \/ TagRemoved(s) \/ RowCreated(s)
    \/ Loaded(s) \/ ReloadingFails(s)
=============================================================================
