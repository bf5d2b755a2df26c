---------------------------- MODULE LibraryState -----------------------------
(***************************************************************************)
(* The practice library as the web process keeps it: topics with their     *)
(* tags, questions, written drafts, and the API calls in flight.  The      *)
(* modules TopicRequests, QuestionRequests and DraftRequests add the calls, *)
(* Library composes them, under the routes that make them.                 *)
(*                                                                         *)
(* A call takes two steps.  It ARRIVES: the route resolves the owner scope *)
(* and the service makes its checks and reads.  It COMMITS: the service    *)
(* writes, in one statement or one transaction.  Other calls may commit    *)
(* between the two.  A call its checks refuse changes nothing, so it has   *)
(* no step; a commit that throws is rolled back and only ends the call.    *)
(***************************************************************************)
EXTENDS Naturals, Sequences

CONSTANTS
    Users,         \* accounts
    Admins,        \* the accounts whose session says "admin"
    TopicIds, TagIds, QuestionIds, DraftIds,   \* rows that can exist
    Names,         \* normalized tag names
    Values,        \* prompts and draft bodies: what an edit can set
    Slots,         \* calls the web process serves at once
    Positions,     \* bound: the positions rows take
    MaxOrder,      \* bound: ids in an order a client sends
    MaxCalls,      \* bound: calls in a behaviour
    NoOne,         \* no owner, no row, no value
    Seed           \* the library at the start

ASSUME LibraryAssumption ==
    /\ Admins \subseteq Users
    /\ Positions \subseteq Nat
    /\ MaxCalls \in Nat /\ MaxOrder \in Nat
    /\ NoOne \notin Users \cup TopicIds \cup TagIds \cup QuestionIds \cup DraftIds \cup Names \cup Values
    /\ Users \cap TopicIds = {} /\ Users \cap QuestionIds = {} /\ TopicIds \cap QuestionIds = {}
    /\ TagIds \cap (Users \cup TopicIds \cup QuestionIds) = {}

VARIABLES
    topics, tags, questions, drafts,   \* the tables, one row per id
    calls,        \* the call each slot serves
    made,         \* calls made so far
    disordered    \* ghost: lists and tags that a call wrote after what it had
                  \* read of them changed, or to which a caller named a position

vars == <<topics, tags, questions, drafts, calls, made, disordered>>

TopicRow == [owner : Users \cup {NoOne}, live : BOOLEAN, pos : Nat, tags : SUBSET TagIds]
TagRow == [owner : Users \cup {NoOne}, live : BOOLEAN,
           name : Names \cup {NoOne}, color : Values \cup {NoOne}]
QuestionRow == [topic : TopicIds \cup {NoOne}, live : BOOLEAN, pos : Nat,
                prompt : Values \cup {NoOne}, drafted : BOOLEAN]
DraftRow == [question : QuestionIds \cup {NoOne}, live : BOOLEAN, pos : Nat,
             content : Values \cup {NoOne}]

NoTopic == [owner |-> NoOne, live |-> FALSE, pos |-> 0, tags |-> {}]
NoTag == [owner |-> NoOne, live |-> FALSE, name |-> NoOne, color |-> NoOne]
NoQuestion == [topic |-> NoOne, live |-> FALSE, pos |-> 0, prompt |-> NoOne, drafted |-> FALSE]
NoDraft == [question |-> NoOne, live |-> FALSE, pos |-> 0, content |-> NoOne]

\* What the library's lists hold.  A deleted topic or question stays in its
\* table with deleted_at set.  A deleted tag or draft leaves its table; its
\* row is kept here, not live, so that no later row takes its id.
TopicsOf(o) == {t \in TopicIds : topics[t].owner = o /\ topics[t].live}
QuestionsOf(t) == {q \in QuestionIds : questions[q].topic = t /\ questions[q].live}
DraftsOf(q) == {d \in DraftIds : drafts[d].question = q /\ drafts[d].live}
OwnedTags(o) == {g \in TagIds : tags[g].owner = o /\ tags[g].live}

\* The questions a scope reaches: theirs, in a topic that is not deleted.
ReachableQuestions(o) ==
    {q \in QuestionIds : questions[q].live /\ \E t \in TopicsOf(o) : questions[q].topic = t}

\* What two calls can contend for: an owner's topics, a topic's questions, a
\* question's drafts, a tag.
Lists == Users \cup TopicIds \cup QuestionIds \cup TagIds

\* coalesce(max(position), -1) + 1 over the rows of a list.
IsNext(S, rows, p) ==
    /\ \A x \in S : rows[x].pos < p
    /\ p # 0 => \E x \in S : rows[x].pos = p - 1

\* The order a client sends lists every row exactly once.
OrderOf(S, order) ==
    /\ \A x \in S : \E i \in 1 .. Len(order) : order[i] = x
    /\ \A i \in 1 .. Len(order) : order[i] \in S
    /\ \A i, j \in 1 .. Len(order) : order[i] = order[j] => i = j

OrdersOver(S) == UNION {[1 .. n -> S] : n \in 1 .. MaxOrder}

\* The position an order gives a row.
PlaceIn(order, x) == (CHOOSE i \in 1 .. Len(order) : order[i] = x) - 1

Listed(order) == {order[i] : i \in 1 .. Len(order)}

Ops == {"idle", "createTopic", "updateTopic", "deleteTopic", "reorderTopics",
        "createTag", "updateTag", "deleteTag", "createQuestions", "createQuestion",
        "updateQuestion", "deleteQuestion", "reorderQuestions", "setQuestionDrafted",
        "createDraft", "updateDraft", "deleteDraft", "reorderDrafts"}

Calls == [op : Ops, user : Users \cup {NoOne}, scope : Users \cup {NoOne},
          at : Lists \cup DraftIds \cup {NoOne},
          tagIds : SUBSET TagIds, order : Seq(TopicIds \cup QuestionIds \cup DraftIds),
          pos : Nat, value : Names \cup Values \cup {NoOne}, color : Values \cup {NoOne},
          list : Lists \cup {NoOne}, fresh : BOOLEAN,
          edits : SUBSET {"name", "color"}]
Blank(op, u, o, at) ==
    [op |-> op, user |-> u, scope |-> o, at |-> at, tagIds |-> {}, order |-> <<>>, pos |-> 0,
     value |-> NoOne, color |-> NoOne, list |-> NoOne, fresh |-> TRUE, edits |-> {}]
Idle == Blank("idle", NoOne, NoOne, NoOne)

\* Mutant: the owner a request names is taken from anyone.
ResolveAnyScope(u, requested) == requested

\* A user is always scoped to their own rows; an administrator names an owner.
ResolveOwnerScope(u, requested) == IF u \in Admins THEN requested ELSE u
Scopes(u) == {ResolveOwnerScope(u, requested) : requested \in Users}

\* The slot is free for another call.
CanArrive(s) == calls[s].op = "idle" /\ made < MaxCalls

\* A call arrives, its checks passed, with what it read.
Arrive(s, call) ==
    /\ calls' = [calls EXCEPT ![s] = call]
    /\ made' = made + 1
    /\ UNCHANGED <<topics, tags, questions, drafts, disordered>>

\* A call that writes no order, or whose transaction was rolled back, ends.
Ends(s) ==
    /\ calls' = [calls EXCEPT ![s] = Idle]
    /\ UNCHANGED <<made, disordered>>

\* A call that wrote a list (or a tag) ends: what the other calls in flight
\* on it have read is out of date from here on.
ListWritten(s, ordered) ==
    LET list == calls[s].list IN
    /\ calls' = [x \in Slots |->
                   IF x = s THEN Idle
                   ELSE IF calls[x].list = list THEN [calls[x] EXCEPT !.fresh = FALSE]
                   ELSE calls[x]]
    /\ disordered' = IF ~calls[s].fresh THEN disordered \cup {list}
                     ELSE IF ordered THEN disordered \ {list}
                     ELSE disordered
    /\ UNCHANGED made
=============================================================================
