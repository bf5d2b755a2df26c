---------------------------- MODULE LibraryProofs ----------------------------
(***************************************************************************)
(* Ownership and order in the library, for any number of accounts, rows    *)
(* and calls in flight.                                                    *)
(*                                                                         *)
(* Ownership: every reachable state is well typed, topics carry only tags  *)
(* of their owner, only its owner and administrators change a library.     *)
(*                                                                         *)
(* A call checks at its arrival and writes at its commit.  The invariant   *)
(* says that what it checked of ownership still holds when it writes       *)
(* (Prepared): owners are given once and never change (OwnersStay), and    *)
(* whether a tag still exists is asked again by the insert.                *)
(*                                                                         *)
(* Order, from there on: topics and questions keep dense positions, drafts *)
(* positions of their own, and a tag keeps the fields no request named,    *)
(* except in the lists and tags that overlapping calls, or a client's own  *)
(* position, have disordered.  The invariant adds what a call read of its  *)
(* list: it still holds when the call commits, unless another call wrote   *)
(* the list first, which takes the call's freshness away (FreshReads,      *)
(* ListsKept).                                                             *)
(***************************************************************************)
EXTENDS Library, TLAPS

TopicOps == {"updateTopic", "deleteTopic", "createQuestions", "createQuestion", "reorderQuestions"}
QuestionOps == {"updateQuestion", "deleteQuestion", "setQuestionDrafted", "createDraft", "reorderDrafts"}

\* The session allows the scope.
Scoped(c) ==
    c.op # "idle" => /\ c.user \in Users /\ c.scope \in Users
                     /\ c.scope = c.user \/ c.user \in Admins

\* The tags of a call's request are the scope's.
TagsChecked(c) == c.op # "idle" => \A g \in c.tagIds : tags[g].owner = c.scope

\* The row a call is about is the scope's.
RowChecked(c) ==
    /\ c.op \in TopicOps => c.at \in TopicIds /\ topics[c.at].owner = c.scope
    /\ c.op \in {"updateTag", "deleteTag"} => c.at \in TagIds /\ tags[c.at].owner = c.scope
    /\ c.op \in QuestionOps =>
         /\ c.at \in QuestionIds /\ questions[c.at].topic \in TopicIds
         /\ topics[questions[c.at].topic].owner = c.scope
    /\ c.op \in {"updateDraft", "deleteDraft"} => c.at \in DraftIds

\* The rows of an order are the scope's topics, the topic's questions.
OrderChecked(c) ==
    /\ c.op = "reorderTopics" =>
         \A t \in Listed(c.order) : t \in TopicIds /\ topics[t].owner = c.scope
    /\ c.op = "reorderQuestions" =>
         \A q \in Listed(c.order) : q \in QuestionIds /\ questions[q].topic = c.at

\* The list a call writes.
ListNamed(c) ==
    /\ c.op \in {"createTopic", "deleteTopic", "reorderTopics"} => c.list = c.scope
    /\ c.op \in {"createQuestions", "createQuestion", "reorderQuestions",
                 "createDraft", "reorderDrafts", "updateTag"} => c.list = c.at
    /\ c.op = "deleteQuestion" => c.list = questions[c.at].topic

\* A field of a call fits the column it is written to.
ValueFits(c) ==
    /\ c.op = "createTag" => c.value \in Names
    /\ c.op = "updateTag" => c.value \in Names \cup {NoOne}
    /\ c.op \in {"createQuestion", "updateQuestion", "createDraft", "updateDraft"} =>
         c.value \in Values \cup {NoOne}

Prepared(c) ==
    /\ Scoped(c) /\ TagsChecked(c) /\ RowChecked(c) /\ OrderChecked(c)
    /\ ListNamed(c) /\ ValueFits(c)

CallsPrepared == \A s \in Slots : Prepared(calls[s])

\* The inductive invariant.
OwnerInv == TypeOK /\ TagsAreOwners /\ CallsPrepared

\* An owner once given stays, and a question stays in its topic.
OwnersStay ==
    /\ \A t \in TopicIds : topics[t].owner # NoOne => topics'[t].owner = topics[t].owner
    /\ \A g \in TagIds : tags[g].owner # NoOne => tags'[g].owner = tags[g].owner
    /\ \A q \in QuestionIds : questions[q].topic # NoOne => questions'[q].topic = questions[q].topic

\* What a commit may do to the calls: its own ends, the others lose freshness.
CallsAfter(s) ==
    /\ calls' \in [Slots -> Calls] /\ calls'[s] = Idle
    /\ \A x \in Slots \ {s} : calls'[x] = calls[x] \/ calls'[x] = [calls[x] EXCEPT !.fresh = FALSE]
    /\ made' = made
    /\ disordered' \subseteq Lists
\* The tables keep their types.
TablesTyped ==
    /\ topics \in [TopicIds -> TopicRow] /\ tags \in [TagIds -> TagRow]
    /\ questions \in [QuestionIds -> QuestionRow] /\ drafts \in [DraftIds -> DraftRow]

\* The rows a commit changes are its scope's.
RowsOfScope(o) ==
    /\ \A t \in TopicIds : topics'[t] # topics[t] => topics'[t].owner = o
    /\ \A g \in TagIds : tags'[g] # tags[g] => tags'[g].owner = o
    /\ \A q \in QuestionIds : questions'[q] # questions[q] =>
         questions'[q].topic \in TopicIds /\ topics'[questions'[q].topic].owner = o
    /\ \A d \in DraftIds : drafts'[d] # drafts[d] =>
         /\ drafts'[d].question \in QuestionIds
         /\ questions'[drafts'[d].question].topic \in TopicIds
         /\ topics'[questions'[drafts'[d].question].topic].owner = o

\* A commit that writes topics: each row it changes was nobody's or the scope's,
\* is the scope's, and carries tags of the scope that exist.
RewritesTopics(o) ==
    /\ topics' \in [TopicIds -> TopicRow]
    /\ \A t \in TopicIds : topics'[t] # topics[t] =>
         /\ topics[t].owner \in {NoOne, o} /\ topics'[t].owner = o
         /\ topics'[t].tags \subseteq OwnedTags(o)

\* What every commit does to the tables.
Committed(s) == TablesTyped' /\ OwnersStay /\ TagsAreOwners' /\ RowsOfScope(calls[s].scope)
-----------------------------------------------------------------------------
(* Calls arrive. *)

\* An idle slot is typed and prepared.
LEMMA IdleIsPrepared == Idle \in Calls /\ Prepared(Idle)
  <1>1. Idle \in Calls
    BY LibraryAssumption DEF Idle, Blank, Calls, Ops
  <1>2. Prepared(Idle)
    BY DEF Idle, Blank, Prepared, Scoped, TagsChecked, RowChecked, OrderChecked, ListNamed,
           ValueFits, TopicOps, QuestionOps
  <1> QED
    BY <1>1, <1>2

\* A call without arguments is typed.
LEMMA BlankIsTyped ==
    ASSUME NEW op \in Ops, NEW u \in Users, NEW o \in Users,
           NEW at \in Lists \cup DraftIds \cup {NoOne}
    PROVE  Blank(op, u, o, at) \in Calls
  BY DEF Blank, Calls

\* A call with an order for a list is typed.
LEMMA OrderIsTyped ==
    ASSUME NEW call \in Calls, NEW list \in Lists,
           NEW order \in Seq(TopicIds \cup QuestionIds \cup DraftIds)
    PROVE  [call EXCEPT !.order = order, !.list = list] \in Calls
  BY DEF Calls

\* A scope is the caller's own, unless an administrator chose it.
LEMMA ScopesAreAllowed ==
    ASSUME NEW u \in Users, NEW o \in Scopes(u)
    PROVE  o \in Users /\ (o = u \/ u \in Admins) /\ o \in Lists
  BY DEF Scopes, ResolveOwnerScope, Lists

\* A call of a topic route is prepared when it arrives.
LEMMA TopicCallsArePrepared ==
    ASSUME TypeOK, NEW s \in Slots, NEW u \in Users,
           PostTopics(s, u) \/ PatchTopic(s, u) \/ DeleteTopic(s, u) \/ PutTopicsReorder(s, u)
    PROVE  \E call \in Calls : Arrive(s, call) /\ Prepared(call)
  <1> USE DEF Prepared, Scoped, TagsChecked, RowChecked, OrderChecked, ListNamed, ValueFits,
              TopicOps, QuestionOps
  <1>1. CASE PostTopics(s, u)
    <2>1. PICK o \in Scopes(u), tagIds \in SUBSET TagIds : CreateTopicArrives(s, u, o, tagIds)
      BY <1>1 DEF PostTopics
    <2>2. PICK p \in Positions :
             /\ OwnsTags(o, tagIds)
             /\ Arrive(s, [Blank("createTopic", u, o, NoOne) EXCEPT
                             !.tagIds = tagIds, !.pos = p, !.list = o])
      BY <2>1 DEF CreateTopicArrives
    <2> DEFINE call == [Blank("createTopic", u, o, NoOne) EXCEPT !.tagIds = tagIds, !.pos = p, !.list = o]
    <2>3. o \in Users /\ (o = u \/ u \in Admins) /\ o \in Lists
      BY ScopesAreAllowed
    <2>4. p \in Nat
      BY <2>1, <2>2, <2>3, LibraryAssumption DEF Lists
    <2>5. Blank("createTopic", u, o, NoOne) \in Calls
      BY <2>3, BlankIsTyped DEF Ops, Lists
    <2>6. call \in Calls
      BY <2>3, <2>4, <2>5 DEF Calls
    <2>7. Prepared(call)
      BY <2>1, <2>2, <2>3, <2>4, LibraryAssumption DEF Blank, CreateTopicArrives, OwnsTags, OwnedTags
    <2>8. Arrive(s, call)
      BY <2>2, Zenon DEF CreateTopicArrives
    <2> HIDE DEF call
    <2> QED
      BY <2>6, <2>7, <2>8, Zenon
  <1>2. CASE PatchTopic(s, u)
    <2>1. PICK o \in Scopes(u), t \in TopicIds, tagIds \in SUBSET TagIds : UpdateTopicArrives(s, u, o, t, tagIds)
      BY <1>2 DEF PatchTopic
    <2> DEFINE call == [Blank("updateTopic", u, o, t) EXCEPT !.tagIds = tagIds]
    <2>2. o \in Users /\ (o = u \/ u \in Admins) /\ o \in Lists
      BY ScopesAreAllowed
    <2>3. Blank("updateTopic", u, o, t) \in Calls /\ t \in Lists
      BY <2>2, BlankIsTyped DEF Ops, Lists
    <2>4. call \in Calls
      BY <2>2, <2>3 DEF Calls
    <2>5. Prepared(call)
      BY <2>1, <2>2, LibraryAssumption DEF Blank, UpdateTopicArrives, OwnsTags, OwnedTags, TopicsOf
    <2>6. Arrive(s, call)
      BY <2>1, Zenon DEF UpdateTopicArrives
    <2> HIDE DEF call
    <2> QED
      BY <2>4, <2>5, <2>6, Zenon
  <1>3. CASE DeleteTopic(s, u)
    <2>1. PICK o \in Scopes(u), t \in TopicIds : DeleteTopicArrives(s, u, o, t)
      BY <1>3 DEF DeleteTopic
    <2> DEFINE call == [Blank("deleteTopic", u, o, t) EXCEPT !.pos = topics[t].pos, !.list = o]
    <2>2. o \in Users /\ (o = u \/ u \in Admins) /\ o \in Lists
      BY ScopesAreAllowed
    <2>3. topics[t].pos \in Nat
      BY <2>1, <2>2, LibraryAssumption DEF TypeOK, TopicRow
    <2>4. Blank("deleteTopic", u, o, t) \in Calls /\ t \in Lists
      BY <2>2, BlankIsTyped DEF Ops, Lists
    <2>5. call \in Calls
      BY <2>2, <2>3, <2>4 DEF Calls
    <2>6. Prepared(call)
      BY <2>1, <2>2, <2>3, LibraryAssumption DEF Blank, DeleteTopicArrives, TopicsOf
    <2>7. Arrive(s, call)
      BY <2>1, Zenon DEF DeleteTopicArrives
    <2> HIDE DEF call
    <2> QED
      BY <2>5, <2>6, <2>7, Zenon
  <1>4. CASE PutTopicsReorder(s, u)
    <2>1. PICK o \in Scopes(u), order \in OrdersOver(TopicIds) : ReorderTopicsArrives(s, u, o, order)
      BY <1>4 DEF PutTopicsReorder
    <2> DEFINE call == [Blank("reorderTopics", u, o, NoOne) EXCEPT !.order = order, !.list = o]
    <2>2. o \in Users /\ (o = u \/ u \in Admins) /\ o \in Lists
      BY ScopesAreAllowed
    <2>3. /\ order \in Seq(TopicIds \cup QuestionIds \cup DraftIds)
          /\ \A t \in Listed(order) : t \in TopicsOf(o)
      BY <2>1, <2>2, LibraryAssumption DEF OrdersOver, OrderOf, Listed, ReorderTopicsArrives
    <2>4. Blank("reorderTopics", u, o, NoOne) \in Calls
      BY <2>2, BlankIsTyped DEF Ops, Lists
    <2>5. call \in Calls
      BY <2>2, <2>3, <2>4, OrderIsTyped
    <2>6. Prepared(call)
      BY <2>1, <2>2, <2>3, LibraryAssumption DEF Blank, ReorderTopicsArrives, TopicsOf
    <2>7. Arrive(s, call)
      BY <2>1, Zenon DEF ReorderTopicsArrives
    <2> HIDE DEF call
    <2> QED
      BY <2>5, <2>6, <2>7, Zenon
  <1> QED
    BY <1>1, <1>2, <1>3, <1>4

\* A call of a tag route is prepared when it arrives.
LEMMA TagCallsArePrepared ==
    ASSUME TypeOK, NEW s \in Slots, NEW u \in Users,
           PostTags(s, u) \/ PatchTag(s, u) \/ DeleteTag(s, u)
    PROVE  \E call \in Calls : Arrive(s, call) /\ Prepared(call)
  <1> USE DEF Prepared, Scoped, TagsChecked, RowChecked, OrderChecked, ListNamed, ValueFits,
              TopicOps, QuestionOps
  <1>1. CASE PostTags(s, u)
    <2>1. PICK o \in Scopes(u), name \in Names : CreateTagArrives(s, u, o, name)
      BY <1>1 DEF PostTags
    <2> DEFINE call == [Blank("createTag", u, o, NoOne) EXCEPT !.value = name]
    <2>2. o \in Users /\ (o = u \/ u \in Admins) /\ o \in Lists
      BY ScopesAreAllowed
    <2>3. Blank("createTag", u, o, NoOne) \in Calls
      BY <2>2, BlankIsTyped DEF Ops, Lists
    <2>4. call \in Calls
      BY <2>2, <2>3 DEF Calls
    <2>5. Prepared(call)
      BY <2>1, <2>2, LibraryAssumption DEF Blank, CreateTagArrives
    <2>6. Arrive(s, call)
      BY <2>1, Zenon DEF CreateTagArrives
    <2> HIDE DEF call
    <2> QED
      BY <2>4, <2>5, <2>6, Zenon
  <1>2. CASE PatchTag(s, u)
    <2>1. PICK o \in Scopes(u), g \in TagIds, name \in Names \cup {NoOne}, color \in Values \cup {NoOne} : UpdateTagArrives(s, u, o, g, name, color)
      BY <1>2 DEF PatchTag
    <2> DEFINE value == IF name = NoOne THEN tags[g].name ELSE name
               shade == IF color = NoOne THEN tags[g].color ELSE color
               edits == {f \in {"name", "color"} : IF f = "name" THEN name # NoOne ELSE color # NoOne}
               call == [Blank("updateTag", u, o, g) EXCEPT
                          !.value = value, !.color = shade, !.edits = edits, !.list = g]
    <2>2. o \in Users /\ (o = u \/ u \in Admins) /\ o \in Lists
      BY ScopesAreAllowed
    <2>3. value \in Names \cup {NoOne} /\ shade \in Values \cup {NoOne}
      BY DEF TypeOK, TagRow
    <2>3a. edits \in SUBSET {"name", "color"}
      OBVIOUS
    <2>4. Blank("updateTag", u, o, g) \in Calls /\ g \in Lists
      BY <2>2, BlankIsTyped DEF Ops, Lists
    <2>7. Arrive(s, call)
      BY <2>1, Zenon DEF UpdateTagArrives
    <2> HIDE DEF value, shade, edits
    <2>5. call \in Calls
      BY <2>3, <2>3a, <2>4 DEF Calls
    <2>6. Prepared(call)
      BY <2>1, <2>2, <2>3, LibraryAssumption DEF Blank, UpdateTagArrives, OwnedTags
    <2> HIDE DEF call
    <2> QED
      BY <2>5, <2>6, <2>7, Zenon
  <1>3. CASE DeleteTag(s, u)
    <2>1. PICK o \in Scopes(u), g \in TagIds : DeleteTagArrives(s, u, o, g)
      BY <1>3 DEF DeleteTag
    <2> DEFINE call == Blank("deleteTag", u, o, g)
    <2>2. o \in Users /\ (o = u \/ u \in Admins) /\ o \in Lists
      BY ScopesAreAllowed
    <2>3. Blank("deleteTag", u, o, g) \in Calls /\ g \in Lists
      BY <2>2, BlankIsTyped DEF Ops, Lists
    <2>4. call \in Calls
      BY <2>2, <2>3 DEF Calls
    <2>5. Prepared(call)
      BY <2>1, <2>2, LibraryAssumption DEF Blank, DeleteTagArrives, OwnedTags
    <2>6. Arrive(s, call)
      BY <2>1, Zenon DEF DeleteTagArrives
    <2> HIDE DEF call
    <2> QED
      BY <2>4, <2>5, <2>6, Zenon
  <1> QED
    BY <1>1, <1>2, <1>3

\* A call of a question route is prepared when it arrives.
LEMMA QuestionCallsArePrepared ==
    ASSUME TypeOK, NEW s \in Slots, NEW u \in Users,
           PostQuestionsBulk(s, u) \/ PostQuestions(s, u) \/ PatchQuestion(s, u) \/ DeleteQuestion(s, u) \/ PutQuestionsReorder(s, u) \/ PutDrafted(s, u)
    PROVE  \E call \in Calls : Arrive(s, call) /\ Prepared(call)
  <1> USE DEF Prepared, Scoped, TagsChecked, RowChecked, OrderChecked, ListNamed, ValueFits,
              TopicOps, QuestionOps
  <1>1. CASE PostQuestionsBulk(s, u)
    <2>1. PICK o \in Scopes(u), t \in TopicIds : CreateQuestionsArrives(s, u, o, t)
      BY <1>1 DEF PostQuestionsBulk
    <2>2. PICK p \in Positions :
             /\ t \in TopicsOf(o)
             /\ Arrive(s, [Blank("createQuestions", u, o, t) EXCEPT !.pos = p, !.list = t])
      BY <2>1 DEF CreateQuestionsArrives
    <2> DEFINE call == [Blank("createQuestions", u, o, t) EXCEPT !.pos = p, !.list = t]
    <2>3. o \in Users /\ (o = u \/ u \in Admins) /\ o \in Lists
      BY ScopesAreAllowed
    <2>4. p \in Nat
      BY <2>1, <2>2, <2>3, LibraryAssumption DEF Lists
    <2>5. Blank("createQuestions", u, o, t) \in Calls /\ t \in Lists
      BY <2>3, BlankIsTyped DEF Ops, Lists
    <2>6. call \in Calls
      BY <2>3, <2>4, <2>5 DEF Calls
    <2>7. Prepared(call)
      BY <2>1, <2>2, <2>3, <2>4, LibraryAssumption DEF Blank, CreateQuestionsArrives, TopicsOf
    <2>8. Arrive(s, call)
      BY <2>2, Zenon DEF CreateQuestionsArrives
    <2> HIDE DEF call
    <2> QED
      BY <2>6, <2>7, <2>8, Zenon
  <1>2. CASE PostQuestions(s, u)
    <2>1. PICK o \in Scopes(u), t \in TopicIds, p \in Positions, prompt \in Values :
             CreateQuestionArrives(s, u, o, t, p, prompt)
      BY <1>2 DEF PostQuestions
    <2> DEFINE call == [Blank("createQuestion", u, o, t) EXCEPT 
         !.value = prompt, !.pos = p, !.list = t, !.fresh = IsNext(QuestionsOf(t), questions, p)]
    <2>2. o \in Users /\ (o = u \/ u \in Admins) /\ o \in Lists
      BY ScopesAreAllowed
    <2>3. p \in Nat /\ IsNext(QuestionsOf(t), questions, p) \in BOOLEAN
      BY <2>1, <2>2, LibraryAssumption DEF IsNext
    <2>4. Blank("createQuestion", u, o, t) \in Calls /\ t \in Lists
      BY <2>2, BlankIsTyped DEF Ops, Lists
    <2>5. call \in Calls
      BY <2>2, <2>3, <2>4 DEF Calls
    <2>6. Prepared(call)
      BY <2>1, <2>2, <2>3, LibraryAssumption DEF Blank, CreateQuestionArrives, TopicsOf
    <2>7. Arrive(s, call)
      BY <2>1, Zenon DEF CreateQuestionArrives
    <2> HIDE DEF call
    <2> QED
      BY <2>5, <2>6, <2>7, Zenon
  <1>3. CASE PatchQuestion(s, u)
    <2>1. PICK o \in Scopes(u), q \in QuestionIds, prompt \in Values \cup {NoOne} :
             UpdateQuestionArrives(s, u, o, q, prompt)
      BY <1>3 DEF PatchQuestion
    <2> DEFINE call == [Blank("updateQuestion", u, o, q) EXCEPT !.value = IF prompt = NoOne THEN questions[q].prompt ELSE prompt]
    <2>2. o \in Users /\ (o = u \/ u \in Admins) /\ o \in Lists
      BY ScopesAreAllowed
    <2>3. questions[q].prompt \in Values \cup {NoOne}
      BY <2>1, <2>2, LibraryAssumption DEF TypeOK, QuestionRow
    <2>4. Blank("updateQuestion", u, o, q) \in Calls /\ q \in Lists
      BY <2>2, BlankIsTyped DEF Ops, Lists
    <2>5. call \in Calls
      BY <2>2, <2>3, <2>4 DEF Calls
    <2>6. Prepared(call)
      BY <2>1, <2>2, <2>3, LibraryAssumption DEF Blank, UpdateQuestionArrives, ReachableQuestions, TopicsOf
    <2>7. Arrive(s, call)
      BY <2>1, Zenon DEF UpdateQuestionArrives
    <2> HIDE DEF call
    <2> QED
      BY <2>5, <2>6, <2>7, Zenon
  <1>4. CASE DeleteQuestion(s, u)
    <2>1. PICK o \in Scopes(u), q \in QuestionIds : DeleteQuestionArrives(s, u, o, q)
      BY <1>4 DEF DeleteQuestion
    <2> DEFINE call == [Blank("deleteQuestion", u, o, q) EXCEPT !.pos = questions[q].pos, !.list = questions[q].topic]
    <2>2. o \in Users /\ (o = u \/ u \in Admins) /\ o \in Lists
      BY ScopesAreAllowed
    <2>3. /\ questions[q].pos \in Nat
          /\ questions[q].topic \in TopicIds /\ questions[q].topic \in Lists
      BY <2>1 DEF TypeOK, QuestionRow, DeleteQuestionArrives, ReachableQuestions, TopicsOf, Lists
    <2>4. Blank("deleteQuestion", u, o, q) \in Calls /\ q \in Lists
      BY <2>2, BlankIsTyped DEF Ops, Lists
    <2>5. call \in Calls
      BY <2>2, <2>3, <2>4 DEF Calls
    <2>6. Prepared(call)
      BY <2>1, <2>2, <2>3, LibraryAssumption DEF Blank, DeleteQuestionArrives, ReachableQuestions, TopicsOf
    <2>7. Arrive(s, call)
      BY <2>1, Zenon DEF DeleteQuestionArrives
    <2> HIDE DEF call
    <2> QED
      BY <2>5, <2>6, <2>7, Zenon
  <1>5. CASE PutQuestionsReorder(s, u)
    <2>1. PICK o \in Scopes(u), t \in TopicIds, order \in OrdersOver(QuestionIds) :
             ReorderQuestionsArrives(s, u, o, t, order)
      BY <1>5 DEF PutQuestionsReorder
    <2> DEFINE call == [Blank("reorderQuestions", u, o, t) EXCEPT !.order = order, !.list = t]
    <2>2. o \in Users /\ (o = u \/ u \in Admins) /\ o \in Lists
      BY ScopesAreAllowed
    <2>3. /\ order \in Seq(TopicIds \cup QuestionIds \cup DraftIds)
          /\ \A q \in Listed(order) : q \in QuestionsOf(t)
      BY <2>1, <2>2, LibraryAssumption DEF OrdersOver, OrderOf, Listed, ReorderQuestionsArrives
    <2>4. Blank("reorderQuestions", u, o, t) \in Calls /\ t \in Lists
      BY <2>2, BlankIsTyped DEF Ops, Lists
    <2>5. call \in Calls
      BY <2>2, <2>3, <2>4, OrderIsTyped
    <2>6. Prepared(call)
      BY <2>1, <2>2, <2>3, LibraryAssumption DEF Blank, ReorderQuestionsArrives, TopicsOf, QuestionsOf
    <2>7. Arrive(s, call)
      BY <2>1, Zenon DEF ReorderQuestionsArrives
    <2> HIDE DEF call
    <2> QED
      BY <2>5, <2>6, <2>7, Zenon
  <1>6. CASE PutDrafted(s, u)
    <2>1. PICK o \in Scopes(u), q \in QuestionIds, drafted \in BOOLEAN :
             SetQuestionDraftedArrives(s, u, o, q, drafted)
      BY <1>6 DEF PutDrafted
    <2> DEFINE call == [Blank("setQuestionDrafted", u, o, q) EXCEPT !.pos = IF drafted THEN 1 ELSE 0]
    <2>2. o \in Users /\ (o = u \/ u \in Admins) /\ o \in Lists
      BY ScopesAreAllowed
    <2>3. Blank("setQuestionDrafted", u, o, q) \in Calls /\ q \in Lists
      BY <2>2, BlankIsTyped DEF Ops, Lists
    <2>4. call \in Calls
      BY <2>2, <2>3 DEF Calls
    <2>5. Prepared(call)
      BY <2>1, <2>2, LibraryAssumption DEF Blank, SetQuestionDraftedArrives, ReachableQuestions, TopicsOf
    <2>6. Arrive(s, call)
      BY <2>1, Zenon DEF SetQuestionDraftedArrives
    <2> HIDE DEF call
    <2> QED
      BY <2>4, <2>5, <2>6, Zenon
  <1> QED
    BY <1>1, <1>2, <1>3, <1>4, <1>5, <1>6

\* A call of a draft route is prepared when it arrives.
LEMMA DraftCallsArePrepared ==
    ASSUME TypeOK, NEW s \in Slots, NEW u \in Users,
           PostDrafts(s, u) \/ PatchDraft(s, u) \/ DeleteDraft(s, u) \/ PutDraftsReorder(s, u)
    PROVE  \E call \in Calls : Arrive(s, call) /\ Prepared(call)
  <1> USE DEF Prepared, Scoped, TagsChecked, RowChecked, OrderChecked, ListNamed, ValueFits,
              TopicOps, QuestionOps
  <1>1. CASE PostDrafts(s, u)
    <2>1. PICK o \in Scopes(u), q \in QuestionIds, content \in Values : CreateDraftArrives(s, u, o, q, content)
      BY <1>1 DEF PostDrafts
    <2>2. PICK p \in Positions :
             /\ q \in ReachableQuestions(o)
             /\ Arrive(s, [Blank("createDraft", u, o, q) EXCEPT
                             !.value = content, !.pos = p, !.list = q])
      BY <2>1 DEF CreateDraftArrives
    <2> DEFINE call == [Blank("createDraft", u, o, q) EXCEPT !.value = content, !.pos = p, !.list = q]
    <2>3. o \in Users /\ (o = u \/ u \in Admins) /\ o \in Lists
      BY ScopesAreAllowed
    <2>4. p \in Nat
      BY <2>1, <2>2, <2>3, LibraryAssumption DEF Lists
    <2>5. Blank("createDraft", u, o, q) \in Calls /\ q \in Lists
      BY <2>3, BlankIsTyped DEF Ops, Lists
    <2>6. call \in Calls
      BY <2>3, <2>4, <2>5 DEF Calls
    <2>7. Prepared(call)
      BY <2>1, <2>2, <2>3, <2>4, LibraryAssumption DEF Blank, CreateDraftArrives, ReachableQuestions, TopicsOf
    <2>8. Arrive(s, call)
      BY <2>2, Zenon DEF CreateDraftArrives
    <2> HIDE DEF call
    <2> QED
      BY <2>6, <2>7, <2>8, Zenon
  <1>2. CASE PatchDraft(s, u)
    <2>1. PICK o \in Scopes(u), d \in DraftIds, content \in Values : UpdateDraftArrives(s, u, o, d, content)
      BY <1>2 DEF PatchDraft
    <2> DEFINE call == [Blank("updateDraft", u, o, d) EXCEPT !.value = content]
    <2>2. o \in Users /\ (o = u \/ u \in Admins) /\ o \in Lists
      BY ScopesAreAllowed
    <2>3. Blank("updateDraft", u, o, d) \in Calls
      BY <2>2, BlankIsTyped DEF Ops, Lists
    <2>4. call \in Calls
      BY <2>2, <2>3 DEF Calls
    <2>5. Prepared(call)
      BY <2>1, <2>2, LibraryAssumption DEF Blank, UpdateDraftArrives
    <2>6. Arrive(s, call)
      BY <2>1, Zenon DEF UpdateDraftArrives
    <2> HIDE DEF call
    <2> QED
      BY <2>4, <2>5, <2>6, Zenon
  <1>3. CASE DeleteDraft(s, u)
    <2>1. PICK o \in Scopes(u), d \in DraftIds : DeleteDraftArrives(s, u, o, d)
      BY <1>3 DEF DeleteDraft
    <2> DEFINE call == Blank("deleteDraft", u, o, d)
    <2>2. o \in Users /\ (o = u \/ u \in Admins) /\ o \in Lists
      BY ScopesAreAllowed
    <2>3. Blank("deleteDraft", u, o, d) \in Calls
      BY <2>2, BlankIsTyped DEF Ops, Lists
    <2>4. call \in Calls
      BY <2>2, <2>3 DEF Calls
    <2>5. Prepared(call)
      BY <2>1, <2>2, LibraryAssumption DEF Blank, DeleteDraftArrives
    <2>6. Arrive(s, call)
      BY <2>1, Zenon DEF DeleteDraftArrives
    <2> HIDE DEF call
    <2> QED
      BY <2>4, <2>5, <2>6, Zenon
  <1>4. CASE PutDraftsReorder(s, u)
    <2>1. PICK o \in Scopes(u), q \in QuestionIds, order \in OrdersOver(DraftIds) :
             ReorderDraftsArrives(s, u, o, q, order)
      BY <1>4 DEF PutDraftsReorder
    <2> DEFINE call == [Blank("reorderDrafts", u, o, q) EXCEPT !.order = order, !.list = q]
    <2>2. o \in Users /\ (o = u \/ u \in Admins) /\ o \in Lists
      BY ScopesAreAllowed
    <2>3. order \in Seq(TopicIds \cup QuestionIds \cup DraftIds)
      BY <2>1, <2>2, LibraryAssumption DEF OrdersOver
    <2>4. Blank("reorderDrafts", u, o, q) \in Calls /\ q \in Lists
      BY <2>2, BlankIsTyped DEF Ops, Lists
    <2>5. call \in Calls
      BY <2>2, <2>3, <2>4, OrderIsTyped
    <2>6. Prepared(call)
      BY <2>1, <2>2, <2>3, LibraryAssumption DEF Blank, ReorderDraftsArrives, ReachableQuestions, TopicsOf
    <2>7. Arrive(s, call)
      BY <2>1, Zenon DEF ReorderDraftsArrives
    <2> HIDE DEF call
    <2> QED
      BY <2>5, <2>6, <2>7, Zenon
  <1> QED
    BY <1>1, <1>2, <1>3, <1>4

-----------------------------------------------------------------------------
(* Calls commit. *)

\* A call that ends without a list.
LEMMA EndsItsCall ==
    ASSUME TypeOK, NEW s \in Slots, Ends(s)
    PROVE  CallsAfter(s)
  BY IdleIsPrepared DEF TypeOK, Ends, CallsAfter

\* A call that wrote its list.
LEMMA EndsWithList ==
    ASSUME TypeOK, NEW s \in Slots, NEW ordered \in BOOLEAN, calls[s].list \in Lists,
           ListWritten(s, ordered)
    PROVE  CallsAfter(s)
  <1>1. \A x \in Slots \ {s} :
           calls'[x] = calls[x] \/ calls'[x] = [calls[x] EXCEPT !.fresh = FALSE]
    BY DEF ListWritten
  <1>2. \A call \in Calls : [call EXCEPT !.fresh = FALSE] \in Calls
    BY ZenonT(60) DEF Calls
  <1>3. calls'[s] = Idle /\ calls' \in [Slots -> Calls]
    BY <1>2, IdleIsPrepared DEF TypeOK, ListWritten
  <1> QED
    BY <1>1, <1>3 DEF TypeOK, ListWritten, CallsAfter

\* What a call checked of ownership holds as long as owners stay.
LEMMA PreparedIsKept ==
    ASSUME OwnersStay, NEW c \in Calls, Prepared(c)
    PROVE  Prepared(c)'
  <1>1. c.op # "idle" => c.scope # NoOne
    BY LibraryAssumption DEF Prepared, Scoped
  <1>2. TagsChecked(c)'
    <2>1. \A g \in c.tagIds : g \in TagIds
      BY DEF Calls
    <2> QED
      BY <1>1, <2>1 DEF Prepared, TagsChecked, OwnersStay
  <1>3. RowChecked(c)'
    BY <1>1, LibraryAssumption DEF Prepared, RowChecked, OwnersStay, TopicOps, QuestionOps
  <1>4. OrderChecked(c)'
    BY <1>1, <1>3, LibraryAssumption DEF Prepared, OrderChecked, RowChecked, OwnersStay, TopicOps
  <1>5. ListNamed(c)'
    BY <1>1, LibraryAssumption DEF Prepared, ListNamed, RowChecked, OwnersStay, QuestionOps
  <1> QED
    BY <1>2, <1>3, <1>4, <1>5 DEF Prepared, Scoped, ValueFits

\* The call a slot serves, with its checks, before it commits.
LEMMA CallAtCommit ==
    ASSUME OwnerInv, NEW s \in Slots, calls[s].op # "idle"
    PROVE  /\ calls[s] \in Calls /\ Prepared(calls[s])
           /\ calls[s].scope \in Users /\ calls[s].scope # NoOne /\ calls[s].pos \in Nat
           /\ calls[s].tagIds \in SUBSET TagIds
  BY LibraryAssumption DEF OwnerInv, TypeOK, CallsPrepared, Prepared, Scoped, Calls

\* Commits that write topics.
LEMMA TopicCommits ==
    ASSUME OwnerInv, NEW s \in Slots,
           CreateTopicCommits(s) \/ UpdateTopicCommits(s)
             \/ DeleteTopicCommits(s) \/ ReorderTopicsCommits(s)
    PROVE  Committed(s) /\ CallsAfter(s)
  <1> DEFINE c == calls[s]
  <1>1. /\ c.op \in {"createTopic", "updateTopic", "deleteTopic", "reorderTopics"}
        /\ UNCHANGED <<tags, questions, drafts>>
    BY DEF CreateTopicCommits, UpdateTopicCommits, DeleteTopicCommits, ReorderTopicsCommits
  <1>2. /\ c \in Calls /\ Prepared(c) /\ c.scope \in Users /\ c.scope # NoOne
        /\ c.pos \in Nat /\ c.tagIds \in SUBSET TagIds /\ c.scope \in Lists
    BY <1>1, CallAtCommit DEF Lists
  <1>3. CallsAfter(s)
    BY <1>1, <1>2, EndsItsCall, EndsWithList
    DEF OwnerInv, Prepared, ListNamed,
        CreateTopicCommits, UpdateTopicCommits, DeleteTopicCommits, ReorderTopicsCommits
  <1>4. ASSUME RewritesTopics(c.scope) PROVE Committed(s)
    <2>1. TablesTyped' /\ RowsOfScope(c.scope) /\ OwnersStay
      BY <1>1, <1>4 DEF RewritesTopics, TablesTyped, RowsOfScope, OwnersStay, OwnerInv, TypeOK
    <2>2. TagsAreOwners'
      BY <1>1, <1>4 DEF RewritesTopics, OwnerInv, TagsAreOwners, OwnedTags
    <2> QED
      BY <2>1, <2>2 DEF Committed
  <1>5. CASE topics' = topics
    BY <1>3, <1>4, <1>5 DEF OwnerInv, TypeOK, RewritesTopics
  <1>6. CASE CreateTopicCommits(s) /\ topics' # topics
    <2>1. PICK t \in TopicIds :
             /\ topics[t] = NoTopic /\ TagsExist(c.tagIds)
             /\ topics' = [topics EXCEPT ![t] =
                  [owner |-> c.scope, live |-> TRUE, pos |-> c.pos, tags |-> c.tagIds]]
      BY <1>6 DEF CreateTopicCommits
    <2>2. c.tagIds \subseteq OwnedTags(c.scope)
      BY <1>1, <1>2, <2>1 DEF TagsExist, Prepared, TagsChecked, OwnedTags
    <2>9. RewritesTopics(c.scope)
      BY <1>2, <2>1, <2>2 DEF RewritesTopics, OwnerInv, TypeOK, TopicRow, NoTopic
    <2> QED
      BY <1>3, <1>4, <2>9
  <1>7. CASE UpdateTopicCommits(s) /\ topics' # topics
    <2>1. TagsExist(c.tagIds) /\ topics' = [topics EXCEPT ![c.at].tags = c.tagIds]
      BY <1>7 DEF UpdateTopicCommits
    <2>2. c.tagIds \subseteq OwnedTags(c.scope)
      BY <1>1, <1>2, <2>1 DEF TagsExist, Prepared, TagsChecked, OwnedTags
    <2>3. c.at \in TopicIds /\ topics[c.at].owner = c.scope
      BY <1>2, <1>7 DEF UpdateTopicCommits, Prepared, RowChecked, TopicOps
    <2>9. RewritesTopics(c.scope)
      BY <1>2, <2>1, <2>2, <2>3 DEF RewritesTopics, OwnerInv, TypeOK, TopicRow
    <2> QED
      BY <1>3, <1>4, <2>9
  <1>8. CASE DeleteTopicCommits(s) /\ topics' # topics
    <2>1. topics' = [t \in TopicIds |->
               IF t = c.at THEN [topics[t] EXCEPT !.live = FALSE]
               ELSE IF t \in TopicsOf(c.scope) /\ topics[t].pos > c.pos
                 THEN [topics[t] EXCEPT !.pos = @ - 1]
               ELSE topics[t]]
      BY <1>8 DEF DeleteTopicCommits
    <2>2. topics[c.at].owner = c.scope
      BY <1>2, <1>8 DEF DeleteTopicCommits, Prepared, RowChecked, TopicOps
    <2>3. topics' \in [TopicIds -> TopicRow]
      <3>1. \A t \in TopicIds : topics[t].pos > c.pos => topics[t].pos - 1 \in Nat
        BY <1>2 DEF OwnerInv, TypeOK, TopicRow
      <3> QED
        BY <2>1, <3>1 DEF OwnerInv, TypeOK, TopicRow
    <2>4. \A t \in TopicIds : topics'[t] # topics[t] =>
             /\ topics[t].owner = c.scope /\ topics'[t].owner = c.scope
             /\ topics'[t].tags = topics[t].tags
      <3> SUFFICES ASSUME NEW t \in TopicIds, topics'[t] # topics[t]
                   PROVE  /\ topics[t].owner = c.scope /\ topics'[t].owner = c.scope
                          /\ topics'[t].tags = topics[t].tags
        OBVIOUS
      <3>1. topics[t].owner = c.scope
        BY <2>1, <2>2 DEF TopicsOf
      <3> QED
        BY <2>1, <3>1 DEF OwnerInv, TypeOK, TopicRow
    <2>9. RewritesTopics(c.scope)
      BY <2>3, <2>4 DEF RewritesTopics, OwnerInv, TagsAreOwners
    <2> QED
      BY <1>3, <1>4, <2>9
  <1>9. CASE ReorderTopicsCommits(s) /\ topics' # topics
    <2>1. topics' = [t \in TopicIds |->
             IF t \in Listed(c.order) THEN [topics[t] EXCEPT !.pos = PlaceIn(c.order, t)]
                                      ELSE topics[t]]
      BY <1>9 DEF ReorderTopicsCommits
    <2>2. \A t \in Listed(c.order) : topics[t].owner = c.scope /\ PlaceIn(c.order, t) \in Nat
      <3>1. \A t \in Listed(c.order) : PlaceIn(c.order, t) \in Nat
        BY <1>2 DEF Listed, PlaceIn, Calls
      <3> QED
        BY <1>2, <1>9, <3>1 DEF ReorderTopicsCommits, Prepared, OrderChecked
    <2>9. RewritesTopics(c.scope)
      BY <2>1, <2>2 DEF RewritesTopics, OwnerInv, TagsAreOwners, TypeOK, TopicRow
    <2> QED
      BY <1>3, <1>4, <2>9
  <1> QED
    BY <1>3, <1>5, <1>6, <1>7, <1>8, <1>9

\* Commits that write tags.
LEMMA TagCommits ==
    ASSUME OwnerInv, NEW s \in Slots,
           CreateTagCommits(s) \/ UpdateTagCommits(s) \/ DeleteTagCommits(s)
    PROVE  Committed(s) /\ CallsAfter(s)
  <1> DEFINE c == calls[s]
  <1>1. /\ c.op \in {"createTag", "updateTag", "deleteTag"}
        /\ UNCHANGED <<questions, drafts>>
    BY DEF CreateTagCommits, UpdateTagCommits, DeleteTagCommits
  <1>2. /\ c \in Calls /\ Prepared(c) /\ c.scope \in Users /\ c.scope # NoOne
    BY <1>1, CallAtCommit
  <1>3. CallsAfter(s)
    <2>1. c.op = "updateTag" => c.list \in Lists
      BY <1>2 DEF Prepared, ListNamed, RowChecked, Lists
    <2> QED
      BY <1>1, <2>1, EndsItsCall, EndsWithList
      DEF OwnerInv, CreateTagCommits, UpdateTagCommits, DeleteTagCommits
  <1>4. CASE tags' = tags /\ topics' = topics
    BY <1>1, <1>3, <1>4
    DEF Committed, TablesTyped, RowsOfScope, OwnersStay, OwnerInv, TypeOK, TagsAreOwners, OwnedTags
  <1>5. CASE CreateTagCommits(s) /\ tags' # tags
    <2>1. PICK g \in TagIds :
             /\ tags[g] = NoTag
             /\ tags' = [tags EXCEPT ![g] =
                  [owner |-> c.scope, live |-> TRUE, name |-> c.value, color |-> NoOne]]
      BY <1>5 DEF CreateTagCommits
    <2>2. c.value \in Names /\ topics' = topics
      BY <1>2, <1>5 DEF CreateTagCommits, Prepared, ValueFits
    <2>3. TablesTyped'
      BY <1>1, <1>2, <2>1, <2>2 DEF TablesTyped, OwnerInv, TypeOK, TagRow
    <2>4. TagsAreOwners'
      BY <2>1, <2>2 DEF TagsAreOwners, OwnedTags, OwnerInv, TypeOK, NoTag
    <2> QED
      BY <1>1, <1>3, <2>1, <2>2, <2>3, <2>4
      DEF Committed, RowsOfScope, OwnersStay, OwnerInv, TypeOK, NoTag
  <1>6. CASE UpdateTagCommits(s) /\ tags' # tags
    <2>1. /\ tags' = [tags EXCEPT ![c.at].name = c.value, ![c.at].color = c.color]
          /\ topics' = topics
      BY <1>6 DEF UpdateTagCommits
    <2>2. /\ c.at \in TagIds /\ tags[c.at].owner = c.scope
          /\ c.value \in Names \cup {NoOne} /\ c.color \in Values \cup {NoOne}
      BY <1>2, <1>6 DEF UpdateTagCommits, Prepared, RowChecked, ValueFits, Calls
    <2>3. TablesTyped'
      BY <1>1, <2>1, <2>2 DEF TablesTyped, OwnerInv, TypeOK, TagRow
    <2>4. \A g \in TagIds : tags'[g].owner = tags[g].owner /\ tags'[g].live = tags[g].live
      BY <2>1, <2>2 DEF OwnerInv, TypeOK, TagRow
    <2>5. TagsAreOwners'
      BY <2>1, <2>4 DEF TagsAreOwners, OwnedTags, OwnerInv, TypeOK
    <2> QED
      BY <1>1, <1>3, <2>1, <2>2, <2>3, <2>4, <2>5
      DEF Committed, RowsOfScope, OwnersStay, OwnerInv, TypeOK
  <1>7. CASE DeleteTagCommits(s)
    <2>1. /\ topics' = [t \in TopicIds |-> [topics[t] EXCEPT !.tags = @ \ {c.at}]]
          /\ tags' = [tags EXCEPT ![c.at].live = FALSE]
      BY <1>7 DEF DeleteTagCommits
    <2>2. c.at \in TagIds /\ tags[c.at].owner = c.scope
      BY <1>2, <1>7 DEF DeleteTagCommits, Prepared, RowChecked
    <2>3. TablesTyped'
      <3>1. topics' \in [TopicIds -> TopicRow]
        BY <2>1 DEF OwnerInv, TypeOK, TopicRow
      <3>2. tags' \in [TagIds -> TagRow]
        BY <2>1 DEF OwnerInv, TypeOK, TagRow
      <3> QED
        BY <1>1, <3>1, <3>2 DEF TablesTyped, OwnerInv, TypeOK
    <2>4. \A t \in TopicIds :
             /\ topics'[t].owner = topics[t].owner /\ topics'[t].tags = topics[t].tags \ {c.at}
             /\ topics'[t] # topics[t] => c.at \in topics[t].tags
      BY <2>1 DEF OwnerInv, TypeOK, TopicRow
    <2>5. \A g \in TagIds :
             /\ tags'[g].owner = tags[g].owner
             /\ g # c.at => tags'[g] = tags[g]
      BY <2>1 DEF OwnerInv, TypeOK, TagRow
    <2>6. TagsAreOwners'
      BY <2>4, <2>5 DEF OwnerInv, TagsAreOwners, OwnedTags
    <2>7. \A t \in TopicIds : topics'[t] # topics[t] => topics'[t].owner = c.scope
      BY <2>2, <2>4 DEF OwnerInv, TagsAreOwners, OwnedTags
    <2> QED
      BY <1>1, <1>3, <2>2, <2>3, <2>4, <2>5, <2>6, <2>7
      DEF Committed, RowsOfScope, OwnersStay
  <1>8. tags' # tags \/ topics' # topics => tags' # tags \/ DeleteTagCommits(s)
    BY DEF CreateTagCommits, UpdateTagCommits
  <1> QED
    BY <1>4, <1>5, <1>6, <1>7, <1>8

\* Commits that write questions.  Enough: the rows they change keep their topic,
\* or are new, and the topic is the scope's.
LEMMA QuestionCommits ==
    ASSUME OwnerInv, NEW s \in Slots,
           \/ CreateQuestionsCommits(s) \/ CreateQuestionCommits(s)
           \/ UpdateQuestionCommits(s) \/ DeleteQuestionCommits(s)
           \/ ReorderQuestionsCommits(s) \/ SetQuestionDraftedCommits(s)
    PROVE  Committed(s) /\ CallsAfter(s)
  <1> DEFINE c == calls[s]
  <1>1. /\ c.op \in {"createQuestions", "createQuestion", "updateQuestion", "deleteQuestion",
                     "reorderQuestions", "setQuestionDrafted"}
        /\ UNCHANGED <<topics, tags, drafts>>
    BY DEF CreateQuestionsCommits, CreateQuestionCommits, UpdateQuestionCommits,
           DeleteQuestionCommits, ReorderQuestionsCommits, SetQuestionDraftedCommits
  <1>2. /\ c \in Calls /\ Prepared(c) /\ c.scope \in Users /\ c.scope # NoOne /\ c.pos \in Nat
        /\ c.value \in Names \cup Values \cup {NoOne}
    BY <1>1, CallAtCommit DEF Calls
  <1>3. /\ c.op \in {"createQuestions", "createQuestion", "reorderQuestions"} =>
             c.at \in TopicIds /\ topics[c.at].owner = c.scope
        /\ c.op \in {"updateQuestion", "deleteQuestion", "setQuestionDrafted"} =>
             /\ c.at \in QuestionIds /\ questions[c.at].topic \in TopicIds
             /\ topics[questions[c.at].topic].owner = c.scope
    BY <1>2 DEF Prepared, RowChecked, TopicOps, QuestionOps
  <1>4. c.op \in {"createQuestions", "createQuestion", "deleteQuestion", "reorderQuestions"} =>
           c.list \in Lists
    BY <1>2, <1>3 DEF Prepared, ListNamed, Lists
  <1>5. CallsAfter(s)
    BY <1>1, <1>4, EndsItsCall, EndsWithList
    DEF OwnerInv, CreateQuestionsCommits, CreateQuestionCommits, UpdateQuestionCommits,
        DeleteQuestionCommits, ReorderQuestionsCommits, SetQuestionDraftedCommits
  <1>6. ASSUME questions' \in [QuestionIds -> QuestionRow], NEW t \in TopicIds,
               topics[t].owner = c.scope,
               \A q \in QuestionIds : questions'[q] # questions[q] =>
                  questions[q].topic \in {NoOne, t} /\ questions'[q].topic = t
        PROVE  Committed(s)
    BY <1>1, <1>6
    DEF Committed, TablesTyped, RowsOfScope, OwnersStay, OwnerInv, TypeOK, TagsAreOwners, OwnedTags
  <1>7. CASE CreateQuestionsCommits(s)
    <2>1. PICK n \in 1 .. MaxOrder : \E new \in [1 .. n -> QuestionIds], prompt \in Values :
             /\ \A i, j \in 1 .. n : new[i] = new[j] => i = j
             /\ \A i \in 1 .. n : questions[new[i]] = NoQuestion
             /\ questions' = [q \in QuestionIds |->
                  IF \E i \in 1 .. n : new[i] = q
                  THEN NewQuestion(c.at, c.pos + (CHOOSE i \in 1 .. n : new[i] = q) - 1, prompt)
                  ELSE questions[q]]
      BY <1>7 DEF CreateQuestionsCommits
    <2>2. PICK new \in [1 .. n -> QuestionIds], prompt \in Values :
             /\ \A i \in 1 .. n : questions[new[i]] = NoQuestion
             /\ questions' = [q \in QuestionIds |->
                  IF \E i \in 1 .. n : new[i] = q
                  THEN NewQuestion(c.at, c.pos + (CHOOSE i \in 1 .. n : new[i] = q) - 1, prompt)
                  ELSE questions[q]]
      BY <2>1
    <2>3. c.at \in TopicIds /\ topics[c.at].owner = c.scope
      BY <1>3, <1>7 DEF CreateQuestionsCommits
    <2>4. \A q \in QuestionIds : questions'[q] # questions[q] =>
             questions[q].topic = NoOne /\ questions'[q].topic = c.at
      BY <2>2 DEF NewQuestion, NoQuestion
    <2>5. \A q \in QuestionIds : (\E i \in 1 .. n : new[i] = q) =>
             c.pos + (CHOOSE i \in 1 .. n : new[i] = q) - 1 \in Nat
      BY <1>2, <2>1
    <2>6. questions' \in [QuestionIds -> QuestionRow]
      BY <2>2, <2>3, <2>5 DEF OwnerInv, TypeOK, QuestionRow, NewQuestion
    <2> QED
      BY <1>5, <1>6, <2>3, <2>4, <2>6
  <1>8. CASE CreateQuestionCommits(s)
    <2>1. PICK q \in QuestionIds :
             /\ questions[q] = NoQuestion
             /\ questions' = [questions EXCEPT ![q] = NewQuestion(c.at, c.pos, c.value)]
      BY <1>8 DEF CreateQuestionCommits
    <2>2. /\ c.at \in TopicIds /\ topics[c.at].owner = c.scope
          /\ c.value \in Values \cup {NoOne}
      BY <1>2, <1>3, <1>8 DEF CreateQuestionCommits, Prepared, ValueFits
    <2>3. questions' \in [QuestionIds -> QuestionRow]
      BY <1>2, <2>1, <2>2 DEF OwnerInv, TypeOK, QuestionRow, NewQuestion
    <2>4. \A r \in QuestionIds : questions'[r] # questions[r] =>
             questions[r].topic = NoOne /\ questions'[r].topic = c.at
      BY <2>1 DEF NewQuestion, NoQuestion, OwnerInv, TypeOK
    <2> QED
      BY <1>5, <1>6, <2>2, <2>3, <2>4
  <1>9. CASE UpdateQuestionCommits(s) \/ SetQuestionDraftedCommits(s)
    <2>1. PICK prompt \in Values \cup {NoOne}, drafted \in BOOLEAN :
             questions' = [questions EXCEPT ![c.at].prompt = prompt, ![c.at].drafted = drafted]
      <3>1. CASE UpdateQuestionCommits(s)
        <4>1. /\ questions' = [questions EXCEPT ![c.at].prompt = c.value]
              /\ c.value \in Values \cup {NoOne} /\ c.at \in QuestionIds
          BY <1>2, <1>3, <3>1 DEF UpdateQuestionCommits, Prepared, ValueFits
        <4>2. questions' = [questions EXCEPT ![c.at].prompt = c.value,
                                             ![c.at].drafted = questions[c.at].drafted]
          BY <4>1 DEF OwnerInv, TypeOK, QuestionRow
        <4>3. questions[c.at].drafted \in BOOLEAN
          BY <4>1 DEF OwnerInv, TypeOK, QuestionRow
        <4> QED
          BY <4>1, <4>2, <4>3
      <3>2. CASE SetQuestionDraftedCommits(s)
        <4>1. /\ questions' = [questions EXCEPT ![c.at].drafted = (c.pos = 1)]
              /\ c.at \in QuestionIds
          BY <1>3, <3>2 DEF SetQuestionDraftedCommits
        <4>2. questions' = [questions EXCEPT ![c.at].prompt = questions[c.at].prompt,
                                             ![c.at].drafted = (c.pos = 1)]
          BY <4>1 DEF OwnerInv, TypeOK, QuestionRow
        <4>3. questions[c.at].prompt \in Values \cup {NoOne} /\ (c.pos = 1) \in BOOLEAN
          BY <4>1 DEF OwnerInv, TypeOK, QuestionRow
        <4> QED
          BY <4>2, <4>3
      <3> QED
        BY <1>9, <3>1, <3>2
    <2>2. /\ c.at \in QuestionIds /\ questions[c.at].topic \in TopicIds
          /\ topics[questions[c.at].topic].owner = c.scope
      BY <1>3, <1>9 DEF UpdateQuestionCommits, SetQuestionDraftedCommits
    <2>3. questions' \in [QuestionIds -> QuestionRow]
      BY <2>1, <2>2 DEF OwnerInv, TypeOK, QuestionRow
    <2>4. \A r \in QuestionIds : questions'[r] # questions[r] =>
             /\ questions[r].topic = questions[c.at].topic
             /\ questions'[r].topic = questions[c.at].topic
      BY <2>1, <2>2 DEF OwnerInv, TypeOK, QuestionRow
    <2> QED
      BY <1>5, <1>6, <2>2, <2>3, <2>4
  <1>10. CASE DeleteQuestionCommits(s)
    <2>1. questions' = [q \in QuestionIds |->
             IF q = c.at THEN [questions[q] EXCEPT !.live = FALSE]
             ELSE IF q \in QuestionsOf(c.list) /\ questions[q].pos > c.pos
               THEN [questions[q] EXCEPT !.pos = @ - 1]
             ELSE questions[q]]
      BY <1>10 DEF DeleteQuestionCommits
    <2>2. /\ c.at \in QuestionIds /\ c.list \in TopicIds /\ c.list = questions[c.at].topic
          /\ topics[c.list].owner = c.scope
      BY <1>2, <1>3, <1>10 DEF DeleteQuestionCommits, Prepared, ListNamed
    <2>3. \A q \in QuestionIds : questions[q].pos > c.pos => questions[q].pos - 1 \in Nat
      BY <1>2 DEF OwnerInv, TypeOK, QuestionRow
    <2>4. questions' \in [QuestionIds -> QuestionRow]
      BY <2>1, <2>3 DEF OwnerInv, TypeOK, QuestionRow
    <2>5. \A r \in QuestionIds : questions'[r] # questions[r] =>
             questions[r].topic = c.list /\ questions'[r].topic = c.list
      <3> SUFFICES ASSUME NEW r \in QuestionIds, questions'[r] # questions[r]
                   PROVE  questions[r].topic = c.list /\ questions'[r].topic = c.list
        OBVIOUS
      <3>1. questions[r].topic = c.list
        BY <2>1, <2>2 DEF QuestionsOf
      <3> QED
        BY <2>1, <3>1 DEF OwnerInv, TypeOK, QuestionRow
    <2> QED
      BY <1>5, <1>6, <2>2, <2>4, <2>5
  <1>11. CASE ReorderQuestionsCommits(s)
    <2>1. questions' = [q \in QuestionIds |->
             IF q \in Listed(c.order) THEN [questions[q] EXCEPT !.pos = PlaceIn(c.order, q)]
                                      ELSE questions[q]]
      BY <1>11 DEF ReorderQuestionsCommits
    <2>2. /\ c.at \in TopicIds /\ topics[c.at].owner = c.scope
          /\ \A q \in Listed(c.order) : questions[q].topic = c.at
      BY <1>2, <1>3, <1>11 DEF ReorderQuestionsCommits, Prepared, OrderChecked
    <2>3. \A q \in Listed(c.order) : PlaceIn(c.order, q) \in Nat
      BY <1>2 DEF Listed, PlaceIn, Calls
    <2>4. questions' \in [QuestionIds -> QuestionRow]
      BY <2>1, <2>3 DEF OwnerInv, TypeOK, QuestionRow
    <2>5. \A r \in QuestionIds : questions'[r] # questions[r] =>
             questions[r].topic = c.at /\ questions'[r].topic = c.at
      BY <2>1, <2>2 DEF OwnerInv, TypeOK, QuestionRow
    <2> QED
      BY <1>5, <1>6, <2>2, <2>4, <2>5
  <1> QED
    BY <1>7, <1>8, <1>9, <1>10, <1>11

\* Commits that write drafts.  Updating and deleting look for the owner as they
\* write; a new draft's question was checked.
LEMMA DraftCommits ==
    ASSUME OwnerInv, NEW s \in Slots,
           CreateDraftCommits(s) \/ UpdateDraftCommits(s)
             \/ DeleteDraftCommits(s) \/ ReorderDraftsCommits(s)
    PROVE  Committed(s) /\ CallsAfter(s)
  <1> DEFINE c == calls[s]
             Reaches(q) == /\ q \in QuestionIds /\ questions[q].topic \in TopicIds
                           /\ topics[questions[q].topic].owner = c.scope
  <1>1. /\ c.op \in {"createDraft", "updateDraft", "deleteDraft", "reorderDrafts"}
        /\ UNCHANGED <<topics, tags, questions>>
    BY DEF CreateDraftCommits, UpdateDraftCommits, DeleteDraftCommits, ReorderDraftsCommits
  <1>2. /\ c \in Calls /\ Prepared(c) /\ c.pos \in Nat
    BY <1>1, CallAtCommit
  <1>3. c.op \in {"createDraft", "reorderDrafts"} => Reaches(c.at) /\ c.list \in Lists
    BY <1>2 DEF Prepared, RowChecked, ListNamed, QuestionOps, Lists
  <1>4. CallsAfter(s)
    BY <1>1, <1>3, EndsItsCall, EndsWithList
    DEF OwnerInv, CreateDraftCommits, UpdateDraftCommits, DeleteDraftCommits, ReorderDraftsCommits
  <1>5. ASSUME drafts' \in [DraftIds -> DraftRow],
               \A d \in DraftIds : drafts'[d] # drafts[d] => Reaches(drafts'[d].question)
        PROVE  Committed(s)
    BY <1>1, <1>5
    DEF Committed, TablesTyped, RowsOfScope, OwnersStay, OwnerInv, TypeOK, TagsAreOwners, OwnedTags
  <1>6. \A d \in OwnedDrafts(c.scope) : d \in DraftIds /\ Reaches(drafts[d].question)
    BY DEF OwnedDrafts, DraftsOf, ReachableQuestions, TopicsOf
  <1>7. CASE CreateDraftCommits(s)
    <2>1. PICK d \in DraftIds :
             drafts' = [drafts EXCEPT ![d] =
                [question |-> c.at, live |-> TRUE, pos |-> c.pos, content |-> c.value]]
      BY <1>7 DEF CreateDraftCommits
    <2>2. Reaches(c.at) /\ c.value \in Values \cup {NoOne}
      BY <1>2, <1>3, <1>7 DEF CreateDraftCommits, Prepared, ValueFits
    <2>3. drafts' \in [DraftIds -> DraftRow]
      BY <1>2, <2>1, <2>2 DEF OwnerInv, TypeOK, DraftRow
    <2>4. \A e \in DraftIds : drafts'[e] # drafts[e] => drafts'[e].question = c.at
      BY <2>1 DEF OwnerInv, TypeOK
    <2> QED
      BY <1>4, <1>5, <2>2, <2>3, <2>4
  <1>8. CASE UpdateDraftCommits(s)
    <2>1. /\ drafts' = IF c.at \in OwnedDrafts(c.scope)
                       THEN [drafts EXCEPT ![c.at].content = c.value] ELSE drafts
          /\ c.value \in Values \cup {NoOne}
      BY <1>2, <1>8 DEF UpdateDraftCommits, Prepared, ValueFits
    <2>2. drafts' \in [DraftIds -> DraftRow]
      BY <2>1 DEF OwnerInv, TypeOK, DraftRow
    <2>3. \A e \in DraftIds : drafts'[e] # drafts[e] =>
             e \in OwnedDrafts(c.scope) /\ drafts'[e].question = drafts[e].question
      BY <2>1 DEF OwnerInv, TypeOK, DraftRow
    <2> QED
      BY <1>4, <1>5, <1>6, <2>2, <2>3
  <1>9. CASE DeleteDraftCommits(s)
    <2>1. drafts' = IF c.at \in OwnedDrafts(c.scope)
                    THEN [drafts EXCEPT ![c.at].live = FALSE] ELSE drafts
      BY <1>9 DEF DeleteDraftCommits
    <2>2. drafts' \in [DraftIds -> DraftRow]
      BY <2>1 DEF OwnerInv, TypeOK, DraftRow
    <2>3. \A e \in DraftIds : drafts'[e] # drafts[e] =>
             e \in OwnedDrafts(c.scope) /\ drafts'[e].question = drafts[e].question
      BY <2>1 DEF OwnerInv, TypeOK, DraftRow
    <2> QED
      BY <1>4, <1>5, <1>6, <2>2, <2>3
  <1>10. CASE ReorderDraftsCommits(s)
    <2>1. drafts' = [d \in DraftIds |->
             IF d \in Listed(c.order) /\ d \in DraftsOf(c.at)
             THEN [drafts[d] EXCEPT !.pos = PlaceIn(c.order, d)] ELSE drafts[d]]
      BY <1>10 DEF ReorderDraftsCommits
    <2>2. \A d \in Listed(c.order) : PlaceIn(c.order, d) \in Nat
      BY <1>2 DEF Listed, PlaceIn, Calls
    <2>3. drafts' \in [DraftIds -> DraftRow]
      BY <2>1, <2>2 DEF OwnerInv, TypeOK, DraftRow
    <2>4. \A e \in DraftIds : drafts'[e] # drafts[e] => drafts'[e].question = c.at
      BY <2>1 DEF DraftsOf, OwnerInv, TypeOK, DraftRow
    <2>5. Reaches(c.at)
      BY <1>3, <1>10 DEF ReorderDraftsCommits
    <2> QED
      BY <1>4, <1>5, <2>3, <2>4, <2>5
  <1> QED
    BY <1>7, <1>8, <1>9, <1>10

\* A commit does to the tables what it may, and ends its call only.
LEMMA CommitsAreOwn ==
    ASSUME OwnerInv, NEW s \in Slots, Commits(s)
    PROVE  Committed(s) /\ CallsAfter(s) /\ calls[s].op # "idle"
  <1>1. Committed(s) /\ CallsAfter(s)
    BY TopicCommits, TagCommits, QuestionCommits, DraftCommits DEF Commits
  <1>2. calls[s].op # "idle"
    BY DEF Commits, CreateTopicCommits, UpdateTopicCommits, DeleteTopicCommits,
           ReorderTopicsCommits, CreateTagCommits, UpdateTagCommits, DeleteTagCommits,
           CreateQuestionsCommits, CreateQuestionCommits, UpdateQuestionCommits,
           DeleteQuestionCommits, ReorderQuestionsCommits, SetQuestionDraftedCommits,
           CreateDraftCommits, UpdateDraftCommits, DeleteDraftCommits, ReorderDraftsCommits
  <1> QED
    BY <1>1, <1>2

\* A call that arrives is prepared and changes no table.
LEMMA ArrivalsArePrepared ==
    ASSUME TypeOK, NEW s \in Slots, NEW u \in Users, Arrives(s, u)
    PROVE  \E call \in Calls : Arrive(s, call) /\ Prepared(call)
  BY TopicCallsArePrepared, TagCallsArePrepared, QuestionCallsArePrepared, DraftCallsArePrepared
  DEF Arrives
-----------------------------------------------------------------------------
(* The invariant. *)

\* The library at the start is in order, and no call is in flight.
LEMMA InitOwnerInv == Init => OwnerInv
  <1> SUFFICES ASSUME Init PROVE OwnerInv
    OBVIOUS
  <1>1. TypeOK
    BY SeedAssumption, LibraryAssumption, IdleIsPrepared DEF Init, TypeOK, Lists
  <1>2. TagsAreOwners
    BY SeedAssumption DEF Init, TagsAreOwners, OwnedTags, TopicRow
  <1>3. CallsPrepared
    BY IdleIsPrepared DEF Init, CallsPrepared
  <1> QED
    BY <1>1, <1>2, <1>3 DEF OwnerInv

\* Arrivals keep the invariant.
LEMMA ArrivalKeepsInv ==
    ASSUME OwnerInv, NEW s \in Slots, NEW u \in Users, CanArrive(s), Arrives(s, u)
    PROVE  OwnerInv'
  <1>1. PICK call \in Calls : Arrive(s, call) /\ Prepared(call)
    BY ArrivalsArePrepared DEF OwnerInv
  <1>2. UNCHANGED <<topics, tags, questions, drafts, disordered>>
    BY <1>1 DEF Arrive
  <1>3. calls' = [calls EXCEPT ![s] = call] /\ made' \in 0 .. MaxCalls
    BY <1>1, LibraryAssumption DEF Arrive, CanArrive, OwnerInv, TypeOK
  <1>4. TypeOK'
    BY <1>2, <1>3 DEF OwnerInv, TypeOK
  <1>5. TagsAreOwners'
    BY <1>2 DEF OwnerInv, TagsAreOwners, OwnedTags
  <1>6. OwnersStay
    BY <1>2 DEF OwnersStay
  <1>7. ASSUME NEW x \in Slots PROVE Prepared(calls[x])'
    <2>1. PICK c \in Calls : c = calls'[x] /\ Prepared(c)
      BY <1>1, <1>3 DEF OwnerInv, TypeOK, CallsPrepared
    <2>2. Prepared(c)'
      BY <1>6, <2>1, PreparedIsKept
    <2> QED
      BY <2>1, <2>2
  <1> QED
    BY <1>4, <1>5, <1>7 DEF OwnerInv, CallsPrepared

\* In a call whose reads have gone stale only the freshness differs.
LEMMA StaleCallFields ==
    ASSUME NEW call \in Calls, NEW c, c = [call EXCEPT !.fresh = FALSE]
    PROVE  /\ c.op = call.op /\ c.user = call.user /\ c.scope = call.scope
           /\ c.at = call.at /\ c.tagIds = call.tagIds
           /\ c.order = call.order /\ c.value = call.value
           /\ c.list = call.list
  BY SMTT(30) DEF Calls

\* Commits keep the invariant.
LEMMA CommitKeepsInv ==
    ASSUME OwnerInv, NEW s \in Slots, Commits(s)
    PROVE  OwnerInv'
  <1>1. Committed(s) /\ CallsAfter(s)
    BY CommitsAreOwn
  <1>2. TypeOK'
    BY <1>1 DEF Committed, CallsAfter, TablesTyped, OwnerInv, TypeOK
  <1>3. ASSUME NEW x \in Slots PROVE Prepared(calls[x])'
    <2>1. PICK c \in Calls : c = calls'[x] /\ Prepared(c)
      <3>1. CASE x = s
        BY <1>1, <3>1, IdleIsPrepared DEF CallsAfter
      <3>2. CASE x # s
        <4>1. calls[x] \in Calls /\ calls'[x] \in Calls /\ Prepared(calls[x])
          BY <1>1 DEF CallsAfter, OwnerInv, TypeOK, CallsPrepared
        <4>2. CASE calls'[x] = [calls[x] EXCEPT !.fresh = FALSE]
          <5>1. PICK c \in Calls : c = calls'[x]
            BY <4>1
          <5>2. /\ c.op = calls[x].op /\ c.user = calls[x].user /\ c.scope = calls[x].scope
                /\ c.at = calls[x].at /\ c.tagIds = calls[x].tagIds
                /\ c.order = calls[x].order /\ c.value = calls[x].value
                /\ c.list = calls[x].list
            BY <4>1, <4>2, <5>1, StaleCallFields
          <5>3. Prepared(c)
            BY <4>1, <5>2
            DEF Prepared, Scoped, TagsChecked, RowChecked, OrderChecked, ListNamed, ValueFits
          <5> QED
            BY <5>1, <5>3
        <4> QED
          BY <1>1, <3>2, <4>1, <4>2 DEF CallsAfter
      <3> QED
        BY <3>1, <3>2
    <2>2. Prepared(c)'
      BY <1>1, <2>1, PreparedIsKept DEF Committed
    <2> QED
      BY <2>1, <2>2
  <1> QED
    BY <1>1, <1>2, <1>3 DEF Committed, OwnerInv, CallsPrepared

\* Every step keeps the invariant.
LEMMA StepOwnerInv == OwnerInv /\ [Next]_vars => OwnerInv'
  <1> SUFFICES ASSUME OwnerInv, [Next]_vars PROVE OwnerInv'
    OBVIOUS
  <1>1. CASE UNCHANGED vars
    BY <1>1
    DEF vars, OwnerInv, TypeOK, TagsAreOwners, OwnedTags, CallsPrepared, Prepared, Scoped,
        TagsChecked, RowChecked, OrderChecked, ListNamed, ValueFits
  <1>2. CASE Next
    BY <1>2, ArrivalKeepsInv, CommitKeepsInv DEF Next
  <1> QED
    BY <1>1, <1>2

\* The invariant holds of every reachable state.
LEMMA LibraryKeepsOwners == Spec => []OwnerInv
  BY InitOwnerInv, StepOwnerInv, PTL DEF Spec

\* Every reachable state of the library is well typed, however many calls are
\* in flight on however many rows (topics.ts, tags.ts, records.ts).
THEOREM LibraryTypeCorrect == Spec => []TypeOK
  <1>1. OwnerInv => TypeOK
    BY DEF OwnerInv
  <1> QED
    BY <1>1, LibraryKeepsOwners, PTL

\* A topic carries only existing tags of its own owner, although topic_tags has
\* no owner and a tag can be deleted between assertOwnedTags and the insert
\* (topics.ts 476-492).
THEOREM TopicsCarryOwnTags == Spec => []TagsAreOwners
  <1>1. OwnerInv => TagsAreOwners
    BY DEF OwnerInv
  <1> QED
    BY <1>1, LibraryKeepsOwners, PTL

\* A step that changes rows of an owner is a commit of a call that owner or an
\* administrator made (resolveOwnerScope, authorization.ts 58-63, and the
\* services' checks).
THEOREM LibraryIsOwn == Spec => OnlyOwnLibrary
  <1>1. ASSUME OwnerInv, [Next]_vars, NEW o \in Users, ChangesRowsOf(o)
        PROVE  \E s \in Slots : /\ calls[s].op # "idle" /\ calls'[s].op = "idle"
                                /\ calls[s].user = o \/ calls[s].user \in Admins
    <2>1. o # NoOne
      BY LibraryAssumption
    <2>2. CASE UNCHANGED <<topics, tags, questions, drafts>>
      BY <1>1, <2>2 DEF ChangesRowsOf
    <2>3. CASE \E s \in Slots : Commits(s)
      <3>1. PICK s \in Slots : Commits(s)
        BY <2>3
      <3>2. Committed(s) /\ CallsAfter(s) /\ calls[s].op # "idle"
        BY <1>1, <3>1, CommitsAreOwn
      <3>3. calls[s].scope = o
        BY <1>1, <2>1, <3>2, LibraryAssumption
        DEF Committed, RowsOfScope, ChangesRowsOf, QuestionOwner, DraftOwner
      <3>4. calls'[s].op = "idle"
        BY <3>2 DEF CallsAfter, Idle, Blank
      <3> QED
        BY <1>1, <3>2, <3>3, <3>4 DEF OwnerInv, CallsPrepared, Prepared, Scoped
    <2>4. CASE \E s \in Slots, u \in Users : Arrives(s, u)
      <3>1. UNCHANGED <<topics, tags, questions, drafts>>
        BY <1>1, <2>4, ArrivalsArePrepared DEF OwnerInv, Arrive
      <3> QED
        BY <2>2, <3>1
    <2> QED
      BY <1>1, <2>2, <2>3, <2>4 DEF Next, vars
  <1>2. OwnerInv /\ [Next]_vars =>
          [\A o \in Users : ChangesRowsOf(o) =>
             \E s \in Slots : /\ calls[s].op # "idle" /\ calls'[s].op = "idle"
                              /\ calls[s].user = o \/ calls[s].user \in Admins]_vars
    BY <1>1
  <1> QED
    BY <1>2, LibraryKeepsOwners, PTL DEF Spec, OnlyOwnLibrary

-----------------------------------------------------------------------------

\* What a fresh call read is still so.
FreshReads(c) ==
    c.fresh =>
      /\ c.op = "createTopic" => IsNext(TopicsOf(c.scope), topics, c.pos)
      /\ c.op = "deleteTopic" => c.at \in TopicsOf(c.scope) /\ topics[c.at].pos = c.pos
      /\ c.op = "reorderTopics" => OrderOf(TopicsOf(c.scope), c.order)
      /\ c.op \in {"createQuestions", "createQuestion"} =>
           IsNext(QuestionsOf(c.at), questions, c.pos)
      /\ c.op = "deleteQuestion" => c.at \in QuestionsOf(c.list) /\ questions[c.at].pos = c.pos
      /\ c.op = "reorderQuestions" => OrderOf(QuestionsOf(c.at), c.order)
      /\ c.op = "createDraft" => \A d \in DraftsOf(c.at) : drafts[d].pos < c.pos
      /\ c.op = "reorderDrafts" => DraftsOf(c.at) \subseteq Listed(c.order)
      /\ c.op = "updateTag" =>
           /\ c.value = tags[c.at].name \/ "name" \in c.edits
           /\ c.color = tags[c.at].color \/ "color" \in c.edits

CallsFresh == \A s \in Slots : FreshReads(calls[s])

\* The inductive invariant.
OrderInv == OwnerInv /\ CallsFresh /\ OrderIsDense /\ DraftsAreOrdered

\* Every list but l is as it was; drafts may have gone.
TopicsKept(l) ==
    \A o \in Users \ {l} :
      /\ TopicsOf(o)' = TopicsOf(o)
      /\ \A t \in TopicsOf(o) : topics'[t].pos = topics[t].pos
QuestionsKept(l) ==
    \A t \in TopicIds \ {l} :
      /\ QuestionsOf(t)' = QuestionsOf(t)
      /\ \A q \in QuestionsOf(t) : questions'[q].pos = questions[q].pos
DraftsKept(l) ==
    \A q \in QuestionIds \ {l} :
      /\ DraftsOf(q)' \subseteq DraftsOf(q)
      /\ \A d \in DraftsOf(q) : drafts'[d].pos = drafts[d].pos
TagsKept(l) ==
    \A g \in TagIds \ {l} : tags[g] # NoTag =>
      tags'[g].name = tags[g].name /\ tags'[g].color = tags[g].color
ListsKept(l) == TopicsKept(l) /\ QuestionsKept(l) /\ DraftsKept(l) /\ TagsKept(l)

\* A list of which every call in flight has read the truth is in order.
InOrderAfter(l) ==
    /\ l \in Users => Dense(TopicsOf(l)', topics')
    /\ l \in TopicIds => Dense(QuestionsOf(l)', questions')
    /\ l \in QuestionIds =>
         \A d, e \in DraftsOf(l)' : drafts'[d].pos = drafts'[e].pos => d = e

\* What a commit does to order: one list is written, or none.
Reordered(s) ==
    \E l \in Lists \cup {NoOne} :
      /\ ListsKept(l)
      /\ \A x \in Slots \ {s} : calls'[x].fresh =>
           calls'[x] = calls[x] /\ (l = NoOne \/ calls[x].list # l)
      /\ disordered' \ {l} = disordered \ {l}
      /\ l \in disordered' \/ InOrderAfter(l)
-----------------------------------------------------------------------------
(* Positions. *)

\* Rows added at the next positions leave a dense list dense.
LEMMA DenseAppend ==
    ASSUME NEW S, NEW T, NEW rows, NEW new, NEW p \in Nat, NEW n \in Nat,
           \A x \in S : rows[x].pos \in Nat /\ new[x].pos = rows[x].pos,
           Dense(S, rows), IsNext(S, rows, p),
           \A x \in T : new[x].pos \in p .. (p + n - 1),
           \A x, y \in T : new[x].pos = new[y].pos => x = y,
           \A k \in p .. (p + n - 1) : \E x \in T : new[x].pos = k
    PROVE  Dense(S \cup T, new)
  <1>1. \A x, y \in S \cup T : new[x].pos = new[y].pos => x = y
    BY DEF Dense, IsNext
  <1>2. ASSUME NEW x \in S \cup T, NEW k \in 0 .. (new[x].pos - 1)
        PROVE  \E y \in S \cup T : new[y].pos = k
    <2>1. CASE \E y \in S : k <= rows[y].pos
      <3>1. PICK y \in S : k <= rows[y].pos
        BY <2>1
      <3>2. \E z \in S : rows[z].pos = k
        BY <3>1 DEF Dense
      <3> QED
        BY <3>2
    <2>2. CASE \A y \in S : rows[y].pos < k
      <3>1. x \in T /\ k \in Nat
        BY <1>2, <2>2
      <3>2. k >= p
        BY <2>2, <3>1 DEF IsNext
      <3>3. k \in p .. (p + n - 1)
        BY <3>1, <3>2
      <3> QED
        BY <3>3
    <2> QED
      BY <2>1, <2>2
  <1> QED
    BY <1>1, <1>2 DEF Dense

\* One row added at the next position.
LEMMA DenseAppendOne ==
    ASSUME NEW S, NEW t, NEW rows, NEW new, NEW p \in Nat,
           \A x \in S : rows[x].pos \in Nat /\ new[x].pos = rows[x].pos,
           Dense(S, rows), IsNext(S, rows, p), new[t].pos = p
    PROVE  Dense(S \cup {t}, new)
  <1>1. \A x, y \in S \cup {t} : new[x].pos = new[y].pos => x = y
    BY DEF Dense, IsNext
  <1>2. ASSUME NEW x \in S \cup {t}, NEW k \in 0 .. (new[x].pos - 1)
        PROVE  \E y \in S \cup {t} : new[y].pos = k
    <2>1. \E y \in S : k <= rows[y].pos
      <3>1. CASE x \in S
        BY <1>2, <3>1
      <3>2. CASE x = t /\ x \notin S
        <4>1. k \in 0 .. (p - 1) /\ p # 0
          BY <3>2
        <4>2. PICK y \in S : rows[y].pos = p - 1
          BY <4>1 DEF IsNext
        <4> QED
          BY <4>1, <4>2
      <3> QED
        BY <3>1, <3>2
    <2>2. PICK y \in S : k <= rows[y].pos
      BY <2>1
    <2>3. \E z \in S : rows[z].pos = k
      BY <2>2 DEF Dense
    <2> QED
      BY <2>3
  <1> QED
    BY <1>1, <1>2 DEF Dense

\* Closing the gap above a row that goes leaves a dense list dense.
LEMMA DenseRemove ==
    ASSUME NEW S, NEW rows, NEW new, NEW x \in S,
           \A y \in S : rows[y].pos \in Nat,
           \A y \in S \ {x} :
              new[y].pos = IF rows[y].pos > rows[x].pos THEN rows[y].pos - 1 ELSE rows[y].pos,
           Dense(S, rows)
    PROVE  Dense(S \ {x}, new)
  <1>1. \A y \in S \ {x} : rows[y].pos # rows[x].pos
    BY DEF Dense
  <1>2. \A y, z \in S \ {x} : new[y].pos = new[z].pos => y = z
    BY <1>1 DEF Dense
  <1>3. ASSUME NEW y \in S \ {x}, NEW k \in 0 .. (new[y].pos - 1)
        PROVE  \E z \in S \ {x} : new[z].pos = k
    <2>1. CASE k < rows[x].pos
      <3>1. k \in 0 .. (rows[x].pos - 1)
        BY <2>1
      <3>2. PICK z \in S : rows[z].pos = k
        BY <3>1 DEF Dense
      <3>3. z # x /\ new[z].pos = k
        BY <2>1, <3>2
      <3> QED
        BY <3>3
    <2>2. CASE k >= rows[x].pos
      <3>1. rows[y].pos > rows[x].pos /\ k + 1 \in 0 .. (rows[y].pos - 1)
        BY <1>1, <2>2
      <3>2. PICK z \in S : rows[z].pos = k + 1
        BY <3>1 DEF Dense
      <3>3. z # x /\ new[z].pos = k
        BY <2>2, <3>2
      <3> QED
        BY <3>3
    <2> QED
      BY <2>1, <2>2
  <1> QED
    BY <1>2, <1>3 DEF Dense

\* The place of a row in an order that lists it once.
LEMMA PlaceInOrder ==
    ASSUME NEW S, NEW order, Len(order) \in Nat, OrderOf(S, order), NEW x \in S
    PROVE  /\ PlaceIn(order, x) + 1 \in 1 .. Len(order)
           /\ PlaceIn(order, x) \in Nat
           /\ order[PlaceIn(order, x) + 1] = x
  <1> DEFINE place == CHOOSE i \in 1 .. Len(order) : order[i] = x
  <1>1. \E i \in 1 .. Len(order) : order[i] = x
    BY DEF OrderOf
  <1>2. place \in 1 .. Len(order) /\ order[place] = x
    BY <1>1
  <1>3. PlaceIn(order, x) = place - 1
    BY DEF PlaceIn
  <1> HIDE DEF place
  <1> QED
    BY <1>2, <1>3

\* Two rows of an order at one place are the same row.
LEMMA PlaceInListed ==
    ASSUME NEW order, Len(order) \in Nat, NEW x \in Listed(order), NEW y \in Listed(order),
           PlaceIn(order, x) = PlaceIn(order, y)
    PROVE  x = y
  <1>1. ASSUME NEW z \in Listed(order)
        PROVE  PlaceIn(order, z) \in Nat /\ order[PlaceIn(order, z) + 1] = z
    <2> DEFINE place == CHOOSE i \in 1 .. Len(order) : order[i] = z
    <2>1. place \in 1 .. Len(order) /\ order[place] = z
      BY DEF Listed
    <2>2. PlaceIn(order, z) = place - 1
      BY DEF PlaceIn
    <2> HIDE DEF place
    <2> QED
      BY <2>1, <2>2
  <1> QED
    BY <1>1

\* Writing every row's place in an order makes a list dense.
LEMMA DenseReorder ==
    ASSUME NEW S, NEW order, NEW new, Len(order) \in Nat, OrderOf(S, order),
           \A x \in S : new[x].pos = PlaceIn(order, x)
    PROVE  Dense(S, new)
  <1>1. \A x, y \in S : new[x].pos = new[y].pos => x = y
    <2> SUFFICES ASSUME NEW x \in S, NEW y \in S, PlaceIn(order, x) = PlaceIn(order, y)
                 PROVE  x = y
      OBVIOUS
    <2> QED
      BY PlaceInOrder
  <1>2. ASSUME NEW x \in S, NEW k \in 0 .. (new[x].pos - 1)
        PROVE  \E y \in S : new[y].pos = k
    <2>1. k + 1 \in 1 .. Len(order)
      BY PlaceInOrder
    <2>2. order[k + 1] \in S
      BY <2>1 DEF OrderOf
    <2>3. PlaceIn(order, order[k + 1]) + 1 = k + 1
      BY <2>1, <2>2, PlaceInOrder DEF OrderOf
    <2>4. PlaceIn(order, order[k + 1]) = k
      BY <2>2, <2>3, PlaceInOrder
    <2> QED
      BY <2>2, <2>4
  <1> QED
    BY <1>1, <1>2 DEF Dense
-----------------------------------------------------------------------------
(* Commits write one list, or none. *)

\* Rows of a table that does not change are kept.
LEMMA UnchangedIsKept ==
    ASSUME NEW l
    PROVE  /\ topics' = topics => TopicsKept(l)
           /\ questions' = questions => QuestionsKept(l)
           /\ drafts' = drafts => DraftsKept(l)
           /\ tags' = tags => TagsKept(l)
  BY DEF TopicsKept, QuestionsKept, DraftsKept, TagsKept, TopicsOf, QuestionsOf, DraftsOf

\* A call that writes no list.
LEMMA NothingReordered ==
    ASSUME TypeOK, NEW s \in Slots, Ends(s), ListsKept(NoOne)
    PROVE  Reordered(s)
  <1>1. /\ \A x \in Slots \ {s} : calls'[x] = calls[x]
        /\ disordered' = disordered
    BY DEF Ends, TypeOK
  <1>2. InOrderAfter(NoOne)
    BY LibraryAssumption DEF InOrderAfter
  <1> QED
    BY <1>1, <1>2 DEF Reordered

\* A call that writes its list: enough that the list is in order after it, if
\* the call was fresh and orders it, or it was in order.
LEMMA ListReordered ==
    ASSUME TypeOK, NEW s \in Slots, NEW ordered \in BOOLEAN, ListWritten(s, ordered),
           NEW l \in Lists, calls[s].list = l, ListsKept(l),
           calls[s].fresh /\ (ordered \/ l \notin disordered) => InOrderAfter(l)
    PROVE  Reordered(s)
  <1>1. ASSUME NEW x \in Slots \ {s}, calls'[x].fresh
        PROVE  calls'[x] = calls[x] /\ calls[x].list # l
    <2>1. calls[x] \in Calls
      BY DEF TypeOK
    <2>2. calls'[x] = IF calls[x].list = l THEN [calls[x] EXCEPT !.fresh = FALSE] ELSE calls[x]
      BY DEF ListWritten
    <2>3. [calls[x] EXCEPT !.fresh = FALSE].fresh = FALSE
      BY <2>1 DEF Calls
    <2> QED
      BY <1>1, <2>2, <2>3
  <1>2. disordered' \ {l} = disordered \ {l}
    BY DEF ListWritten
  <1>3. l \in disordered' \/ InOrderAfter(l)
    <2>1. calls[s].fresh \in BOOLEAN
      BY DEF TypeOK, Calls
    <2> QED
      BY <2>1 DEF ListWritten
  <1> QED
    BY <1>1, <1>2, <1>3 DEF Reordered

\* Commits that write topics.
LEMMA TopicsReordered ==
    ASSUME OrderInv, NEW s \in Slots,
           CreateTopicCommits(s) \/ UpdateTopicCommits(s)
             \/ DeleteTopicCommits(s) \/ ReorderTopicsCommits(s)
    PROVE  Reordered(s)
  <1> DEFINE c == calls[s]
  <1>1. /\ c.op \in {"createTopic", "updateTopic", "deleteTopic", "reorderTopics"}
        /\ UNCHANGED <<tags, questions, drafts>>
    BY DEF CreateTopicCommits, UpdateTopicCommits, DeleteTopicCommits, ReorderTopicsCommits
  <1>2. PICK o \in Users :
           /\ c.scope = o /\ c \in Calls /\ Prepared(c) /\ o # NoOne /\ c.pos \in Nat /\ o \in Lists
           /\ o \notin TopicIds /\ o \notin QuestionIds
           /\ c.op # "updateTopic" => c.list = o
           /\ c.order \in Seq(TopicIds \cup QuestionIds \cup DraftIds)
    BY <1>1, CallAtCommit, LibraryAssumption DEF OrderInv, Lists, Prepared, ListNamed, Calls
  <1>3. \A l : TopicsKept(l) => ListsKept(l)
    BY <1>1, UnchangedIsKept DEF ListsKept
  <1>4. TypeOK /\ FreshReads(c)
    BY DEF OrderInv, OwnerInv, CallsFresh
  <1>5. InOrderAfter(o) <=> Dense(TopicsOf(o)', topics')
    BY <1>2 DEF InOrderAfter
  <1>6. o \notin disordered => Dense(TopicsOf(o), topics)
    BY <1>2 DEF OrderInv, OrderIsDense
  <1>7. CASE topics' = topics /\ Ends(s)
    BY <1>3, <1>4, <1>7, UnchangedIsKept, NothingReordered
  <1>8. CASE /\ c.op = "createTopic" /\ ListWritten(s, FALSE)
              /\ \E t \in TopicIds :
                   /\ topics[t] = NoTopic
                   /\ topics' = [topics EXCEPT ![t] =
                        [owner |-> o, live |-> TRUE, pos |-> c.pos, tags |-> c.tagIds]]
    <2>1. PICK t \in TopicIds :
             /\ topics[t] = NoTopic
             /\ topics' = [topics EXCEPT ![t] =
                  [owner |-> o, live |-> TRUE, pos |-> c.pos, tags |-> c.tagIds]]
      BY <1>8
    <2>2. TopicsKept(o) /\ TopicsOf(o)' = TopicsOf(o) \cup {t} /\ t \notin TopicsOf(o)
      <3>1. /\ \A x \in TopicIds \ {t} : topics'[x] = topics[x]
            /\ topics'[t].owner = o /\ topics'[t].live
            /\ topics[t].owner = NoOne /\ ~topics[t].live
        BY <1>4, <2>1 DEF TypeOK, NoTopic
      <3> QED
        BY <3>1 DEF TopicsKept, TopicsOf
    <2>3. c.fresh /\ o \notin disordered => Dense(TopicsOf(o)', topics')
      <3> SUFFICES ASSUME c.fresh, o \notin disordered PROVE Dense(TopicsOf(o)', topics')
        OBVIOUS
      <3>1. Dense(TopicsOf(o), topics) /\ IsNext(TopicsOf(o), topics, c.pos)
        BY <1>2, <1>4, <1>6, <1>8 DEF FreshReads
      <3>2. /\ topics'[t].pos = c.pos
            /\ \A x \in TopicsOf(o) : topics[x].pos \in Nat /\ topics'[x].pos = topics[x].pos
        BY <1>4, <2>1, <2>2 DEF TypeOK, TopicRow, TopicsOf
      <3>3. Dense(TopicsOf(o) \cup {t}, topics')
        BY <1>2, <3>1, <3>2, DenseAppendOne
      <3> QED
        BY <2>2, <3>3
    <2> QED
      BY <1>2, <1>3, <1>4, <1>5, <1>8, <2>2, <2>3, ListReordered
  <1>9. CASE UpdateTopicCommits(s)
    <2>1. TopicsKept(NoOne) /\ Ends(s)
      BY <1>4, <1>9 DEF UpdateTopicCommits, TopicsKept, TopicsOf, TypeOK, TopicRow
    <2> QED
      BY <1>3, <1>4, <2>1, NothingReordered
  <1>10. CASE /\ c.op = "deleteTopic" /\ ListWritten(s, FALSE)
               /\ topics' = [t \in TopicIds |->
                    IF t = c.at THEN [topics[t] EXCEPT !.live = FALSE]
                    ELSE IF t \in TopicsOf(o) /\ topics[t].pos > c.pos
                      THEN [topics[t] EXCEPT !.pos = @ - 1]
                    ELSE topics[t]]
    <2>2. c.at \in TopicIds /\ topics[c.at].owner = o
      BY <1>2, <1>10 DEF Prepared, RowChecked, TopicOps
    <2>3. \A t \in TopicIds :
             /\ topics'[t].owner = topics[t].owner
             /\ topics'[t].live = (topics[t].live /\ t # c.at)
             /\ topics[t].pos \in Nat
             /\ t # c.at => topics'[t].pos = IF t \in TopicsOf(o) /\ topics[t].pos > c.pos
                                             THEN topics[t].pos - 1 ELSE topics[t].pos
      BY <1>4, <1>10 DEF TypeOK, TopicRow
    <2>4. TopicsKept(o) /\ TopicsOf(o)' = TopicsOf(o) \ {c.at}
      <3>1. TopicsOf(o)' = TopicsOf(o) \ {c.at}
        BY <2>3 DEF TopicsOf
      <3>2. \A p \in Users \ {o} : c.at \notin TopicsOf(p)
        BY <2>2 DEF TopicsOf
      <3>3. \A p \in Users \ {o} : TopicsOf(p)' = TopicsOf(p)
        BY <2>2, <2>3 DEF TopicsOf
      <3>4. \A p \in Users \ {o} : \A t \in TopicsOf(p) : topics'[t].pos = topics[t].pos
        BY <2>2, <2>3 DEF TopicsOf
      <3> QED
        BY <3>1, <3>3, <3>4 DEF TopicsKept
    <2>5. c.fresh /\ o \notin disordered => Dense(TopicsOf(o)', topics')
      <3> SUFFICES ASSUME c.fresh, o \notin disordered PROVE Dense(TopicsOf(o)', topics')
        OBVIOUS
      <3>1. Dense(TopicsOf(o), topics) /\ c.at \in TopicsOf(o) /\ topics[c.at].pos = c.pos
        BY <1>2, <1>4, <1>6, <1>10 DEF FreshReads
      <3>2. /\ \A y \in TopicsOf(o) : topics[y].pos \in Nat
            /\ \A y \in TopicsOf(o) \ {c.at} :
                 topics'[y].pos = IF topics[y].pos > topics[c.at].pos
                                  THEN topics[y].pos - 1 ELSE topics[y].pos
        BY <2>3, <3>1 DEF TopicsOf
      <3>3. Dense(TopicsOf(o) \ {c.at}, topics')
        BY <3>1, <3>2, DenseRemove
      <3> QED
        BY <2>4, <3>3
    <2> QED
      BY <1>2, <1>3, <1>4, <1>5, <1>10, <2>4, <2>5, ListReordered
  <1>11. CASE ReorderTopicsCommits(s)
    <2>1. /\ topics' = [t \in TopicIds |->
               IF t \in Listed(c.order) THEN [topics[t] EXCEPT !.pos = PlaceIn(c.order, t)]
                                        ELSE topics[t]]
          /\ ListWritten(s, TRUE)
      BY <1>11 DEF ReorderTopicsCommits
    <2>2. \A t \in Listed(c.order) : t \in TopicIds /\ topics[t].owner = o
      BY <1>2, <1>11 DEF ReorderTopicsCommits, Prepared, OrderChecked
    <2>3. \A t \in TopicIds :
             /\ topics'[t].owner = topics[t].owner /\ topics'[t].live = topics[t].live
             /\ t \notin Listed(c.order) => topics'[t] = topics[t]
             /\ t \in Listed(c.order) => topics'[t].pos = PlaceIn(c.order, t)
      BY <1>4, <2>1 DEF TypeOK, TopicRow
    <2>4. TopicsKept(o) /\ TopicsOf(o)' = TopicsOf(o)
      <3>1. \A p \in Users : TopicsOf(p)' = TopicsOf(p)
        BY <2>3 DEF TopicsOf
      <3>2. \A p \in Users \ {o} : \A t \in TopicsOf(p) : topics'[t].pos = topics[t].pos
        BY <2>2, <2>3 DEF TopicsOf
      <3> QED
        BY <1>2, <3>1, <3>2 DEF TopicsKept
    <2>5. c.fresh => Dense(TopicsOf(o)', topics')
      <3> SUFFICES ASSUME c.fresh PROVE Dense(TopicsOf(o)', topics')
        OBVIOUS
      <3>1. OrderOf(TopicsOf(o), c.order)
        BY <1>2, <1>4, <1>11 DEF FreshReads, ReorderTopicsCommits
      <3>2. \A t \in TopicsOf(o) : topics'[t].pos = PlaceIn(c.order, t)
        BY <2>3, <3>1 DEF OrderOf, Listed, TopicsOf
      <3>3. Len(c.order) \in Nat
        BY <1>2
      <3> QED
        BY <2>4, <3>1, <3>2, <3>3, DenseReorder
    <2> QED
      BY <1>2, <1>3, <1>4, <1>5, <1>11, <2>1, <2>4, <2>5, ListReordered DEF ReorderTopicsCommits
  <1> QED
    BY <1>2, <1>7, <1>8, <1>9, <1>10, <1>11 DEF CreateTopicCommits, DeleteTopicCommits

\* Commits that write questions.
LEMMA QuestionsReordered ==
    ASSUME OrderInv, NEW s \in Slots,
           \/ CreateQuestionsCommits(s) \/ CreateQuestionCommits(s)
           \/ UpdateQuestionCommits(s) \/ DeleteQuestionCommits(s)
           \/ ReorderQuestionsCommits(s) \/ SetQuestionDraftedCommits(s)
    PROVE  Reordered(s)
  <1> DEFINE c == calls[s]
  <1>1. /\ c.op \in {"createQuestions", "createQuestion", "updateQuestion", "deleteQuestion",
                     "reorderQuestions", "setQuestionDrafted"}
        /\ UNCHANGED <<topics, tags, drafts>>
    BY DEF CreateQuestionsCommits, CreateQuestionCommits, UpdateQuestionCommits,
           DeleteQuestionCommits, ReorderQuestionsCommits, SetQuestionDraftedCommits
  <1>2. /\ c \in Calls /\ Prepared(c) /\ c.pos \in Nat
        /\ c.order \in Seq(TopicIds \cup QuestionIds \cup DraftIds)
    BY <1>1, CallAtCommit DEF OrderInv, Calls
  <1>3. \A l : QuestionsKept(l) => ListsKept(l)
    BY <1>1, UnchangedIsKept DEF ListsKept
  <1>4. TypeOK /\ FreshReads(c)
    BY DEF OrderInv, OwnerInv, CallsFresh
  <1>5. \A t \in TopicIds : t \notin disordered => Dense(QuestionsOf(t), questions)
    BY DEF OrderInv, OrderIsDense
  <1>6. ASSUME NEW t \in TopicIds, NEW ordered \in BOOLEAN, ListWritten(s, ordered), c.list = t,
               QuestionsKept(t),
               c.fresh /\ (ordered \/ t \notin disordered) => Dense(QuestionsOf(t)', questions')
        PROVE  Reordered(s)
    <2>1. InOrderAfter(t) <=> Dense(QuestionsOf(t)', questions')
      BY LibraryAssumption DEF InOrderAfter
    <2>2. t \in Lists
      BY DEF Lists
    <2> QED
      BY <1>3, <1>4, <1>6, <2>1, <2>2, ListReordered
  <1>7. CASE CreateQuestionsCommits(s)
    <2>1. PICK n \in 1 .. MaxOrder : \E new \in [1 .. n -> QuestionIds], prompt \in Values :
             /\ \A i, j \in 1 .. n : new[i] = new[j] => i = j
             /\ \A i \in 1 .. n : questions[new[i]] = NoQuestion
             /\ questions' = [q \in QuestionIds |->
                  IF \E i \in 1 .. n : new[i] = q
                  THEN NewQuestion(c.at, c.pos + (CHOOSE i \in 1 .. n : new[i] = q) - 1, prompt)
                  ELSE questions[q]]
      BY <1>7 DEF CreateQuestionsCommits
    <2>2. PICK new \in [1 .. n -> QuestionIds], prompt \in Values :
             /\ \A i, j \in 1 .. n : new[i] = new[j] => i = j
             /\ \A i \in 1 .. n : questions[new[i]] = NoQuestion
             /\ questions' = [q \in QuestionIds |->
                  IF \E i \in 1 .. n : new[i] = q
                  THEN NewQuestion(c.at, c.pos + (CHOOSE i \in 1 .. n : new[i] = q) - 1, prompt)
                  ELSE questions[q]]
      BY <2>1
    <2>3. PICK t \in TopicIds : t = c.at /\ c.list = t /\ t # NoOne
      BY <1>2, <1>7, LibraryAssumption
      DEF CreateQuestionsCommits, Prepared, RowChecked, ListNamed, TopicOps
    <2> DEFINE T == {new[i] : i \in 1 .. n}
    <2>4. \A i \in 1 .. n : (CHOOSE j \in 1 .. n : new[j] = new[i]) = i
      BY <2>2
    <2>5. \A i \in 1 .. n :
             /\ questions'[new[i]].pos = c.pos + i - 1
             /\ questions'[new[i]].topic = t /\ questions'[new[i]].live
             /\ questions[new[i]].topic = NoOne /\ ~questions[new[i]].live
      BY <2>2, <2>3, <2>4 DEF NewQuestion, NoQuestion
    <2>6. \A q \in QuestionIds \ T : questions'[q] = questions[q]
      BY <2>2
    <2>7. \A q \in T : /\ q \in QuestionIds
                       /\ questions'[q].topic = t /\ questions'[q].live
                       /\ questions[q].topic = NoOne /\ ~questions[q].live
      BY <2>5
    <2>8. T \subseteq QuestionIds /\ \A i \in 1 .. n : new[i] \in T
      OBVIOUS
    <2>9. /\ \A x \in T : questions'[x].pos \in c.pos .. (c.pos + n - 1)
          /\ \A k \in c.pos .. (c.pos + n - 1) : \E x \in T : questions'[x].pos = k
          /\ \A x, y \in T : questions'[x].pos = questions'[y].pos => x = y
      <3>1. ASSUME NEW x \in T PROVE questions'[x].pos \in c.pos .. (c.pos + n - 1)
        <4>1. PICK i \in 1 .. n : x = new[i]
          OBVIOUS
        <4>2. questions'[x].pos = c.pos + i - 1
          BY <2>5, <4>1
        <4> QED
          BY <1>2, <4>2
      <3>2. ASSUME NEW k \in c.pos .. (c.pos + n - 1) PROVE \E x \in T : questions'[x].pos = k
        <4>1. k - c.pos + 1 \in 1 .. n /\ c.pos + (k - c.pos + 1) - 1 = k
          BY <1>2
        <4>2. questions'[new[k - c.pos + 1]].pos = c.pos + (k - c.pos + 1) - 1
          BY <2>5, <4>1
        <4> QED
          BY <2>8, <4>1, <4>2
      <3>3. ASSUME NEW x \in T, NEW y \in T, questions'[x].pos = questions'[y].pos
            PROVE  x = y
        <4>1. PICK i \in 1 .. n : x = new[i]
          OBVIOUS
        <4>2. PICK j \in 1 .. n : y = new[j]
          OBVIOUS
        <4>3. c.pos + i - 1 = c.pos + j - 1
          BY <2>5, <3>3, <4>1, <4>2
        <4>4. i = j
          BY <1>2, <4>3
        <4> QED
          BY <4>1, <4>2, <4>4
      <3> QED
        BY <3>1, <3>2, <3>3
    <2> HIDE DEF T
    <2>10. QuestionsKept(t) /\ QuestionsOf(t)' = QuestionsOf(t) \cup T
      <3>1. QuestionsOf(t)' = QuestionsOf(t) \cup T
        BY <2>6, <2>7, <2>8 DEF QuestionsOf
      <3>2. \A p \in TopicIds \ {t} : QuestionsOf(p)' = QuestionsOf(p)
        BY <2>6, <2>7, <2>8 DEF QuestionsOf
      <3>3. \A p \in TopicIds : \A q \in QuestionsOf(p) : questions'[q].pos = questions[q].pos
        BY <2>6, <2>7 DEF QuestionsOf
      <3> QED
        BY <3>1, <3>2, <3>3 DEF QuestionsKept
    <2>11. c.fresh /\ t \notin disordered => Dense(QuestionsOf(t)', questions')
      <3> SUFFICES ASSUME c.fresh, t \notin disordered PROVE Dense(QuestionsOf(t)', questions')
        OBVIOUS
      <3>1. Dense(QuestionsOf(t), questions) /\ IsNext(QuestionsOf(t), questions, c.pos)
        BY <1>4, <1>5, <1>7, <2>3 DEF FreshReads, CreateQuestionsCommits
      <3>2. \A x \in QuestionsOf(t) :
               questions[x].pos \in Nat /\ questions'[x].pos = questions[x].pos
        BY <1>4, <2>6, <2>7 DEF TypeOK, QuestionRow, QuestionsOf
      <3>3. c.pos \in Nat /\ n \in Nat
        BY <1>2
      <3>4. Dense(QuestionsOf(t) \cup T, questions')
        BY <2>9, <3>1, <3>2, <3>3, DenseAppend
      <3> QED
        BY <2>10, <3>4
    <2> QED
      BY <1>6, <1>7, <2>3, <2>10, <2>11 DEF CreateQuestionsCommits
  <1>8. CASE CreateQuestionCommits(s)
    <2>1. PICK q \in QuestionIds :
             /\ questions[q] = NoQuestion
             /\ questions' = [questions EXCEPT ![q] = NewQuestion(c.at, c.pos, c.value)]
      BY <1>8 DEF CreateQuestionCommits
    <2>2. PICK t \in TopicIds : t = c.at /\ c.list = t /\ t # NoOne
      BY <1>2, <1>8, LibraryAssumption
      DEF CreateQuestionCommits, Prepared, RowChecked, ListNamed, TopicOps
    <2>3. /\ \A x \in QuestionIds \ {q} : questions'[x] = questions[x]
          /\ questions'[q].topic = t /\ questions'[q].live /\ questions'[q].pos = c.pos
          /\ questions[q].topic = NoOne /\ ~questions[q].live
      BY <1>4, <2>1, <2>2 DEF TypeOK, NoQuestion, NewQuestion
    <2>4. QuestionsKept(t) /\ QuestionsOf(t)' = QuestionsOf(t) \cup {q} /\ q \notin QuestionsOf(t)
      BY <2>2, <2>3 DEF QuestionsKept, QuestionsOf
    <2>5. c.fresh /\ t \notin disordered => Dense(QuestionsOf(t)', questions')
      <3> SUFFICES ASSUME c.fresh, t \notin disordered PROVE Dense(QuestionsOf(t)', questions')
        OBVIOUS
      <3>1. Dense(QuestionsOf(t), questions) /\ IsNext(QuestionsOf(t), questions, c.pos)
        BY <1>4, <1>5, <1>8, <2>2 DEF FreshReads, CreateQuestionCommits
      <3>2. \A x \in QuestionsOf(t) :
               questions[x].pos \in Nat /\ questions'[x].pos = questions[x].pos
        BY <1>4, <2>3, <2>4 DEF TypeOK, QuestionRow, QuestionsOf
      <3>3. Dense(QuestionsOf(t) \cup {q}, questions')
        BY <1>2, <2>3, <3>1, <3>2, DenseAppendOne
      <3> QED
        BY <2>4, <3>3
    <2> QED
      BY <1>6, <1>8, <2>2, <2>4, <2>5 DEF CreateQuestionCommits
  <1>9. CASE UpdateQuestionCommits(s) \/ SetQuestionDraftedCommits(s)
    <2>1. \A q \in QuestionIds :
             /\ questions'[q].topic = questions[q].topic /\ questions'[q].live = questions[q].live
             /\ questions'[q].pos = questions[q].pos
      <3>1. CASE UpdateQuestionCommits(s)
        BY <1>4, <3>1 DEF UpdateQuestionCommits, TypeOK, QuestionRow
      <3>2. CASE SetQuestionDraftedCommits(s)
        BY <1>4, <3>2 DEF SetQuestionDraftedCommits, TypeOK, QuestionRow
      <3> QED
        BY <1>9, <3>1, <3>2
    <2>2. QuestionsKept(NoOne)
      BY <2>1 DEF QuestionsKept, QuestionsOf
    <2> QED
      BY <1>3, <1>4, <1>9, <2>2, NothingReordered
      DEF UpdateQuestionCommits, SetQuestionDraftedCommits
  <1>10. CASE DeleteQuestionCommits(s)
    <2>1. PICK t \in TopicIds, x \in QuestionIds :
             t = c.list /\ x = c.at /\ questions[x].topic = t
      BY <1>2, <1>10 DEF DeleteQuestionCommits, Prepared, RowChecked, ListNamed, QuestionOps
    <2>2. questions' = [q \in QuestionIds |->
             IF q = x THEN [questions[q] EXCEPT !.live = FALSE]
             ELSE IF q \in QuestionsOf(t) /\ questions[q].pos > c.pos
               THEN [questions[q] EXCEPT !.pos = @ - 1]
             ELSE questions[q]]
      BY <1>10, <2>1 DEF DeleteQuestionCommits
    <2>3. \A q \in QuestionIds :
             /\ questions'[q].topic = questions[q].topic
             /\ questions'[q].live = (questions[q].live /\ q # x)
             /\ questions[q].pos \in Nat
             /\ q # x => questions'[q].pos = IF q \in QuestionsOf(t) /\ questions[q].pos > c.pos
                                             THEN questions[q].pos - 1 ELSE questions[q].pos
      BY <1>4, <2>2 DEF TypeOK, QuestionRow
    <2>4. QuestionsKept(t) /\ QuestionsOf(t)' = QuestionsOf(t) \ {x}
      <3>1. QuestionsOf(t)' = QuestionsOf(t) \ {x}
        BY <2>3 DEF QuestionsOf
      <3>2. \A p \in TopicIds \ {t} : QuestionsOf(p)' = QuestionsOf(p)
        BY <2>1, <2>3 DEF QuestionsOf
      <3>3. \A p \in TopicIds \ {t} : \A q \in QuestionsOf(p) :
               questions'[q].pos = questions[q].pos
        BY <2>1, <2>3 DEF QuestionsOf
      <3> QED
        BY <3>1, <3>2, <3>3 DEF QuestionsKept
    <2>5. c.fresh /\ t \notin disordered => Dense(QuestionsOf(t)', questions')
      <3> SUFFICES ASSUME c.fresh, t \notin disordered PROVE Dense(QuestionsOf(t)', questions')
        OBVIOUS
      <3>1. Dense(QuestionsOf(t), questions) /\ x \in QuestionsOf(t) /\ questions[x].pos = c.pos
        BY <1>4, <1>5, <1>10, <2>1 DEF FreshReads, DeleteQuestionCommits
      <3>2. /\ \A y \in QuestionsOf(t) : questions[y].pos \in Nat
            /\ \A y \in QuestionsOf(t) \ {x} :
                 questions'[y].pos = IF questions[y].pos > questions[x].pos
                                     THEN questions[y].pos - 1 ELSE questions[y].pos
        BY <2>3, <3>1 DEF QuestionsOf
      <3>3. Dense(QuestionsOf(t) \ {x}, questions')
        BY <3>1, <3>2, DenseRemove
      <3> QED
        BY <2>4, <3>3
    <2> QED
      BY <1>6, <1>10, <2>1, <2>4, <2>5 DEF DeleteQuestionCommits
  <1>11. CASE ReorderQuestionsCommits(s)
    <2>1. PICK t \in TopicIds : t = c.at /\ c.list = t
      BY <1>2, <1>11 DEF ReorderQuestionsCommits, Prepared, RowChecked, ListNamed, TopicOps
    <2>2. \A q \in Listed(c.order) : q \in QuestionIds /\ questions[q].topic = t
      BY <1>2, <1>11, <2>1 DEF ReorderQuestionsCommits, Prepared, OrderChecked
    <2>3. \A q \in QuestionIds :
             /\ questions'[q].topic = questions[q].topic /\ questions'[q].live = questions[q].live
             /\ q \notin Listed(c.order) => questions'[q] = questions[q]
             /\ q \in Listed(c.order) => questions'[q].pos = PlaceIn(c.order, q)
      BY <1>4, <1>11 DEF ReorderQuestionsCommits, TypeOK, QuestionRow
    <2>4. QuestionsKept(t) /\ QuestionsOf(t)' = QuestionsOf(t)
      <3>1. \A p \in TopicIds : QuestionsOf(p)' = QuestionsOf(p)
        BY <2>3 DEF QuestionsOf
      <3>2. \A p \in TopicIds \ {t} : \A q \in QuestionsOf(p) :
               questions'[q].pos = questions[q].pos
        BY <2>2, <2>3 DEF QuestionsOf
      <3> QED
        BY <3>1, <3>2 DEF QuestionsKept
    <2>5. c.fresh => Dense(QuestionsOf(t)', questions')
      <3> SUFFICES ASSUME c.fresh PROVE Dense(QuestionsOf(t)', questions')
        OBVIOUS
      <3>1. OrderOf(QuestionsOf(t), c.order)
        BY <1>4, <1>11, <2>1 DEF FreshReads, ReorderQuestionsCommits
      <3>2. \A q \in QuestionsOf(t) : questions'[q].pos = PlaceIn(c.order, q)
        BY <2>3, <3>1 DEF OrderOf, Listed, QuestionsOf
      <3>3. Len(c.order) \in Nat
        BY <1>2
      <3> QED
        BY <2>4, <3>1, <3>2, <3>3, DenseReorder
    <2> QED
      BY <1>6, <1>11, <2>1, <2>4, <2>5 DEF ReorderQuestionsCommits
  <1> QED
    BY <1>7, <1>8, <1>9, <1>10, <1>11

\* Commits that write tags.
LEMMA TagsReordered ==
    ASSUME OrderInv, NEW s \in Slots,
           CreateTagCommits(s) \/ UpdateTagCommits(s) \/ DeleteTagCommits(s)
    PROVE  Reordered(s)
  <1> DEFINE c == calls[s]
  <1>1. UNCHANGED <<questions, drafts>>
    BY DEF CreateTagCommits, UpdateTagCommits, DeleteTagCommits
  <1>2. \A l : TopicsKept(l) /\ TagsKept(l) => ListsKept(l)
    BY <1>1, UnchangedIsKept DEF ListsKept
  <1>3. TypeOK
    BY DEF OrderInv, OwnerInv
  <1>4. CASE CreateTagCommits(s)
    <2>1. TagsKept(NoOne)
      BY <1>3, <1>4 DEF CreateTagCommits, TagsKept, TypeOK
    <2>2. UNCHANGED topics /\ Ends(s)
      BY <1>4 DEF CreateTagCommits
    <2> QED
      BY <1>2, <1>3, <2>1, <2>2, UnchangedIsKept, NothingReordered
  <1>5. CASE DeleteTagCommits(s)
    <2>1. TagsKept(NoOne)
      BY <1>3, <1>5 DEF DeleteTagCommits, TagsKept, TypeOK, TagRow
    <2>2. /\ Ends(s)
          /\ \A t \in TopicIds : /\ topics'[t].owner = topics[t].owner
                                 /\ topics'[t].live = topics[t].live
                                 /\ topics'[t].pos = topics[t].pos
      BY <1>3, <1>5 DEF DeleteTagCommits, TypeOK, TopicRow
    <2>3. TopicsKept(NoOne)
      BY <2>2 DEF TopicsKept, TopicsOf
    <2> QED
      BY <1>2, <1>3, <2>1, <2>2, <2>3, NothingReordered
  <1>6. CASE UpdateTagCommits(s)
    <2>1. UNCHANGED topics /\ c.op = "updateTag"
      BY <1>6 DEF UpdateTagCommits
    <2>2. CASE Ends(s) /\ UNCHANGED tags
      BY <1>2, <1>3, <2>1, <2>2, UnchangedIsKept, NothingReordered
    <2>3. CASE /\ ListWritten(s, FALSE)
               /\ tags' = [tags EXCEPT ![c.at].name = c.value, ![c.at].color = c.color]
      <3>1. PICK g \in TagIds : g = c.at /\ c.list = g
        BY <2>1, CallAtCommit DEF OrderInv, Prepared, RowChecked, ListNamed
      <3>2. TagsKept(g)
        BY <1>3, <2>3, <3>1 DEF TagsKept, TypeOK, TagRow
      <3>3. InOrderAfter(g) /\ g \in Lists
        BY LibraryAssumption DEF InOrderAfter, Lists
      <3> QED
        BY <1>2, <1>3, <2>1, <2>3, <3>1, <3>2, <3>3, UnchangedIsKept, ListReordered
    <2> QED
      BY <1>6, <2>2, <2>3 DEF UpdateTagCommits
  <1> QED
    BY <1>4, <1>5, <1>6

\* Commits that write drafts.
LEMMA DraftsReordered ==
    ASSUME OrderInv, NEW s \in Slots,
           CreateDraftCommits(s) \/ UpdateDraftCommits(s)
             \/ DeleteDraftCommits(s) \/ ReorderDraftsCommits(s)
    PROVE  Reordered(s)
  <1> DEFINE c == calls[s]
  <1>1. /\ c.op \in {"createDraft", "updateDraft", "deleteDraft", "reorderDrafts"}
        /\ UNCHANGED <<topics, tags, questions>>
    BY DEF CreateDraftCommits, UpdateDraftCommits, DeleteDraftCommits, ReorderDraftsCommits
  <1>2. /\ c \in Calls /\ Prepared(c) /\ c.pos \in Nat
        /\ c.order \in Seq(TopicIds \cup QuestionIds \cup DraftIds)
    BY <1>1, CallAtCommit DEF OrderInv, Calls
  <1>3. \A l : DraftsKept(l) => ListsKept(l)
    BY <1>1, UnchangedIsKept DEF ListsKept
  <1>4. TypeOK /\ FreshReads(c) /\ DraftsAreOrdered
    BY DEF OrderInv, OwnerInv, CallsFresh
  <1>5. CASE UpdateDraftCommits(s) \/ DeleteDraftCommits(s)
    <2>1. \A d \in DraftIds :
             /\ drafts'[d].question = drafts[d].question /\ drafts'[d].pos = drafts[d].pos
             /\ drafts'[d].live => drafts[d].live
      <3>1. CASE UpdateDraftCommits(s)
        BY <1>4, <3>1 DEF UpdateDraftCommits, TypeOK, DraftRow
      <3>2. CASE DeleteDraftCommits(s)
        BY <1>4, <3>2 DEF DeleteDraftCommits, TypeOK, DraftRow
      <3> QED
        BY <1>5, <3>1, <3>2
    <2>2. DraftsKept(NoOne)
      BY <2>1 DEF DraftsKept, DraftsOf
    <2> QED
      BY <1>3, <1>4, <1>5, <2>2, NothingReordered DEF UpdateDraftCommits, DeleteDraftCommits
  <1>6. ASSUME NEW q \in QuestionIds, NEW ordered \in BOOLEAN, ListWritten(s, ordered),
               c.list = q, DraftsKept(q),
               c.fresh /\ (ordered \/ q \notin disordered) =>
                 \A d, e \in DraftsOf(q)' : drafts'[d].pos = drafts'[e].pos => d = e
        PROVE  Reordered(s)
    <2>1. q \in Lists /\ q \notin Users /\ q \notin TopicIds
      BY LibraryAssumption DEF Lists
    <2>2. c.fresh /\ (ordered \/ q \notin disordered) => InOrderAfter(q)
      BY <1>6, <2>1 DEF InOrderAfter
    <2> QED
      BY <1>3, <1>4, <1>6, <2>1, <2>2, ListReordered
  <1>7. CASE CreateDraftCommits(s)
    <2>1. PICK d \in DraftIds :
             /\ drafts[d] = NoDraft
             /\ drafts' = [drafts EXCEPT ![d] =
                  [question |-> c.at, live |-> TRUE, pos |-> c.pos, content |-> c.value]]
      BY <1>7 DEF CreateDraftCommits
    <2>2. PICK q \in QuestionIds : q = c.at /\ c.list = q /\ q # NoOne
      BY <1>2, <1>7, LibraryAssumption
      DEF CreateDraftCommits, Prepared, RowChecked, ListNamed, QuestionOps
    <2>3. /\ \A e \in DraftIds \ {d} : drafts'[e] = drafts[e]
          /\ drafts'[d].question = q /\ drafts'[d].live /\ drafts'[d].pos = c.pos
          /\ drafts[d].question = NoOne /\ ~drafts[d].live
      BY <1>4, <2>1, <2>2 DEF TypeOK, NoDraft
    <2>4. DraftsKept(q) /\ DraftsOf(q)' = DraftsOf(q) \cup {d} /\ d \notin DraftsOf(q)
      BY <2>2, <2>3 DEF DraftsKept, DraftsOf
    <2>5. c.fresh /\ q \notin disordered =>
            \A e, f \in DraftsOf(q)' : drafts'[e].pos = drafts'[f].pos => e = f
      <3> SUFFICES ASSUME c.fresh, q \notin disordered,
                          NEW e \in DraftsOf(q) \cup {d}, NEW f \in DraftsOf(q) \cup {d},
                          drafts'[e].pos = drafts'[f].pos
                   PROVE  e = f
        BY <2>4
      <3>1. /\ \A x \in DraftsOf(q) : drafts[x].pos < c.pos /\ drafts[x].pos \in Nat
            /\ \A x, y \in DraftsOf(q) : drafts[x].pos = drafts[y].pos => x = y
        BY <1>4, <1>7, <2>2
        DEF FreshReads, CreateDraftCommits, DraftsAreOrdered, TypeOK, DraftRow, DraftsOf
      <3>2. \A x \in DraftsOf(q) : drafts'[x].pos = drafts[x].pos
        BY <2>3, <2>4 DEF DraftsOf
      <3> QED
        BY <1>2, <2>3, <3>1, <3>2
    <2> QED
      BY <1>6, <1>7, <2>2, <2>4, <2>5 DEF CreateDraftCommits
  <1>8. CASE ReorderDraftsCommits(s)
    <2>1. PICK q \in QuestionIds : q = c.at /\ c.list = q
      BY <1>2, <1>8 DEF ReorderDraftsCommits, Prepared, RowChecked, ListNamed, QuestionOps
    <2>2. \A d \in DraftIds :
             /\ drafts'[d].question = drafts[d].question /\ drafts'[d].live = drafts[d].live
             /\ d \notin DraftsOf(q) => drafts'[d] = drafts[d]
             /\ d \in DraftsOf(q) /\ d \in Listed(c.order) =>
                  drafts'[d].pos = PlaceIn(c.order, d)
      BY <1>4, <1>8, <2>1 DEF ReorderDraftsCommits, TypeOK, DraftRow
    <2>3. DraftsKept(q) /\ DraftsOf(q)' = DraftsOf(q)
      <3>1. \A p \in QuestionIds : DraftsOf(p)' = DraftsOf(p)
        BY <2>2 DEF DraftsOf
      <3>2. \A p \in QuestionIds \ {q} : \A d \in DraftsOf(p) : drafts'[d].pos = drafts[d].pos
        BY <2>2 DEF DraftsOf
      <3> QED
        BY <3>1, <3>2 DEF DraftsKept
    <2>4. c.fresh => \A d, e \in DraftsOf(q)' : drafts'[d].pos = drafts'[e].pos => d = e
      <3> SUFFICES ASSUME c.fresh, NEW d \in DraftsOf(q), NEW e \in DraftsOf(q),
                          drafts'[d].pos = drafts'[e].pos
                   PROVE  d = e
        BY <2>3
      <3>1. d \in Listed(c.order) /\ e \in Listed(c.order)
        BY <1>4, <1>8, <2>1 DEF FreshReads, ReorderDraftsCommits
      <3>2. PlaceIn(c.order, d) = PlaceIn(c.order, e)
        BY <2>2, <3>1 DEF DraftsOf
      <3> QED
        BY <1>2, <3>1, <3>2, PlaceInListed
    <2> QED
      BY <1>6, <1>8, <2>1, <2>3, <2>4 DEF ReorderDraftsCommits
  <1> QED
    BY <1>5, <1>7, <1>8

\* Every commit writes one list, or none.
LEMMA CommitsReorder ==
    ASSUME OrderInv, NEW s \in Slots, Commits(s)
    PROVE  Reordered(s)
  BY TopicsReordered, TagsReordered, QuestionsReordered, DraftsReordered DEF Commits
-----------------------------------------------------------------------------
(* The invariant. *)

\* What a call of a topic or tag route has read when it arrives is so.
LEMMA TopicCallsReadTruth ==
    ASSUME TypeOK, NEW s \in Slots, NEW u \in Users,
           \/ PostTopics(s, u) \/ PatchTopic(s, u) \/ DeleteTopic(s, u) \/ PutTopicsReorder(s, u)
           \/ PostTags(s, u) \/ PatchTag(s, u) \/ DeleteTag(s, u)
    PROVE  FreshReads(calls'[s])
  <1> USE DEF Arrive, TypeOK, Blank, FreshReads
  <1>1. CASE PostTopics(s, u)
    <2>1. PICK o \in Scopes(u), tagIds \in SUBSET TagIds : CreateTopicArrives(s, u, o, tagIds)
      BY <1>1 DEF PostTopics
    <2> QED
      BY <2>1 DEF CreateTopicArrives
  <1>2. CASE PatchTopic(s, u)
    <2>1. PICK o \in Scopes(u), t \in TopicIds, tagIds \in SUBSET TagIds :
             UpdateTopicArrives(s, u, o, t, tagIds)
      BY <1>2 DEF PatchTopic
    <2> QED
      BY <2>1 DEF UpdateTopicArrives
  <1>3. CASE DeleteTopic(s, u)
    <2>1. PICK o \in Scopes(u), t \in TopicIds : DeleteTopicArrives(s, u, o, t)
      BY <1>3 DEF DeleteTopic
    <2> QED
      BY <2>1 DEF DeleteTopicArrives
  <1>4. CASE PutTopicsReorder(s, u)
    <2>1. PICK o \in Scopes(u), order \in OrdersOver(TopicIds) :
             ReorderTopicsArrives(s, u, o, order)
      BY <1>4 DEF PutTopicsReorder
    <2> QED
      BY <2>1 DEF ReorderTopicsArrives
  <1>5. CASE PostTags(s, u)
    <2>1. PICK o \in Scopes(u), name \in Names : CreateTagArrives(s, u, o, name)
      BY <1>5 DEF PostTags
    <2> QED
      BY <2>1 DEF CreateTagArrives
  <1>6. CASE PatchTag(s, u)
    <2>1. PICK o \in Scopes(u), g \in TagIds,
               name \in Names \cup {NoOne}, color \in Values \cup {NoOne} :
             UpdateTagArrives(s, u, o, g, name, color)
      BY <1>6 DEF PatchTag
    <2>2. /\ calls'[s].op = "updateTag" /\ calls'[s].at = g
          /\ calls'[s].value = tags[g].name \/ "name" \in calls'[s].edits
          /\ calls'[s].color = tags[g].color \/ "color" \in calls'[s].edits
      BY <2>1 DEF UpdateTagArrives
    <2> QED
      BY <2>2
  <1>7. CASE DeleteTag(s, u)
    <2>1. PICK o \in Scopes(u), g \in TagIds : DeleteTagArrives(s, u, o, g)
      BY <1>7 DEF DeleteTag
    <2> QED
      BY <2>1 DEF DeleteTagArrives
  <1> QED
    BY <1>1, <1>2, <1>3, <1>4, <1>5, <1>6, <1>7

\* What a call of a question or draft route has read when it arrives is so,
\* or the client named another position and the call is not fresh.
LEMMA QuestionCallsReadTruth ==
    ASSUME TypeOK, NEW s \in Slots, NEW u \in Users,
           \/ PostQuestionsBulk(s, u) \/ PostQuestions(s, u) \/ PatchQuestion(s, u)
           \/ DeleteQuestion(s, u) \/ PutQuestionsReorder(s, u) \/ PutDrafted(s, u)
           \/ PostDrafts(s, u) \/ PatchDraft(s, u) \/ DeleteDraft(s, u) \/ PutDraftsReorder(s, u)
    PROVE  FreshReads(calls'[s])
  <1> USE DEF Arrive, TypeOK, Blank, FreshReads
  <1>1. CASE PostQuestionsBulk(s, u)
    <2>1. PICK o \in Scopes(u), t \in TopicIds : CreateQuestionsArrives(s, u, o, t)
      BY <1>1 DEF PostQuestionsBulk
    <2> QED
      BY <2>1 DEF CreateQuestionsArrives
  <1>2. CASE PostQuestions(s, u)
    <2>1. PICK o \in Scopes(u), t \in TopicIds, p \in Positions, prompt \in Values :
             CreateQuestionArrives(s, u, o, t, p, prompt)
      BY <1>2 DEF PostQuestions
    <2> QED
      BY <2>1 DEF CreateQuestionArrives
  <1>3. CASE PatchQuestion(s, u)
    <2>1. PICK o \in Scopes(u), q \in QuestionIds, prompt \in Values \cup {NoOne} :
             UpdateQuestionArrives(s, u, o, q, prompt)
      BY <1>3 DEF PatchQuestion
    <2> QED
      BY <2>1 DEF UpdateQuestionArrives
  <1>4. CASE DeleteQuestion(s, u)
    <2>1. PICK o \in Scopes(u), q \in QuestionIds : DeleteQuestionArrives(s, u, o, q)
      BY <1>4 DEF DeleteQuestion
    <2> QED
      BY <2>1 DEF DeleteQuestionArrives, ReachableQuestions, QuestionsOf
  <1>5. CASE PutQuestionsReorder(s, u)
    <2>1. PICK o \in Scopes(u), t \in TopicIds, order \in OrdersOver(QuestionIds) :
             ReorderQuestionsArrives(s, u, o, t, order)
      BY <1>5 DEF PutQuestionsReorder
    <2> QED
      BY <2>1 DEF ReorderQuestionsArrives
  <1>6. CASE PutDrafted(s, u)
    <2>1. PICK o \in Scopes(u), q \in QuestionIds, drafted \in BOOLEAN :
             SetQuestionDraftedArrives(s, u, o, q, drafted)
      BY <1>6 DEF PutDrafted
    <2> QED
      BY <2>1 DEF SetQuestionDraftedArrives
  <1>7. CASE PostDrafts(s, u)
    <2>1. PICK o \in Scopes(u), q \in QuestionIds, content \in Values :
             CreateDraftArrives(s, u, o, q, content)
      BY <1>7 DEF PostDrafts
    <2> QED
      BY <2>1 DEF CreateDraftArrives, IsNext
  <1>8. CASE PatchDraft(s, u)
    <2>1. PICK o \in Scopes(u), d \in DraftIds, content \in Values :
             UpdateDraftArrives(s, u, o, d, content)
      BY <1>8 DEF PatchDraft
    <2> QED
      BY <2>1 DEF UpdateDraftArrives
  <1>9. CASE DeleteDraft(s, u)
    <2>1. PICK o \in Scopes(u), d \in DraftIds : DeleteDraftArrives(s, u, o, d)
      BY <1>9 DEF DeleteDraft
    <2> QED
      BY <2>1 DEF DeleteDraftArrives
  <1>10. CASE PutDraftsReorder(s, u)
    <2>1. PICK o \in Scopes(u), q \in QuestionIds, order \in OrdersOver(DraftIds) :
             ReorderDraftsArrives(s, u, o, q, order)
      BY <1>10 DEF PutDraftsReorder
    <2> QED
      BY <2>1 DEF ReorderDraftsArrives, OrderOf, Listed
  <1> QED
    BY <1>1, <1>2, <1>3, <1>4, <1>5, <1>6, <1>7, <1>8, <1>9, <1>10

\* The library at the start is in order, and no call is in flight.
LEMMA InitOrderInv == Init => OrderInv
  <1> SUFFICES ASSUME Init PROVE OrderInv
    OBVIOUS
  <1>1. OwnerInv
    BY InitOwnerInv
  <1>2. CallsFresh
    BY DEF Init, CallsFresh, FreshReads, Idle, Blank
  <1>3. OrderIsDense
    BY SeedAssumption DEF Init, OrderIsDense, TopicsOf, QuestionsOf
  <1>4. DraftsAreOrdered
    BY SeedAssumption DEF Init, DraftsAreOrdered, DraftsOf
  <1> QED
    BY <1>1, <1>2, <1>3, <1>4 DEF OrderInv

\* Nothing read is out of date while the tables stay.
LEMMA UnchangedKeepsReads ==
    ASSUME UNCHANGED <<topics, tags, questions, drafts>>, NEW c, FreshReads(c)
    PROVE  FreshReads(c)'
  BY DEF FreshReads, TopicsOf, QuestionsOf, DraftsOf

\* Arrivals keep the invariant.
LEMMA ArrivalKeepsOrder ==
    ASSUME OrderInv, NEW s \in Slots, NEW u \in Users, CanArrive(s), Arrives(s, u)
    PROVE  OrderInv'
  <1>1. TypeOK /\ OwnerInv'
    BY ArrivalKeepsInv DEF OrderInv, OwnerInv
  <1>2. PICK call \in Calls : Arrive(s, call)
    BY <1>1, ArrivalsArePrepared
  <1>3. UNCHANGED <<topics, tags, questions, drafts, disordered>>
    BY <1>2 DEF Arrive
  <1>4. FreshReads(calls'[s])
    BY <1>1, TopicCallsReadTruth, QuestionCallsReadTruth DEF Arrives
  <1>5. ASSUME NEW x \in Slots PROVE FreshReads(calls[x])'
    <2>1. PICK c : c = calls'[x] /\ FreshReads(c)
      BY <1>1, <1>2, <1>4 DEF Arrive, TypeOK, OrderInv, CallsFresh
    <2>2. FreshReads(c)'
      BY <1>3, <2>1, UnchangedKeepsReads
    <2> QED
      BY <2>1, <2>2
  <1>6. OrderIsDense' /\ DraftsAreOrdered'
    BY <1>3
    DEF OrderInv, OrderIsDense, DraftsAreOrdered, Dense, TopicsOf, QuestionsOf, DraftsOf
  <1> QED
    BY <1>1, <1>5, <1>6 DEF OrderInv, CallsFresh

\* A fresh call's reads survive a commit on another list.
LEMMA KeptListsKeepReads ==
    ASSUME NEW l, ListsKept(l), NEW c, Prepared(c), FreshReads(c), c.list # l
    PROVE  FreshReads(c)'
  <1> SUFFICES ASSUME c.fresh PROVE FreshReads(c)'
    BY DEF FreshReads
  <1>1. ASSUME c.op \in {"createTopic", "deleteTopic", "reorderTopics"}
        PROVE  FreshReads(c)'
    <2>1. c.scope \in Users \ {l}
      BY <1>1 DEF Prepared, Scoped, ListNamed
    <2>2. /\ TopicsOf(c.scope)' = TopicsOf(c.scope)
          /\ \A t \in TopicsOf(c.scope) : topics'[t].pos = topics[t].pos
      BY <2>1 DEF ListsKept, TopicsKept
    <2> QED
      BY <1>1, <2>2 DEF FreshReads, IsNext, OrderOf
  <1>2. ASSUME c.op \in {"createQuestions", "createQuestion", "reorderQuestions"}
        PROVE  FreshReads(c)'
    <2>1. c.at \in TopicIds \ {l}
      BY <1>2 DEF Prepared, RowChecked, ListNamed, TopicOps
    <2>2. /\ QuestionsOf(c.at)' = QuestionsOf(c.at)
          /\ \A q \in QuestionsOf(c.at) : questions'[q].pos = questions[q].pos
      BY <2>1 DEF ListsKept, QuestionsKept
    <2> QED
      BY <1>2, <2>2 DEF FreshReads, IsNext, OrderOf
  <1>3. ASSUME c.op = "deleteQuestion" PROVE FreshReads(c)'
    <2>1. c.list \in TopicIds \ {l}
      BY <1>3 DEF Prepared, RowChecked, ListNamed, QuestionOps
    <2>2. /\ QuestionsOf(c.list)' = QuestionsOf(c.list)
          /\ \A q \in QuestionsOf(c.list) : questions'[q].pos = questions[q].pos
      BY <2>1 DEF ListsKept, QuestionsKept
    <2> QED
      BY <1>3, <2>2 DEF FreshReads
  <1>4. ASSUME c.op \in {"createDraft", "reorderDrafts"} PROVE FreshReads(c)'
    <2>1. c.at \in QuestionIds \ {l}
      BY <1>4 DEF Prepared, RowChecked, ListNamed, QuestionOps
    <2>2. /\ DraftsOf(c.at)' \subseteq DraftsOf(c.at)
          /\ \A d \in DraftsOf(c.at) : drafts'[d].pos = drafts[d].pos
      BY <2>1 DEF ListsKept, DraftsKept
    <2> QED
      BY <1>4, <2>2 DEF FreshReads
  <1>5. ASSUME c.op = "updateTag" PROVE FreshReads(c)'
    <2>1. c.at \in TagIds \ {l} /\ tags[c.at].owner \in Users
      BY <1>5 DEF Prepared, Scoped, RowChecked, ListNamed
    <2>2. tags[c.at] # NoTag
      BY <2>1, LibraryAssumption DEF NoTag
    <2>3. tags'[c.at].name = tags[c.at].name /\ tags'[c.at].color = tags[c.at].color
      BY <2>1, <2>2 DEF ListsKept, TagsKept
    <2> QED
      BY <1>5, <2>3 DEF FreshReads
  <1> QED
    BY <1>1, <1>2, <1>3, <1>4, <1>5 DEF FreshReads

\* Commits keep the invariant.
LEMMA CommitKeepsOrder ==
    ASSUME OrderInv, NEW s \in Slots, Commits(s)
    PROVE  OrderInv'
  <1>1. OwnerInv' /\ CallsAfter(s)
    BY CommitKeepsInv, CommitsAreOwn DEF OrderInv
  <1>2. PICK l \in Lists \cup {NoOne} :
           /\ ListsKept(l)
           /\ \A x \in Slots \ {s} : calls'[x].fresh =>
                calls'[x] = calls[x] /\ (l = NoOne \/ calls[x].list # l)
           /\ disordered' \ {l} = disordered \ {l}
           /\ l \in disordered' \/ InOrderAfter(l)
    BY CommitsReorder DEF Reordered
  <1>3. ASSUME NEW x \in Slots PROVE FreshReads(calls[x])'
    <2>1. CASE x = s
      BY <1>1, <2>1 DEF CallsAfter, Idle, Blank, FreshReads
    <2>2. CASE ~calls'[x].fresh
      BY <2>2 DEF FreshReads
    <2>3. CASE x # s /\ calls'[x].fresh
      <3>1. PICK c : c = calls[x] /\ c = calls'[x] /\ Prepared(c) /\ FreshReads(c)
        BY <1>2, <2>3 DEF OrderInv, OwnerInv, CallsPrepared, CallsFresh
      <3>2. CASE c.list # l
        BY <1>2, <3>1, <3>2, KeptListsKeepReads
      <3>3. CASE c.list = l
        <4>1. l = NoOne
          BY <1>2, <2>3, <3>1, <3>3
        <4>2. c.op \notin {"createTopic", "deleteTopic", "reorderTopics", "createQuestions",
                           "createQuestion", "reorderQuestions", "deleteQuestion",
                           "createDraft", "reorderDrafts", "updateTag"}
          BY <3>1, <3>3, <4>1, LibraryAssumption
          DEF Prepared, Scoped, RowChecked, ListNamed, TopicOps, QuestionOps
        <4>3. FreshReads(c)'
          BY <4>2 DEF FreshReads
        <4> QED
          BY <3>1, <4>3
      <3> QED
        BY <3>1, <3>2, <3>3
    <2> QED
      BY <2>1, <2>2, <2>3
  <1>4. OrderIsDense'
    <2>1. ASSUME NEW o \in Users, o \notin disordered'
          PROVE  Dense(TopicsOf(o)', topics')
      <3>1. CASE o = l
        BY <1>2, <2>1, <3>1 DEF InOrderAfter
      <3>2. CASE o # l
        <4>1. /\ Dense(TopicsOf(o), topics) /\ TopicsOf(o)' = TopicsOf(o)
              /\ \A t \in TopicsOf(o) : topics'[t].pos = topics[t].pos
          BY <1>2, <2>1, <3>2 DEF OrderInv, OrderIsDense, ListsKept, TopicsKept
        <4> QED
          BY <4>1 DEF Dense
      <3> QED
        BY <3>1, <3>2
    <2>2. ASSUME NEW t \in TopicIds, t \notin disordered'
          PROVE  Dense(QuestionsOf(t)', questions')
      <3>1. CASE t = l
        BY <1>2, <2>2, <3>1 DEF InOrderAfter
      <3>2. CASE t # l
        <4>1. /\ Dense(QuestionsOf(t), questions) /\ QuestionsOf(t)' = QuestionsOf(t)
              /\ \A q \in QuestionsOf(t) : questions'[q].pos = questions[q].pos
          BY <1>2, <2>2, <3>2 DEF OrderInv, OrderIsDense, ListsKept, QuestionsKept
        <4> QED
          BY <4>1 DEF Dense
      <3> QED
        BY <3>1, <3>2
    <2> QED
      BY <2>1, <2>2 DEF OrderIsDense
  <1>5. DraftsAreOrdered'
    <2>1. ASSUME NEW q \in QuestionIds, q \notin disordered',
                 NEW d \in DraftsOf(q)', NEW e \in DraftsOf(q)', drafts'[d].pos = drafts'[e].pos
          PROVE  d = e
      <3>1. CASE q = l
        BY <1>2, <2>1, <3>1 DEF InOrderAfter
      <3>2. CASE q # l
        BY <1>2, <2>1, <3>2 DEF OrderInv, DraftsAreOrdered, ListsKept, DraftsKept
      <3> QED
        BY <3>1, <3>2
    <2> QED
      BY <2>1 DEF DraftsAreOrdered
  <1> QED
    BY <1>1, <1>3, <1>4, <1>5 DEF OrderInv, CallsFresh

\* Every step keeps the invariant.
LEMMA StepOrderInv == OrderInv /\ [Next]_vars => OrderInv'
  <1> SUFFICES ASSUME OrderInv, [Next]_vars PROVE OrderInv'
    OBVIOUS
  <1>1. CASE UNCHANGED vars
    <2>1. OwnerInv'
      BY <1>1, StepOwnerInv DEF OrderInv
    <2>2. CallsFresh'
      BY <1>1 DEF vars, OrderInv, CallsFresh, FreshReads, TopicsOf, QuestionsOf, DraftsOf
    <2>3. OrderIsDense' /\ DraftsAreOrdered'
      BY <1>1
      DEF vars, OrderInv, OrderIsDense, DraftsAreOrdered, Dense, TopicsOf, QuestionsOf, DraftsOf
    <2> QED
      BY <2>1, <2>2, <2>3 DEF OrderInv
  <1>2. CASE Next
    BY <1>2, ArrivalKeepsOrder, CommitKeepsOrder DEF Next
  <1> QED
    BY <1>1, <1>2

\* The invariant holds of every reachable state.
LEMMA LibraryKeepsOrder == Spec => []OrderInv
  BY InitOrderInv, StepOrderInv, PTL DEF Spec
-----------------------------------------------------------------------------
\* Topics of an owner and questions of a topic keep dense positions through any
\* number of calls, but where calls overlapped or a client named a position
\* (topics.ts 163-297, 346-462: "so positions stay dense and stable").
THEOREM PositionsStayDense == Spec => []OrderIsDense
  <1>1. OrderInv => OrderIsDense
    BY DEF OrderInv
  <1> QED
    BY <1>1, LibraryKeepsOrder, PTL

\* Drafts of a question keep positions of their own, although a deletion leaves
\* a gap and creation takes the next (records.ts 178-315).
THEOREM DraftsKeepOrder == Spec => []DraftsAreOrdered
  <1>1. OrderInv => DraftsAreOrdered
    BY DEF OrderInv
  <1> QED
    BY <1>1, LibraryKeepsOrder, PTL

\* An edit of a tag leaves the field its request did not name, although
\* updateTag writes every column back, unless another edit came in between
\* (tags.ts 60-84).
THEOREM TagFieldsStay == Spec => UnnamedFieldsStay
  <1> DEFINE Named(g) ==
        (tags[g] # NoTag /\ g \notin disordered') =>
          /\ tags'[g].name # tags[g].name =>
               \E s \in Slots : calls[s].at = g /\ "name" \in calls[s].edits
          /\ tags'[g].color # tags[g].color =>
               \E s \in Slots : calls[s].at = g /\ "color" \in calls[s].edits
  <1>1. ASSUME OrderInv, Next, NEW g \in TagIds PROVE Named(g)
    <2>1. CASE UNCHANGED tags
      BY <2>1
    <2>2. CASE \E s \in Slots : UpdateTagCommits(s)
      <3>1. PICK s \in Slots : UpdateTagCommits(s)
        BY <2>2
      <3>2. CASE tags' = [tags EXCEPT ![calls[s].at].name = calls[s].value,
                                      ![calls[s].at].color = calls[s].color]
                 /\ ListWritten(s, FALSE)
        <4>1. /\ calls[s].op = "updateTag" /\ calls[s].list = calls[s].at /\ FreshReads(calls[s])
              /\ TypeOK
          BY <1>1, <3>1
          DEF UpdateTagCommits, OrderInv, OwnerInv, CallsPrepared, CallsFresh, Prepared, ListNamed
        <4>2. CASE calls[s].at # g
          BY <3>2, <4>1, <4>2 DEF TypeOK
        <4>3. CASE calls[s].at = g /\ ~calls[s].fresh
          BY <3>2, <4>1, <4>3 DEF ListWritten
        <4>4. CASE calls[s].at = g /\ calls[s].fresh
          <5>1. tags'[g].name = calls[s].value /\ tags'[g].color = calls[s].color
            BY <3>2, <4>1, <4>4 DEF TypeOK, TagRow
          <5> QED
            BY <4>1, <4>4, <5>1 DEF FreshReads
        <4> QED
          BY <4>2, <4>3, <4>4
      <3> QED
        BY <2>1, <3>1, <3>2 DEF UpdateTagCommits
    <2>3. CASE \E s \in Slots : CreateTagCommits(s) \/ DeleteTagCommits(s)
      BY <1>1, <2>3 DEF CreateTagCommits, DeleteTagCommits, OrderInv, OwnerInv, TypeOK, TagRow
    <2>4. CASE \E s \in Slots, u \in Users : Arrives(s, u)
      BY <1>1, <2>1, <2>4, ArrivalsArePrepared DEF OrderInv, OwnerInv, Arrive
    <2>5. CASE \E s \in Slots : Commits(s) /\ ~UpdateTagCommits(s)
                                 /\ ~CreateTagCommits(s) /\ ~DeleteTagCommits(s)
      <3>1. UNCHANGED tags
        BY <2>5
        DEF Commits, CreateTopicCommits, UpdateTopicCommits, DeleteTopicCommits,
            ReorderTopicsCommits, CreateQuestionsCommits, CreateQuestionCommits,
            UpdateQuestionCommits, DeleteQuestionCommits, ReorderQuestionsCommits,
            SetQuestionDraftedCommits, CreateDraftCommits, UpdateDraftCommits,
            DeleteDraftCommits, ReorderDraftsCommits
      <3> QED
        BY <2>1, <3>1
    <2> HIDE DEF Named
    <2> QED
      BY <1>1, <2>2, <2>3, <2>4, <2>5 DEF Next
  <1>2. OrderInv /\ [Next]_vars => [\A g \in TagIds : Named(g)]_vars
    BY <1>1
  <1> QED
    BY <1>2, LibraryKeepsOrder, PTL DEF Spec, UnnamedFieldsStay
=============================================================================
