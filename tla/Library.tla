------------------------------- MODULE Library -------------------------------
(***************************************************************************)
(* The practice library: its calls together, and what must hold of it      *)
(* whatever calls overlap.  A route handler under apps/web/src/app/api     *)
(* resolves the owner scope from the session, parses the path and the body *)
(* and calls one service.  Titles, descriptions and colours other than the *)
(* ones in Values are left out.                                            *)
(***************************************************************************)
EXTENDS TopicRequests, QuestionRequests, DraftRequests

PostTopics(s, u) ==
    \E o \in Scopes(u), tagIds \in SUBSET TagIds : CreateTopicArrives(s, u, o, tagIds)

PatchTopic(s, u) ==
    \E o \in Scopes(u), t \in TopicIds, tagIds \in SUBSET TagIds :
      UpdateTopicArrives(s, u, o, t, tagIds)

DeleteTopic(s, u) ==
    \E o \in Scopes(u), t \in TopicIds : DeleteTopicArrives(s, u, o, t)

PutTopicsReorder(s, u) ==
    \E o \in Scopes(u), order \in OrdersOver(TopicIds) : ReorderTopicsArrives(s, u, o, order)

PostTags(s, u) ==
    \E o \in Scopes(u), name \in Names : CreateTagArrives(s, u, o, name)

PatchTag(s, u) ==
    \E o \in Scopes(u), g \in TagIds, name \in Names \cup {NoOne}, color \in Values \cup {NoOne} :
      /\ name # NoOne \/ color # NoOne
      /\ UpdateTagArrives(s, u, o, g, name, color)

DeleteTag(s, u) ==
    \E o \in Scopes(u), g \in TagIds : DeleteTagArrives(s, u, o, g)

PostQuestionsBulk(s, u) ==
    \E o \in Scopes(u), t \in TopicIds : CreateQuestionsArrives(s, u, o, t)

PostQuestions(s, u) ==
    \E o \in Scopes(u), t \in TopicIds, p \in Positions, prompt \in Values :
      CreateQuestionArrives(s, u, o, t, p, prompt)

PatchQuestion(s, u) ==
    \E o \in Scopes(u), q \in QuestionIds, prompt \in Values \cup {NoOne} :
      UpdateQuestionArrives(s, u, o, q, prompt)

DeleteQuestion(s, u) ==
    \E o \in Scopes(u), q \in QuestionIds : DeleteQuestionArrives(s, u, o, q)

PutQuestionsReorder(s, u) ==
    \E o \in Scopes(u), t \in TopicIds, order \in OrdersOver(QuestionIds) :
      ReorderQuestionsArrives(s, u, o, t, order)

PutDrafted(s, u) ==
    \E o \in Scopes(u), q \in QuestionIds, drafted \in BOOLEAN :
      SetQuestionDraftedArrives(s, u, o, q, drafted)

PostDrafts(s, u) ==
    \E o \in Scopes(u), q \in QuestionIds, content \in Values :
      CreateDraftArrives(s, u, o, q, content)

PatchDraft(s, u) ==
    \E o \in Scopes(u), d \in DraftIds, content \in Values : UpdateDraftArrives(s, u, o, d, content)

DeleteDraft(s, u) ==
    \E o \in Scopes(u), d \in DraftIds : DeleteDraftArrives(s, u, o, d)

PutDraftsReorder(s, u) ==
    \E o \in Scopes(u), q \in QuestionIds, order \in OrdersOver(DraftIds) :
      ReorderDraftsArrives(s, u, o, q, order)
-----------------------------------------------------------------------------

\* The positions of a list's rows are 0 .. n-1, each once.
Dense(S, rows) ==
    /\ \A x, y \in S : rows[x].pos = rows[y].pos => x = y
    /\ \A x \in S : \A k \in 0 .. (rows[x].pos - 1) : \E y \in S : rows[y].pos = k

\* The library at the start is one that calls could have made one by one.
ASSUME SeedAssumption ==
    /\ Seed.topics \in [TopicIds -> TopicRow] /\ Seed.tags \in [TagIds -> TagRow]
    /\ Seed.questions \in [QuestionIds -> QuestionRow] /\ Seed.drafts \in [DraftIds -> DraftRow]
    /\ \A t \in TopicIds : \A g \in Seed.topics[t].tags :
         Seed.tags[g].live /\ Seed.tags[g].owner = Seed.topics[t].owner
    /\ \A o \in Users :
         Dense({t \in TopicIds : Seed.topics[t].owner = o /\ Seed.topics[t].live}, Seed.topics)
    /\ \A t \in TopicIds :
         Dense({q \in QuestionIds : Seed.questions[q].topic = t /\ Seed.questions[q].live},
               Seed.questions)
    /\ \A d, e \in DraftIds :
         /\ Seed.drafts[d].live /\ Seed.drafts[e].live
         /\ Seed.drafts[d].question = Seed.drafts[e].question
         /\ Seed.drafts[d].pos = Seed.drafts[e].pos
         => d = e

Init ==
    /\ topics = Seed.topics /\ tags = Seed.tags
    /\ questions = Seed.questions /\ drafts = Seed.drafts
    /\ calls = [s \in Slots |-> Idle]
    /\ made = 0
    /\ disordered = {}

Arrives(s, u) ==
    \/ PostTopics(s, u) \/ PatchTopic(s, u) \/ DeleteTopic(s, u) \/ PutTopicsReorder(s, u)
    \/ PostTags(s, u) \/ PatchTag(s, u) \/ DeleteTag(s, u)
    \/ PostQuestionsBulk(s, u) \/ PostQuestions(s, u) \/ PatchQuestion(s, u)
    \/ DeleteQuestion(s, u) \/ PutQuestionsReorder(s, u) \/ PutDrafted(s, u)
    \/ PostDrafts(s, u) \/ PatchDraft(s, u) \/ DeleteDraft(s, u) \/ PutDraftsReorder(s, u)

Commits(s) ==
    \/ CreateTopicCommits(s) \/ UpdateTopicCommits(s)
    \/ DeleteTopicCommits(s) \/ ReorderTopicsCommits(s)
    \/ CreateTagCommits(s) \/ UpdateTagCommits(s) \/ DeleteTagCommits(s)
    \/ CreateQuestionsCommits(s) \/ CreateQuestionCommits(s)
    \/ UpdateQuestionCommits(s) \/ DeleteQuestionCommits(s)
    \/ ReorderQuestionsCommits(s) \/ SetQuestionDraftedCommits(s)
    \/ CreateDraftCommits(s) \/ UpdateDraftCommits(s)
    \/ DeleteDraftCommits(s) \/ ReorderDraftsCommits(s)

Next == \E s \in Slots : Commits(s) \/ (CanArrive(s) /\ \E u \in Users : Arrives(s, u))

Spec == Init /\ [][Next]_vars
-----------------------------------------------------------------------------
TypeOK ==
    /\ topics \in [TopicIds -> TopicRow]
    /\ tags \in [TagIds -> TagRow]
    /\ questions \in [QuestionIds -> QuestionRow]
    /\ drafts \in [DraftIds -> DraftRow]
    /\ calls \in [Slots -> Calls]
    /\ made \in 0 .. MaxCalls
    /\ disordered \subseteq Lists

\* A topic carries only tags that exist and belong to the topic's owner.
\* Nothing in the schema says so: topic_tags has no owner, and a tag may be
\* deleted, or a scope chosen by an administrator, between check and insert.
TagsAreOwners ==
    \A t \in TopicIds : topics[t].tags \subseteq OwnedTags(topics[t].owner)

\* Topic cards and questions keep dense positions through any sequence of
\* creations, deletions and reorders ("so positions stay dense and stable"),
\* except in a list where calls overlapped or a client named a position; a
\* reorder nothing overlaps puts such a list in order again.
OrderIsDense ==
    /\ \A o \in Users \ disordered : Dense(TopicsOf(o), topics)
    /\ \A t \in TopicIds \ disordered : Dense(QuestionsOf(t), questions)

\* Drafts of a question have positions of their own, so that their order is
\* their positions' order, unless two calls on them overlapped.  Deleting a
\* draft leaves a gap and needs no such care.
DraftsAreOrdered ==
    \A q \in QuestionIds \ disordered :
      \A d, e \in DraftsOf(q) : drafts[d].pos = drafts[e].pos => d = e

\* The owner of a question is its topic's, of a draft its question's.
QuestionOwner(q) == IF questions[q].topic = NoOne THEN NoOne ELSE topics[questions[q].topic].owner
DraftOwner(d) == IF drafts[d].question = NoOne THEN NoOne ELSE QuestionOwner(drafts[d].question)

\* Rows of owner o change in this step.
ChangesRowsOf(o) ==
    \/ \E t \in TopicIds : topics'[t].owner = o /\ topics'[t] # topics[t]
    \/ \E g \in TagIds : tags'[g].owner = o /\ tags'[g] # tags[g]
    \/ \E q \in QuestionIds : QuestionOwner(q)' = o /\ questions'[q] # questions[q]
    \/ \E d \in DraftIds : DraftOwner(d)' = o /\ drafts'[d] # drafts[d]

\* Only the owner and administrators change what is in an owner's library,
\* whatever ids a call names and whatever the calls beside it do: the checks
\* are made when a call arrives, the rows are written when it commits.
OnlyOwnLibrary ==
    [][\A o \in Users : ChangesRowsOf(o) =>
         \E s \in Slots : /\ calls[s].op # "idle" /\ calls'[s].op = "idle"
                          /\ calls[s].user = o \/ calls[s].user \in Admins]_vars

\* A call changes only the fields of a tag that its request names, unless
\* another edit of that tag came between its read and its write: updateTag
\* writes every field back.
UnnamedFieldsStay ==
    [][\A g \in TagIds :
         (tags[g] # NoTag /\ g \notin disordered') =>
           /\ tags'[g].name # tags[g].name =>
                \E s \in Slots : calls[s].at = g /\ "name" \in calls[s].edits
           /\ tags'[g].color # tags[g].color =>
                \E s \in Slots : calls[s].at = g /\ "color" \in calls[s].edits]_vars
=============================================================================
