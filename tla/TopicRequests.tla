---------------------------- MODULE TopicRequests ----------------------------
(***************************************************************************)
(* The calls on topics and tags: apps/web/src/lib/services/topics.ts and   *)
(* tags.ts with the routes that call them.                                 *)
(***************************************************************************)
EXTENDS LibraryState

\* Mutant: the tags only have to exist.
OwnsAnyTags(o, tagIds) == \A g \in tagIds : tags[g].live

\* A topic's tags must exist and be the owner's.
OwnsTags(o, tagIds) == tagIds \subseteq OwnedTags(o)

\* topic_tags.tag_id REFERENCES tags: linking a tag deleted meanwhile throws.
TagsExist(tagIds) == \A g \in tagIds : tags[g].live

CreateTopicArrives(s, u, o, tagIds) ==
    \E p \in Positions :
      /\ OwnsTags(o, tagIds)
      /\ IsNext(TopicsOf(o), topics, p)
      /\ Arrive(s, [Blank("createTopic", u, o, NoOne) EXCEPT
                      !.tagIds = tagIds, !.pos = p, !.list = o])

CreateTopicCommits(s) ==
    LET c == calls[s] IN
    /\ c.op = "createTopic"
    /\ \/ /\ TagsExist(c.tagIds)
          /\ \E t \in TopicIds :
               /\ topics[t] = NoTopic
               /\ topics' = [topics EXCEPT ![t] =
                    [owner |-> c.scope, live |-> TRUE, pos |-> c.pos, tags |-> c.tagIds]]
          /\ ListWritten(s, FALSE)
       \/ ~TagsExist(c.tagIds) /\ Ends(s) /\ UNCHANGED topics
    /\ UNCHANGED <<tags, questions, drafts>>

\* A request without tagIds leaves the links alone and changes only what the
\* model leaves out.
UpdateTopicArrives(s, u, o, t, tagIds) ==
    /\ t \in TopicsOf(o)
    /\ OwnsTags(o, tagIds)
    /\ Arrive(s, [Blank("updateTopic", u, o, t) EXCEPT !.tagIds = tagIds])

\* The statement does not look at deleted_at again.
UpdateTopicCommits(s) ==
    LET c == calls[s] IN
    /\ c.op = "updateTopic"
    /\ \/ TagsExist(c.tagIds) /\ topics' = [topics EXCEPT ![c.at].tags = c.tagIds]
       \/ ~TagsExist(c.tagIds) /\ UNCHANGED topics
    /\ Ends(s)
    /\ UNCHANGED <<tags, questions, drafts>>

DeleteTopicArrives(s, u, o, t) ==
    /\ t \in TopicsOf(o)
    /\ Arrive(s, [Blank("deleteTopic", u, o, t) EXCEPT !.pos = topics[t].pos, !.list = o])

\* Mutant: the gap is closed above the row after it.
DeleteTopicClosesLate(s) ==
    LET c == calls[s] IN
    /\ c.op = "deleteTopic"
    /\ topics' = [t \in TopicIds |->
         IF t = c.at THEN [topics[t] EXCEPT !.live = FALSE]
         ELSE IF t \in TopicsOf(c.scope) /\ topics[t].pos > c.pos + 1
           THEN [topics[t] EXCEPT !.pos = @ - 1]
         ELSE topics[t]]
    /\ ListWritten(s, FALSE)
    /\ UNCHANGED <<tags, questions, drafts>>

\* The row is marked only if no other call marked it; the gap is closed
\* above the position read when the call arrived.
DeleteTopicCommits(s) ==
    LET c == calls[s] IN
    /\ c.op = "deleteTopic"
    /\ \/ /\ topics[c.at].live
          /\ topics' = [t \in TopicIds |->
               IF t = c.at THEN [topics[t] EXCEPT !.live = FALSE]
               ELSE IF t \in TopicsOf(c.scope) /\ topics[t].pos > c.pos
                 THEN [topics[t] EXCEPT !.pos = @ - 1]
               ELSE topics[t]]
          /\ ListWritten(s, FALSE)
       \/ ~topics[c.at].live /\ Ends(s) /\ UNCHANGED topics
    /\ UNCHANGED <<tags, questions, drafts>>

ReorderTopicsArrives(s, u, o, order) ==
    /\ OrderOf(TopicsOf(o), order)
    /\ Arrive(s, [Blank("reorderTopics", u, o, NoOne) EXCEPT !.order = order, !.list = o])

ReorderTopicsCommits(s) ==
    LET c == calls[s] IN
    /\ c.op = "reorderTopics"
    /\ topics' = [t \in TopicIds |->
         IF t \in Listed(c.order) THEN [topics[t] EXCEPT !.pos = PlaceIn(c.order, t)] ELSE topics[t]]
    /\ ListWritten(s, TRUE)
    /\ UNCHANGED <<tags, questions, drafts>>
-----------------------------------------------------------------------------
\* UNIQUE (owner_id, normalized_name): the statement throws, DUPLICATE_TAG.
NameTaken(o, name, except) == \E g \in OwnedTags(o) \ except : tags[g].name = name

CreateTagArrives(s, u, o, name) ==
    Arrive(s, [Blank("createTag", u, o, NoOne) EXCEPT !.value = name])

\* Mutant: the name goes to the colour.
CreateTagSwapped(s) ==
    LET c == calls[s] IN
    /\ c.op = "createTag"
    /\ \E g \in TagIds :
         /\ tags[g] = NoTag
         /\ tags' = [tags EXCEPT ![g] =
              [owner |-> c.scope, live |-> TRUE, name |-> NoOne, color |-> c.value]]
    /\ Ends(s)
    /\ UNCHANGED <<topics, questions, drafts>>

CreateTagCommits(s) ==
    LET c == calls[s] IN
    /\ c.op = "createTag"
    /\ \/ /\ ~NameTaken(c.scope, c.value, {})
          /\ \E g \in TagIds :
               /\ tags[g] = NoTag
               /\ tags' = [tags EXCEPT ![g] =
                    [owner |-> c.scope, live |-> TRUE, name |-> c.value, color |-> NoOne]]
       \/ NameTaken(c.scope, c.value, {}) /\ UNCHANGED tags
    /\ Ends(s)
    /\ UNCHANGED <<topics, questions, drafts>>

\* Mutant: a colour the request does not give is cleared.
UpdateTagClears(s, u, o, g, name, color) ==
    /\ g \in OwnedTags(o)
    /\ Arrive(s, [Blank("updateTag", u, o, g) EXCEPT
                    !.value = IF name = NoOne THEN tags[g].name ELSE name,
                    !.color = color,
                    !.edits = IF name = NoOne THEN {"color"} ELSE {"name"},
                    !.list = g])

\* A field the request does not give is written back as it was read.
UpdateTagArrives(s, u, o, g, name, color) ==
    /\ g \in OwnedTags(o)
    /\ Arrive(s, [Blank("updateTag", u, o, g) EXCEPT
                    !.value = IF name = NoOne THEN tags[g].name ELSE name,
                    !.color = IF color = NoOne THEN tags[g].color ELSE color,
                    !.edits = {f \in {"name", "color"} : IF f = "name" THEN name # NoOne ELSE color # NoOne},
                    !.list = g])

UpdateTagCommits(s) ==
    LET c == calls[s]
        kept == tags[c.at].live /\ ~NameTaken(c.scope, c.value, {c.at}) IN
    /\ c.op = "updateTag"
    /\ \/ /\ kept
          /\ tags' = [tags EXCEPT ![c.at].name = c.value, ![c.at].color = c.color]
          /\ ListWritten(s, FALSE)
       \/ ~kept /\ Ends(s) /\ UNCHANGED tags
    /\ UNCHANGED <<topics, questions, drafts>>

DeleteTagArrives(s, u, o, g) ==
    g \in OwnedTags(o) /\ Arrive(s, Blank("deleteTag", u, o, g))

\* The links go with the tag, whoever's topic they are on.
DeleteTagCommits(s) ==
    LET c == calls[s] IN
    /\ c.op = "deleteTag"
    /\ topics' = [t \in TopicIds |-> [topics[t] EXCEPT !.tags = @ \ {c.at}]]
    /\ tags' = [tags EXCEPT ![c.at].live = FALSE]
    /\ Ends(s)
    /\ UNCHANGED <<questions, drafts>>
=============================================================================
