-------------------------- MODULE QuestionRequests ---------------------------
(***************************************************************************)
(* The calls on a topic's questions: apps/web/src/lib/services/topics.ts   *)
(* with the routes under api/topics/[topicId]/questions and                *)
(* api/questions/[questionId].                                             *)
(***************************************************************************)
EXTENDS LibraryState

\* A row a new question takes.  Its topic was checked when the call arrived;
\* the insert does not look at it again.
NewQuestion(t, p, prompt) ==
    [topic |-> t, live |-> TRUE, pos |-> p, prompt |-> prompt, drafted |-> FALSE]

\* One call appends the prompts of several lines, after the highest position.
CreateQuestionsArrives(s, u, o, t) ==
    \E p \in Positions :
      /\ t \in TopicsOf(o)
      /\ IsNext(QuestionsOf(t), questions, p)
      /\ Arrive(s, [Blank("createQuestions", u, o, t) EXCEPT !.pos = p, !.list = t])

CreateQuestionsCommits(s) ==
    LET c == calls[s] IN
    /\ c.op = "createQuestions"
    /\ \E n \in 1 .. MaxOrder : \E new \in [1 .. n -> QuestionIds], prompt \in Values :
         /\ \A i, j \in 1 .. n : new[i] = new[j] => i = j
         /\ \A i \in 1 .. n : questions[new[i]] = NoQuestion
         /\ questions' = [q \in QuestionIds |->
              IF \E i \in 1 .. n : new[i] = q
              THEN NewQuestion(c.at, c.pos + (CHOOSE i \in 1 .. n : new[i] = q) - 1, prompt)
              ELSE questions[q]]
    /\ ListWritten(s, FALSE)
    /\ UNCHANGED <<topics, tags, drafts>>

\* One question: the position the client names wins, else it is appended.
CreateQuestionArrives(s, u, o, t, p, prompt) ==
    /\ t \in TopicsOf(o)
    /\ Arrive(s, [Blank("createQuestion", u, o, t) EXCEPT
                    !.value = prompt, !.pos = p, !.list = t,
                    !.fresh = IsNext(QuestionsOf(t), questions, p)])

CreateQuestionCommits(s) ==
    LET c == calls[s] IN
    /\ c.op = "createQuestion"
    /\ \E q \in QuestionIds :
         /\ questions[q] = NoQuestion
         /\ questions' = [questions EXCEPT ![q] = NewQuestion(c.at, c.pos, c.value)]
    /\ ListWritten(s, FALSE)
    /\ UNCHANGED <<topics, tags, drafts>>

\* A request that repeats the position and gives no prompt writes the prompt
\* it read back; one that gives another position is refused.
UpdateQuestionArrives(s, u, o, q, prompt) ==
    /\ q \in ReachableQuestions(o)
    /\ Arrive(s, [Blank("updateQuestion", u, o, q) EXCEPT
                    !.value = IF prompt = NoOne THEN questions[q].prompt ELSE prompt])

UpdateQuestionCommits(s) ==
    LET c == calls[s] IN
    /\ c.op = "updateQuestion"
    /\ questions' = [questions EXCEPT ![c.at].prompt = c.value]
    /\ Ends(s)
    /\ UNCHANGED <<topics, tags, drafts>>

DeleteQuestionArrives(s, u, o, q) ==
    /\ q \in ReachableQuestions(o)
    /\ Arrive(s, [Blank("deleteQuestion", u, o, q) EXCEPT
                    !.pos = questions[q].pos, !.list = questions[q].topic])

\* The gap is closed above the position read when the call arrived, and also
\* when another call deleted the question first.
DeleteQuestionCommits(s) ==
    LET c == calls[s] IN
    /\ c.op = "deleteQuestion"
    /\ questions' = [q \in QuestionIds |->
         IF q = c.at THEN [questions[q] EXCEPT !.live = FALSE]
         ELSE IF q \in QuestionsOf(c.list) /\ questions[q].pos > c.pos
           THEN [questions[q] EXCEPT !.pos = @ - 1]
         ELSE questions[q]]
    /\ ListWritten(s, FALSE)
    /\ UNCHANGED <<topics, tags, drafts>>

ReorderQuestionsArrives(s, u, o, t, order) ==
    /\ t \in TopicsOf(o)
    /\ OrderOf(QuestionsOf(t), order)
    /\ Arrive(s, [Blank("reorderQuestions", u, o, t) EXCEPT !.order = order, !.list = t])

ReorderQuestionsCommits(s) ==
    LET c == calls[s] IN
    /\ c.op = "reorderQuestions"
    /\ questions' = [q \in QuestionIds |->
         IF q \in Listed(c.order) THEN [questions[q] EXCEPT !.pos = PlaceIn(c.order, q)] ELSE questions[q]]
    /\ ListWritten(s, TRUE)
    /\ UNCHANGED <<topics, tags, drafts>>

\* The "drafted" checkbox sends the value it wants, so repeating it is safe.
SetQuestionDraftedArrives(s, u, o, q, drafted) ==
    /\ q \in ReachableQuestions(o)
    /\ Arrive(s, [Blank("setQuestionDrafted", u, o, q) EXCEPT !.pos = IF drafted THEN 1 ELSE 0])

SetQuestionDraftedCommits(s) ==
    LET c == calls[s] IN
    /\ c.op = "setQuestionDrafted"
    /\ questions' = [questions EXCEPT ![c.at].drafted = (c.pos = 1)]
    /\ Ends(s)
    /\ UNCHANGED <<topics, tags, drafts>>
=============================================================================
