----------------------------- MODULE MCLibrary -------------------------------
(***************************************************************************)
(* An instance of Library for TLC.  Ann, a user, has two topics, one with  *)
(* two questions of which the first has two drafts, and a tag on her first *)
(* topic; Root, an administrator, has a tag.                               *)
(***************************************************************************)
EXTENDS Library, TLC

CONSTANTS ann, root, t1, t2, g1, g2, q1, q2, d1, d2, n1, n2, v1

MCSeed ==
    [topics |-> [t \in TopicIds |->
       CASE t = t1 -> [owner |-> ann, live |-> TRUE, pos |-> 0, tags |-> {g1}]
         [] t = t2 -> [owner |-> ann, live |-> TRUE, pos |-> 1, tags |-> {}]
         [] OTHER -> NoTopic],
     tags |-> [g \in TagIds |->
       CASE g = g1 -> [owner |-> ann, live |-> TRUE, name |-> n1, color |-> NoOne]
         [] g = g2 -> [owner |-> root, live |-> TRUE, name |-> n2, color |-> NoOne]
         [] OTHER -> NoTag],
     questions |-> [q \in QuestionIds |->
       CASE q = q1 -> NewQuestion(t1, 0, v1)
         [] q = q2 -> NewQuestion(t1, 1, v1)
         [] OTHER -> NoQuestion],
     drafts |-> [d \in DraftIds |->
       CASE d = d1 -> [question |-> q1, live |-> TRUE, pos |-> 0, content |-> v1]
         [] d = d2 -> [question |-> q1, live |-> TRUE, pos |-> 1, content |-> v1]
         [] OTHER -> NoDraft]]

\* Slots and unused ids are interchangeable.
Symmetry == Permutations(Slots) \cup Permutations(TopicIds \ {t1, t2})
              \cup Permutations(QuestionIds \ {q1, q2}) \cup Permutations(DraftIds \ {d1, d2})
=============================================================================
