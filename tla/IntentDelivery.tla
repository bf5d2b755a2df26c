--------------------------- MODULE IntentDelivery ---------------------------
(***************************************************************************)
(* What the outbox and the queue promise together to the rest of the       *)
(* system: an intent that was committed becomes one job, once, and a job   *)
(* that is over never comes back.  The pipeline modules take this for      *)
(* granted (WorkerProcess!Dispatch); the module Outbox implements it.      *)
(***************************************************************************)
CONSTANT Events

VARIABLE intent

Init == intent = [e \in Events |-> "absent"]

Moves(e, from, to) ==
    /\ intent[e] = from
    /\ intent' = [intent EXCEPT ![e] = to]

Commit(e)  == Moves(e, "absent", "pending")
Enqueue(e) == Moves(e, "pending", "queued")
End(e)     == Moves(e, "queued", "over")

Next == \E e \in Events : Commit(e) \/ Enqueue(e) \/ End(e)

Spec == Init /\ [][Next]_intent
=============================================================================
