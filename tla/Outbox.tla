------------------------------- MODULE Outbox -------------------------------
(***************************************************************************)
(* The outbox between PostgreSQL and Redis: dispatchPendingOutboxEvents    *)
(* (packages/db/src/services/outbox.ts) run by overlapping timer ticks of  *)
(* the worker (apps/worker/src/main.ts), and the producer's deterministic  *)
(* job ids (packages/queue).  A tick claims a batch in one transaction and *)
(* then, row by row, publishes and marks; every await is a step.           *)
(*                                                                         *)
(* attempts and lastError are written and never read: they are left out.   *)
(***************************************************************************)
EXTENDS Naturals, FiniteSets, RecordingStates

CONSTANTS
    Events,        \* outbox row ids, numbered in the order of createdAt
    Recordings,
    TypeOf,        \* the intent a row carries
    RecordingOf,   \* and its recording
    Dispatchers,   \* dispatch calls that may overlap
    Limit          \* rows per claim

ASSUME EventsAssumption == Events \subseteq Nat
ASSUME PayloadAssumption ==
    /\ TypeOf \in [Events -> IntentTypes]
    /\ RecordingOf \in [Events -> Recordings]
ASSUME LimitAssumption == Limit \in Nat \ {0}

VARIABLES
    outbox,     \* the rows: not inserted, available later, due, published
    jobs,       \* the queue, by job id
    dispatch    \* what each dispatch call still has to do

vars == <<outbox, jobs, dispatch>>

RowStages == {"absent", "deferred", "due", "published"}

\* "queued": waiting, delayed or active, as often as its attempts allow (see
\* WorkerProcess).  "removed": cleared by retention, Redis knows it no longer.
JobStages == {"absent", "queued", "completed", "failed", "removed"}

\* Mutant: the publisher passes no scope.
unscopedJobId(e) == <<TypeOf[e], RecordingOf[e]>>

\* The job id of a row: its type, its recording and the row itself (scope).
deterministicJobId(e) == <<TypeOf[e], RecordingOf[e], e>>

JobIds == {deterministicJobId(e) : e \in Events}

Resting == [batch |-> {}, step |-> "publish"]

Init ==
    /\ outbox = [e \in Events |-> "absent"]
    /\ jobs = [j \in JobIds |-> "absent"]
    /\ dispatch = [d \in Dispatchers |-> Resting]
-----------------------------------------------------------------------------
(* Rows *)

\* A transaction commits with an intent in it; a poll may be due later only.
StagesAtInsert(e) ==
    {"due"} \cup (IF TypeOf[e] = "youtube.poll-processing" THEN {"deferred"} ELSE {})

insertOutboxEvent(e) ==
    /\ outbox[e] = "absent"
    /\ \E stage \in StagesAtInsert(e) : outbox' = [outbox EXCEPT ![e] = stage]
    /\ UNCHANGED <<jobs, dispatch>>

\* availableAt passes.
FallsDue(e) ==
    /\ outbox[e] = "deferred"
    /\ outbox' = [outbox EXCEPT ![e] = "due"]
    /\ UNCHANGED <<jobs, dispatch>>
-----------------------------------------------------------------------------
(* dispatchPendingOutboxEvents *)

\* The rows other calls claimed; their transactions may still hold the locks.
ClaimedElsewhere(d) == UNION {dispatch[c].batch : c \in Dispatchers \ {d}}

\* The first Limit rows of a set, by createdAt.
Oldest(batch, rows) ==
    /\ batch \subseteq rows
    /\ Cardinality(batch) <= Limit
    /\ \A e \in batch, f \in rows \ batch : e < f
    /\ Cardinality(batch) < Limit => batch = rows

\* Mutant: the claim itself marks its rows, so none is claimed twice.
claimAndMark(d) ==
    /\ dispatch[d].batch = {}
    /\ \E batch \in SUBSET {e \in Events : outbox[e] = "due"} \ {{}} :
          /\ Oldest(batch, {e \in Events : outbox[e] = "due"})
          /\ outbox' = [e \in Events |-> IF e \in batch THEN "published" ELSE outbox[e]]
          /\ dispatch' = [dispatch EXCEPT ![d] = [batch |-> batch, step |-> "publish"]]
    /\ UNCHANGED jobs

\* The claim skips locked rows and commits: a row stays claimable after it.
claimDueEvents(d) ==
    /\ dispatch[d].batch = {}
    /\ \E locked \in SUBSET ClaimedElsewhere(d) :
          LET rows == {e \in Events : outbox[e] = "due"} \ locked IN
          \E batch \in SUBSET rows \ {{}} :
             /\ Oldest(batch, rows)
             /\ dispatch' = [dispatch EXCEPT ![d] = [batch |-> batch, step |-> "publish"]]
    /\ UNCHANGED <<outbox, jobs>>

\* Call d is at a step for row e: the loop goes through its batch in order.
At(d, step, e) ==
    /\ dispatch[d].step = step
    /\ e \in dispatch[d].batch
    /\ \A f \in dispatch[d].batch : e <= f

GoTo(d, step) == dispatch' = [dispatch EXCEPT ![d].step = step]

NextRow(d, e) ==
    dispatch' = [dispatch EXCEPT ![d] = [batch |-> @.batch \ {e}, step |-> "publish"]]

\* queue.add with an id Redis knows returns the job it has.
Added(e) ==
    IF jobs[deterministicJobId(e)] \in {"absent", "removed"}
    THEN [jobs EXCEPT ![deterministicJobId(e)] = "queued"]
    ELSE jobs

Publish(d, e) ==
    /\ At(d, "publish", e)
    /\ jobs' = Added(e)
    /\ GoTo(d, "mark")
    /\ UNCHANGED outbox

\* Mutant: the publisher swallows the rejection.
PublishThrowsUnheard(d, e) ==
    /\ At(d, "publish", e)
    /\ jobs' \in {jobs, Added(e)}
    /\ GoTo(d, "mark")
    /\ UNCHANGED outbox

\* publish rejects: the job was not added, or it was and the answer is lost.
PublishThrows(d, e) ==
    /\ At(d, "publish", e)
    /\ jobs' \in {jobs, Added(e)}
    /\ GoTo(d, "record")
    /\ UNCHANGED outbox

\* publishedAt is set by id, whatever the row looks like now.
Mark(d, e) ==
    /\ At(d, "mark", e)
    /\ outbox' = [outbox EXCEPT ![e] = "published"]
    /\ NextRow(d, e)
    /\ UNCHANGED jobs

\* That update rejects: the catch block takes a published job for a failure.
MarkThrows(d, e) ==
    /\ At(d, "mark", e)
    /\ GoTo(d, "record")
    /\ UNCHANGED <<outbox, jobs>>

\* The catch block writes lastError and the loop goes on.
RecordError(d, e) ==
    /\ At(d, "record", e)
    /\ NextRow(d, e)
    /\ UNCHANGED <<outbox, jobs>>

\* The write in the catch block rejects too: the rest of the batch is dropped.
RecordThrows(d, e) ==
    /\ At(d, "record", e)
    /\ dispatch' = [dispatch EXCEPT ![d] = Resting]
    /\ UNCHANGED <<outbox, jobs>>

\* The process dies or shuts down; every call is cut off where it is.
Crash ==
    /\ dispatch' = [d \in Dispatchers |-> Resting]
    /\ UNCHANGED <<outbox, jobs>>
-----------------------------------------------------------------------------
(* Jobs *)

JobMoves(j, from, to) ==
    /\ jobs[j] = from
    /\ jobs' = [jobs EXCEPT ![j] = to]
    /\ UNCHANGED <<outbox, dispatch>>

CompleteJob(j) == JobMoves(j, "queued", "completed")

\* attempts are used up; removeOnFail is FALSE, so the job stays.
FailJob(j) == JobMoves(j, "queued", "failed")

\* removeOnComplete: a day or 5000 jobs later.  No dispatch call takes that
\* long, and a row does not stay unpublished that long after its job was added.
RemoveJob(j) ==
    /\ \A e \in Events : deterministicJobId(e) = j =>
          /\ outbox[e] = "published"
          /\ \A d \in Dispatchers : e \notin dispatch[d].batch
    /\ JobMoves(j, "completed", "removed")
-----------------------------------------------------------------------------
DispatchStep(d, e) ==
    \/ Publish(d, e) \/ PublishThrows(d, e)
    \/ Mark(d, e) \/ MarkThrows(d, e)
    \/ RecordError(d, e) \/ RecordThrows(d, e)

JobStep(j) == CompleteJob(j) \/ FailJob(j) \/ RemoveJob(j)

Next ==
    \/ \E e \in Events : insertOutboxEvent(e) \/ FallsDue(e)
    \/ \E d \in Dispatchers : claimDueEvents(d)
    \/ \E d \in Dispatchers, e \in Events : DispatchStep(d, e)
    \/ Crash
    \/ \E j \in JobIds : JobStep(j)

Spec == Init /\ [][Next]_vars
-----------------------------------------------------------------------------
(* Liveness: the timer ticks and time passes; Redis and PostgreSQL fail now and *)
(* then, not whenever they are asked.                                           *)

Fairness ==
    /\ WF_vars(\E e \in Events : FallsDue(e))
    /\ WF_vars(\E d \in Dispatchers : claimDueEvents(d))
    /\ WF_vars(\E d \in Dispatchers, e \in Events : DispatchStep(d, e))
    /\ SF_vars(\E d \in Dispatchers, e \in Events : Publish(d, e))
    /\ SF_vars(\E d \in Dispatchers, e \in Events : Mark(d, e))

FairSpec == Spec /\ Fairness
-----------------------------------------------------------------------------
(* Properties *)

\* A row is marked published only once its own job was added: the update by id
\* of one dispatch call never hides a row another call, a lost answer or a crash
\* left without a job (outbox.ts 129-146).
PublishedHasJob ==
    \A e \in Events : outbox[e] = "published" => jobs[deterministicJobId(e)] # "absent"

\* What the rest of the system sees of a row and its job.
IntentOf(e) ==
    IF outbox[e] = "absent" THEN "absent"
    ELSE CASE jobs[deterministicJobId(e)] = "absent" -> "pending"
           [] jobs[deterministicJobId(e)] = "queued" -> "queued"
           [] OTHER -> "over"

intentView == [e \in Events |-> IntentOf(e)]

Delivery == INSTANCE IntentDelivery WITH intent <- intentView

\* However dispatch calls overlap, fail and die, an intent becomes one job, once,
\* and two intents for one recording never share one (job-ids.ts 30-37: "would
\* collapse into the previous COMPLETED job").
ImplementsDelivery == Delivery!Spec

\* Every intent that was committed becomes a job at last, also when a crash lies
\* between claim and publish, the rest of a batch is dropped, or older rows fail
\* and fill the batches (outbox.ts 66-68: "leaves the row claimable again").
IntentsAreEnqueued == \A e \in Events : IntentOf(e) = "pending" ~> IntentOf(e) # "pending"
=============================================================================
