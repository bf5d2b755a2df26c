---------------------------- MODULE OutboxProofs ----------------------------
(***************************************************************************)
(* The outbox keeps its promise for any number of rows, overlapping calls  *)
(* and rows per claim: a published row has its job, and the outbox and the *)
(* queue together implement IntentDelivery.                                *)
(*                                                                         *)
(* PublishedHasJob is not inductive: Mark publishes by id and looks at no  *)
(* job, so a call at its mark must have added one (MarkedHasJob); a late   *)
(* Publish must not bring a removed job back, so retention keeps away from *)
(* rows some call still holds (RemovedIsOver).                             *)
(***************************************************************************)
EXTENDS Outbox, TLAPS

TypeOK ==
    /\ outbox \in [Events -> RowStages]
    /\ jobs \in [JobIds -> JobStages]
    /\ dispatch \in [Dispatchers ->
          [batch : SUBSET Events, step : {"publish", "mark", "record"}]]

\* A call about to mark a row has seen its job added.
MarkedHasJob ==
    \A d \in Dispatchers, e \in Events :
       At(d, "mark", e) => jobs[deterministicJobId(e)] # "absent"

\* A row that is not due yet is in no batch and has no job.
EarlyIsUntouched ==
    \A e \in Events : outbox[e] \in {"absent", "deferred"} =>
       /\ jobs[deterministicJobId(e)] = "absent"
       /\ \A d \in Dispatchers : e \notin dispatch[d].batch

\* A removed job belongs to a published row no call holds any more.
RemovedIsOver ==
    \A e \in Events : jobs[deterministicJobId(e)] = "removed" =>
       /\ outbox[e] = "published"
       /\ \A d \in Dispatchers : e \notin dispatch[d].batch

\* The inductive invariant.
DispatchInv == TypeOK /\ PublishedHasJob /\ MarkedHasJob /\ EarlyIsUntouched /\ RemovedIsOver

\* A job id names its row: nothing but the row itself has it.
LEMMA JobIdsAreScoped ==
    /\ \A e \in Events : deterministicJobId(e) \in JobIds
    /\ \A e, f \in Events : deterministicJobId(e) = deterministicJobId(f) => e = f
    /\ \A j \in JobIds : \E e \in Events : j = deterministicJobId(e)
  BY DEF JobIds, deterministicJobId

\* A call works on one row at a time: the first of its batch.
LEMMA OneRowAtATime ==
    ASSUME NEW d \in Dispatchers, NEW e \in Events, NEW f \in Events,
           NEW s, NEW t, At(d, s, e), At(d, t, f)
    PROVE  e = f /\ s = t
  BY EventsAssumption DEF At

\* No row, no job, no call.
LEMMA InitInv == Init => DispatchInv
  BY JobIdsAreScoped
  DEF Init, DispatchInv, TypeOK, PublishedHasJob, MarkedHasJob, EarlyIsUntouched, RemovedIsOver,
      RowStages, JobStages, Resting, At

\* Rows are inserted and fall due without a job or a call.
LEMMA RowsKeepInv ==
    ASSUME DispatchInv, NEW e \in Events, insertOutboxEvent(e) \/ FallsDue(e)
    PROVE  DispatchInv'
  <1>1. outbox[e] \in {"absent", "deferred"} /\ UNCHANGED <<jobs, dispatch>>
    BY DEF insertOutboxEvent, FallsDue
  <1>2. PICK stage \in {"due", "deferred"} : outbox' = [outbox EXCEPT ![e] = stage]
    BY DEF insertOutboxEvent, FallsDue, StagesAtInsert
  <1> QED
    BY <1>1, <1>2
    DEF DispatchInv, TypeOK, PublishedHasJob, MarkedHasJob, EarlyIsUntouched, RemovedIsOver,
        RowStages, At

\* A claim takes due rows and stands before its first publish.
LEMMA ClaimKeepsInv ==
    ASSUME DispatchInv, NEW d \in Dispatchers, claimDueEvents(d)
    PROVE  DispatchInv'
  <1>1. PICK batch \in SUBSET {e \in Events : outbox[e] = "due"} :
           dispatch' = [dispatch EXCEPT ![d] = [batch |-> batch, step |-> "publish"]]
    BY DEF claimDueEvents
  <1>2. UNCHANGED <<outbox, jobs>>
    BY DEF claimDueEvents
  <1>3. \A c \in Dispatchers, e \in Events :
           /\ At(c, "mark", e)' => At(c, "mark", e)
           /\ e \in dispatch'[c].batch => e \in dispatch[c].batch \/ outbox[e] = "due"
    BY <1>1 DEF At, DispatchInv, TypeOK
  <1>4. TypeOK'
    BY <1>1, <1>2 DEF DispatchInv, TypeOK
  <1> QED
    BY <1>2, <1>3, <1>4
    DEF DispatchInv, PublishedHasJob, MarkedHasJob, EarlyIsUntouched, RemovedIsOver

\* Adding a job changes that of its own row only, and only where there was none:
\* a row in a batch has no removed job.
LEMMA AddedJob ==
    ASSUME DispatchInv, NEW d \in Dispatchers, NEW e \in Events, At(d, "publish", e)
    PROVE  /\ Added(e) \in [JobIds -> JobStages]
           /\ Added(e)[deterministicJobId(e)] # "absent"
           /\ \A f \in Events : f # e =>
                 Added(e)[deterministicJobId(f)] = jobs[deterministicJobId(f)]
           /\ jobs[deterministicJobId(e)] # "absent" => Added(e) = jobs
           /\ jobs[deterministicJobId(e)] = "absent" =>
                 Added(e) = [jobs EXCEPT ![deterministicJobId(e)] = "queued"]
  <1>1. jobs[deterministicJobId(e)] # "removed"
    BY DEF DispatchInv, RemovedIsOver, At
  <1> QED
    BY <1>1, JobIdsAreScoped DEF Added, DispatchInv, TypeOK, JobStages

\* What publishing does to the jobs: nothing, or it adds the missing one.
LEMMA PublishKeepsInv ==
    ASSUME DispatchInv, NEW d \in Dispatchers, NEW e \in Events,
           Publish(d, e) \/ PublishThrows(d, e)
    PROVE  DispatchInv'
  <1>1. /\ At(d, "publish", e) /\ outbox' = outbox
        /\ jobs' = jobs \/ jobs' = Added(e)
    BY DEF Publish, PublishThrows
  <1>2. PICK s \in {"mark", "record"} :
           /\ dispatch' = [dispatch EXCEPT ![d].step = s]
           /\ s = "mark" => jobs' = Added(e)
    BY DEF Publish, PublishThrows, GoTo
  <1>3. TypeOK'
    BY <1>1, <1>2, AddedJob DEF DispatchInv, TypeOK
  <1>4. \A c \in Dispatchers : dispatch'[c].batch = dispatch[c].batch
    BY <1>2 DEF DispatchInv, TypeOK
  <1>5. /\ jobs'[deterministicJobId(e)] # "removed"
        /\ \A f \in Events : jobs[deterministicJobId(f)] # "absent" =>
              jobs'[deterministicJobId(f)] = jobs[deterministicJobId(f)]
        /\ \A f \in Events : f # e =>
              jobs'[deterministicJobId(f)] = jobs[deterministicJobId(f)]
    <2>1. jobs[deterministicJobId(e)] # "removed"
      BY <1>1 DEF DispatchInv, RemovedIsOver, At
    <2> QED
      BY <1>1, <2>1, AddedJob, JobIdsAreScoped DEF DispatchInv, TypeOK
  <1>6. e \in dispatch[d].batch /\ outbox[e] \in {"due", "published"}
    BY <1>1 DEF At, DispatchInv, EarlyIsUntouched, TypeOK, RowStages
  <1>7. PublishedHasJob'
    BY <1>1, <1>5 DEF DispatchInv, PublishedHasJob
  <1>8. MarkedHasJob'
    <2> SUFFICES ASSUME NEW c \in Dispatchers, NEW f \in Events, At(c, "mark", f)'
                 PROVE  jobs'[deterministicJobId(f)] # "absent"
      BY DEF MarkedHasJob
    <2>1. CASE c = d
      <3>1. s = "mark" /\ At(d, "publish", f)
        BY <1>1, <1>2, <2>1 DEF At, DispatchInv, TypeOK
      <3>2. f = e
        BY <1>1, <3>1, OneRowAtATime
      <3> QED
        BY <1>1, <1>2, <3>1, <3>2, AddedJob
    <2>2. CASE c # d
      <3>1. At(c, "mark", f)
        BY <1>2, <2>2 DEF At, DispatchInv, TypeOK
      <3> QED
        BY <1>5, <3>1 DEF DispatchInv, MarkedHasJob
    <2> QED
      BY <2>1, <2>2
  <1>9. EarlyIsUntouched'
    BY <1>1, <1>4, <1>5, <1>6 DEF DispatchInv, EarlyIsUntouched
  <1>10. RemovedIsOver'
    BY <1>1, <1>4, <1>5 DEF DispatchInv, RemovedIsOver
  <1> QED
    BY <1>3, <1>7, <1>8, <1>9, <1>10 DEF DispatchInv

\* Steps that touch no job and take rows out of one batch, if any, and publish a
\* row only at its mark.
LEMMA LoopKeepsInv ==
    ASSUME DispatchInv, NEW d \in Dispatchers, NEW e \in Events,
           Mark(d, e) \/ MarkThrows(d, e) \/ RecordError(d, e) \/ RecordThrows(d, e)
    PROVE  DispatchInv'
  <1>1. jobs' = jobs
    BY DEF Mark, MarkThrows, RecordError, RecordThrows
  <1>2. \/ outbox' = outbox
        \/ outbox' = [outbox EXCEPT ![e] = "published"] /\ At(d, "mark", e)
    BY DEF Mark, MarkThrows, RecordError, RecordThrows
  <1>3. /\ dispatch' \in [Dispatchers ->
                [batch : SUBSET Events, step : {"publish", "mark", "record"}]]
        /\ dispatch'[d].batch \subseteq dispatch[d].batch
        /\ dispatch'[d].step # "mark"
        /\ \A c \in Dispatchers \ {d} : dispatch'[c] = dispatch[c]
    <2>1. CASE MarkThrows(d, e)
      BY <2>1 DEF MarkThrows, GoTo, DispatchInv, TypeOK
    <2>2. CASE RecordThrows(d, e)
      BY <2>2 DEF RecordThrows, Resting, DispatchInv, TypeOK
    <2>3. CASE Mark(d, e) \/ RecordError(d, e)
      BY <2>3 DEF Mark, RecordError, NextRow, DispatchInv, TypeOK
    <2> QED
      BY <2>1, <2>2, <2>3
  <1>4. \A c \in Dispatchers, f \in Events :
           /\ At(c, "mark", f)' => At(c, "mark", f)
           /\ f \in dispatch'[c].batch => f \in dispatch[c].batch
    BY <1>3 DEF At
  <1>5. TypeOK'
    BY <1>1, <1>2, <1>3 DEF DispatchInv, TypeOK, RowStages
  <1>6. PublishedHasJob'
    BY <1>1, <1>2 DEF DispatchInv, PublishedHasJob, MarkedHasJob, TypeOK
  <1>7. MarkedHasJob'
    BY <1>1, <1>4 DEF DispatchInv, MarkedHasJob
  <1>8. EarlyIsUntouched' /\ RemovedIsOver'
    BY <1>1, <1>2, <1>4 DEF DispatchInv, EarlyIsUntouched, RemovedIsOver, TypeOK
  <1> QED
    BY <1>5, <1>6, <1>7, <1>8 DEF DispatchInv

\* A crash only empties batches.
LEMMA CrashKeepsInv == DispatchInv /\ Crash => DispatchInv'
  BY DEF DispatchInv, TypeOK, PublishedHasJob, MarkedHasJob, EarlyIsUntouched, RemovedIsOver,
         Crash, Resting, At

\* Jobs that are there stay known, until retention removes one that is over.
LEMMA JobsKeepInv ==
    ASSUME DispatchInv, NEW j \in JobIds, JobStep(j)
    PROVE  DispatchInv'
  <1>1. PICK e \in Events : j = deterministicJobId(e)
    BY JobIdsAreScoped
  <1>2. UNCHANGED <<outbox, dispatch>> /\ jobs[j] \notin {"absent", "removed"}
    BY DEF JobStep, CompleteJob, FailJob, RemoveJob, JobMoves
  <1>3. PICK stage \in {"completed", "failed", "removed"} :
           /\ jobs' = [jobs EXCEPT ![j] = stage]
           /\ stage = "removed" => RemoveJob(j)
    BY DEF JobStep, CompleteJob, FailJob, RemoveJob, JobMoves
  <1>4. \A f \in Events :
           jobs'[deterministicJobId(f)] = IF f = e THEN stage ELSE jobs[deterministicJobId(f)]
    BY <1>1, <1>3, JobIdsAreScoped DEF DispatchInv, TypeOK
  <1>5. stage = "removed" =>
           outbox[e] = "published" /\ \A d \in Dispatchers : e \notin dispatch[d].batch
    BY <1>1, <1>3 DEF RemoveJob
  <1>6. TypeOK'
    BY <1>2, <1>3 DEF DispatchInv, TypeOK, JobStages
  <1>7. PublishedHasJob' /\ MarkedHasJob'
    BY <1>2, <1>4 DEF DispatchInv, PublishedHasJob, MarkedHasJob, At
  <1>8. EarlyIsUntouched' /\ RemovedIsOver'
    BY <1>1, <1>2, <1>4, <1>5 DEF DispatchInv, EarlyIsUntouched, RemovedIsOver
  <1> QED
    BY <1>6, <1>7, <1>8 DEF DispatchInv

\* Every step keeps the invariant.
LEMMA StepInv == DispatchInv /\ [Next]_vars => DispatchInv'
  <1> SUFFICES ASSUME DispatchInv, [Next]_vars PROVE DispatchInv'
    OBVIOUS
  <1>1. CASE \E e \in Events : insertOutboxEvent(e) \/ FallsDue(e)
    BY <1>1, RowsKeepInv
  <1>2. CASE \E d \in Dispatchers : claimDueEvents(d)
    BY <1>2, ClaimKeepsInv
  <1>3. CASE \E d \in Dispatchers, e \in Events : DispatchStep(d, e)
    BY <1>3, PublishKeepsInv, LoopKeepsInv DEF DispatchStep
  <1>4. CASE Crash
    BY <1>4, CrashKeepsInv
  <1>5. CASE \E j \in JobIds : JobStep(j)
    BY <1>5, JobsKeepInv
  <1>6. CASE UNCHANGED vars
    BY <1>6 DEF DispatchInv, TypeOK, PublishedHasJob, MarkedHasJob, EarlyIsUntouched,
                RemovedIsOver, vars, At
  <1> QED
    BY <1>1, <1>2, <1>3, <1>4, <1>5, <1>6 DEF Next

\* Whatever the calls do, a row is marked published only once its job was added
\* (outbox.ts 129-146).
THEOREM PublishedRowsHaveJobs == Spec => []PublishedHasJob
  <1>1. DispatchInv => PublishedHasJob
    BY DEF DispatchInv
  <1> QED
    BY <1>1, InitInv, StepInv, PTL DEF Spec
-----------------------------------------------------------------------------
(* The outbox implements IntentDelivery. *)

\* An intent's view depends on its row and its job alone.
LEMMA ViewOfRow ==
    /\ intentView = [e \in Events |-> intentView[e]]
    /\ \A e \in Events : intentView[e] = IntentOf(e)
  BY DEF intentView

\* A view that changes at one row only is an EXCEPT.
LEMMA OneViewChanges ==
    ASSUME NEW e \in Events, \A f \in Events : f # e => IntentOf(f)' = IntentOf(f)
    PROVE  intentView' = [intentView EXCEPT ![e] = IntentOf(e)']
  BY DEF intentView

\* A step that leaves every row's view alone is a stutter.
LEMMA NoViewChanges ==
    ASSUME \A f \in Events : IntentOf(f)' = IntentOf(f)
    PROVE  intentView' = intentView
  BY DEF intentView

\* A row's insertion commits its intent; falling due is invisible.
LEMMA RowsSimulate ==
    ASSUME DispatchInv, NEW e \in Events, insertOutboxEvent(e) \/ FallsDue(e)
    PROVE  [Delivery!Next]_intentView
  <1>1. /\ outbox[e] \in {"absent", "deferred"} /\ jobs' = jobs
        /\ jobs[deterministicJobId(e)] = "absent"
    BY DEF insertOutboxEvent, FallsDue, DispatchInv, EarlyIsUntouched
  <1>2. PICK stage \in {"due", "deferred"} : outbox' = [outbox EXCEPT ![e] = stage]
    BY DEF insertOutboxEvent, FallsDue, StagesAtInsert
  <1>3. \A f \in Events : f # e => IntentOf(f)' = IntentOf(f)
    BY <1>1, <1>2 DEF IntentOf, DispatchInv, TypeOK
  <1>4. IntentOf(e)' = "pending"
    BY <1>1, <1>2 DEF IntentOf, DispatchInv, TypeOK
  <1>5. CASE outbox[e] = "absent"
    <2>1. intentView[e] = "absent"
      BY <1>5, ViewOfRow DEF IntentOf
    <2>2. Delivery!Commit(e)
      BY <1>3, <1>4, <2>1, OneViewChanges DEF Delivery!Commit, Delivery!Moves
    <2> QED
      BY <2>2 DEF Delivery!Next
  <1>6. CASE outbox[e] = "deferred"
    <2>1. IntentOf(e) = "pending"
      BY <1>1, <1>6 DEF IntentOf
    <2> QED
      BY <1>3, <1>4, <2>1, NoViewChanges
  <1> QED
    BY <1>1, <1>5, <1>6

\* Publishing enqueues a pending intent, or finds the job and changes nothing.
LEMMA PublishSimulates ==
    ASSUME DispatchInv, NEW d \in Dispatchers, NEW e \in Events,
           Publish(d, e) \/ PublishThrows(d, e)
    PROVE  [Delivery!Next]_intentView
  <1>1. At(d, "publish", e) /\ outbox' = outbox /\ (jobs' = jobs \/ jobs' = Added(e))
    BY DEF Publish, PublishThrows
  <1>2. outbox[e] \in {"due", "published"}
    BY <1>1 DEF At, DispatchInv, EarlyIsUntouched, TypeOK, RowStages
  <1>3. CASE jobs' = jobs
    <2>1. \A f \in Events : IntentOf(f)' = IntentOf(f)
      BY <1>1, <1>3 DEF IntentOf
    <2> QED
      BY <2>1, NoViewChanges
  <1>4. CASE jobs' # jobs
    <2>1. jobs[deterministicJobId(e)] = "absent"
      BY <1>1, <1>4, AddedJob
    <2>2. jobs' = [jobs EXCEPT ![deterministicJobId(e)] = "queued"]
      BY <1>1, <1>4, <2>1, AddedJob
    <2>3. /\ jobs'[deterministicJobId(e)] = "queued"
          /\ \A f \in Events : f # e =>
                jobs'[deterministicJobId(f)] = jobs[deterministicJobId(f)]
      BY <2>2, JobIdsAreScoped DEF DispatchInv, TypeOK
    <2>4. \A f \in Events : f # e => IntentOf(f)' = IntentOf(f)
      BY <1>1, <2>3 DEF IntentOf
    <2>5. IntentOf(e) = "pending" /\ IntentOf(e)' = "queued"
      BY <1>1, <1>2, <2>1, <2>3 DEF IntentOf
    <2>6. Delivery!Enqueue(e)
      BY <2>4, <2>5, ViewOfRow, OneViewChanges DEF Delivery!Enqueue, Delivery!Moves
    <2> QED
      BY <2>6 DEF Delivery!Next
  <1> QED
    BY <1>3, <1>4

\* Claiming, marking, recording and crashing are invisible: a row that is marked
\* has its job, and being due or published makes no difference to it.
LEMMA LoopSimulates ==
    ASSUME DispatchInv, jobs' = jobs,
           \/ outbox' = outbox
           \/ \E d \in Dispatchers, e \in Events : Mark(d, e)
    PROVE  intentView' = intentView
  <1>1. CASE outbox' = outbox
    <2>1. \A f \in Events : IntentOf(f)' = IntentOf(f)
      BY <1>1 DEF IntentOf
    <2> QED
      BY <2>1, NoViewChanges
  <1>2. ASSUME NEW d \in Dispatchers, NEW e \in Events, Mark(d, e)
        PROVE  intentView' = intentView
    <2>1. outbox' = [outbox EXCEPT ![e] = "published"] /\ e \in dispatch[d].batch
      BY <1>2 DEF Mark, At
    <2>2. outbox[e] # "absent"
      BY <2>1 DEF DispatchInv, EarlyIsUntouched
    <2>3. \A f \in Events : outbox'[f] = "absent" <=> outbox[f] = "absent"
      BY <2>1, <2>2 DEF DispatchInv, TypeOK
    <2>4. \A f \in Events : IntentOf(f)' = IntentOf(f)
      BY <2>3 DEF IntentOf
    <2> QED
      BY <2>4, NoViewChanges
  <1> QED
    BY <1>1, <1>2

\* A job that ends, ends its intent; its removal is invisible.
LEMMA JobsSimulate ==
    ASSUME DispatchInv, NEW j \in JobIds, JobStep(j)
    PROVE  [Delivery!Next]_intentView
  <1>1. PICK e \in Events : j = deterministicJobId(e)
    BY JobIdsAreScoped
  <1>2. PICK stage \in {"completed", "failed", "removed"} : jobs' = [jobs EXCEPT ![j] = stage]
    BY DEF JobStep, CompleteJob, FailJob, RemoveJob, JobMoves
  <1>3. outbox' = outbox /\ jobs[j] \in {"queued", "completed"}
    BY DEF JobStep, CompleteJob, FailJob, RemoveJob, JobMoves
  <1>4. outbox[e] # "absent"
    BY <1>1, <1>3 DEF DispatchInv, EarlyIsUntouched
  <1>5. /\ jobs'[deterministicJobId(e)] = stage
        /\ \A f \in Events : f # e =>
              jobs'[deterministicJobId(f)] = jobs[deterministicJobId(f)]
    BY <1>1, <1>2, JobIdsAreScoped DEF DispatchInv, TypeOK
  <1>6. \A f \in Events : f # e => IntentOf(f)' = IntentOf(f)
    BY <1>3, <1>5 DEF IntentOf
  <1>7. IntentOf(e)' = "over"
    BY <1>3, <1>4, <1>5 DEF IntentOf
  <1>8. CASE jobs[j] = "queued"
    <2>1. IntentOf(e) = "queued"
      BY <1>1, <1>4, <1>8 DEF IntentOf
    <2>2. Delivery!End(e)
      BY <1>6, <1>7, <2>1, ViewOfRow, OneViewChanges DEF Delivery!End, Delivery!Moves
    <2> QED
      BY <2>2 DEF Delivery!Next
  <1>9. CASE jobs[j] = "completed"
    <2>1. IntentOf(e) = "over"
      BY <1>1, <1>4, <1>9 DEF IntentOf
    <2> QED
      BY <1>6, <1>7, <2>1, NoViewChanges
  <1> QED
    BY <1>3, <1>8, <1>9

\* Every step of the outbox is a step of IntentDelivery or a stutter.
LEMMA StepSimulates == DispatchInv /\ [Next]_vars => [Delivery!Next]_intentView
  <1> SUFFICES ASSUME DispatchInv, [Next]_vars PROVE [Delivery!Next]_intentView
    OBVIOUS
  <1>1. CASE \E e \in Events : insertOutboxEvent(e) \/ FallsDue(e)
    BY <1>1, RowsSimulate
  <1>2. CASE \E d \in Dispatchers : claimDueEvents(d)
    BY <1>2, LoopSimulates DEF claimDueEvents
  <1>3. CASE \E d \in Dispatchers, e \in Events : DispatchStep(d, e)
    <2>1. PICK d \in Dispatchers, e \in Events : DispatchStep(d, e)
      BY <1>3
    <2>2. CASE Publish(d, e) \/ PublishThrows(d, e)
      BY <2>2, PublishSimulates
    <2>3. CASE Mark(d, e)
      BY <2>3, LoopSimulates DEF Mark
    <2>4. CASE MarkThrows(d, e) \/ RecordError(d, e) \/ RecordThrows(d, e)
      BY <2>4, LoopSimulates DEF MarkThrows, RecordError, RecordThrows
    <2> QED
      BY <2>1, <2>2, <2>3, <2>4 DEF DispatchStep
  <1>4. CASE Crash
    BY <1>4, LoopSimulates DEF Crash
  <1>5. CASE \E j \in JobIds : JobStep(j)
    BY <1>5, JobsSimulate
  <1>6. CASE UNCHANGED vars
    BY <1>6, LoopSimulates DEF vars
  <1> QED
    BY <1>1, <1>2, <1>3, <1>4, <1>5, <1>6 DEF Next

\* No intent is there at first.
LEMMA InitSimulates == Init => Delivery!Init
  BY DEF Init, Delivery!Init, intentView, IntentOf

\* For any number of rows and overlapping calls, the outbox and the queue turn
\* every committed intent into one job, once, and no two intents into the same
\* (outbox.ts 116-148, producer.ts 86-107, job-ids.ts 38-57).
THEOREM OutboxDelivers == Spec => ImplementsDelivery
  <1> QED
    BY InitInv, StepInv, InitSimulates, StepSimulates, PTL
    DEF Spec, ImplementsDelivery, Delivery!Spec
=============================================================================
