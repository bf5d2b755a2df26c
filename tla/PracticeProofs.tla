--------------------------- MODULE PracticeProofs ---------------------------
(***************************************************************************)
(* What Practice promises, for any number of takes, recordings and         *)
(* overlapping calls, and any capacity.                                    *)
(***************************************************************************)
EXTENDS Practice, FiniteSetTheorems, TLAPS

-----------------------------------------------------------------------------
(* The inductive invariants.                                               *)

\* The upload handle waits for one call, its own, and it alone is heard.
UpInv ==
    /\ up.phase \in {"none", "cut"} => up.slot = NoSlot
    /\ up.phase \in {"create", "put", "complete"} =>
         /\ up.slot \in Slots /\ calls[up.slot].op = up.phase /\ calls[up.slot].heard
         /\ calls[up.slot].take = up.take
         /\ up.phase # "create" => calls[up.slot].rec = up.rec
    /\ up.phase = "reload" =>
         /\ page /\ up.slot \in Slots
         /\ calls[up.slot].op = "list" /\ calls[up.slot].heard
    /\ up.phase \in {"cut", "reload"} => up.trim
    /\ up.phase # "none" => up.take \in Takes
    /\ \A s \in Slots :
         calls[s].heard /\ calls[s].op \in {"create", "put", "complete"} =>
           up.slot = s /\ up.phase = calls[s].op

\* A call carries a recording from its insertion to the end of its completion.
Carrying(call) ==
    \/ call.op = "create" /\ call.step \in {"inserted", "ok"}
    \/ call.op \in {"put", "complete"}

Exists(r) == r \in Recs /\ rows[r].status # "none"

\* What a call names is there, and a carried recording is of its take.
NamedCall(call) ==
    /\ Carrying(call) \/ call.op \in {"retry", "delete"} => Exists(call.rec)
    /\ Carrying(call) => rows[call.rec].take = call.take
    /\ \A r \in Recs : call.view[r] # "none" => Exists(r)
NamedInv ==
    /\ \A s \in Slots : NamedCall(calls[s])
    /\ \A r \in Recs : list[r] # "none" => Exists(r)
    /\ \A r \in Recs : rows[r].status \in {"none", "DELETED"} \/ rows[r].key # "none"

TypeInv == TypeOK /\ UpInv /\ NamedInv

\* The open page asks for a camera once, holds one until there is a take, and
\* uploads only the take under review.
MediaInv ==
    /\ page => (asking <=> recorder.permission = "requesting")
    /\ recorder.stream # "none" => page /\ recorder.permission = "granted"
    /\ recorder.recording => page /\ recorder.permission = "granted"
    /\ page /\ recorder.machine = "stopping" => recorder.permission = "granted"
    /\ review.capture # NoTake =>
         /\ page /\ recorder.permission = "granted"
         /\ recorder.machine = "none" /\ recorder.stream = "none" /\ ~recorder.recording
    /\ page /\ up.phase \in {"cut", "create", "put", "complete"} => review.capture = up.take
    /\ RecordingCanStop

\* At most one call carries a recording; before its completion runs it is not
\* past staging, and an aborted one is never completed.
CarryInv ==
    /\ \A s, x \in Slots : Carrying(calls[s]) /\ Carrying(calls[x]) /\ calls[s].rec = calls[x].rec => s = x
    /\ \A s \in Slots : Carrying(calls[s]) =>
         IF calls[s].op = "complete" /\ calls[s].step = "ok" THEN calls[s].rec \in Past
         ELSE calls[s].op # "complete" => calls[s].rec \notin Transferred
    /\ \A s \in Slots : Carrying(calls[s]) /\ calls[s].rec \in aborted =>
                          calls[s].op = "put" /\ ~calls[s].heard
    /\ \A r \in aborted : Exists(r) /\ r \notin Transferred

\* Every take anything names has been made.
TakenInv ==
    /\ review.capture \in taken \cup {NoTake} /\ up.take \in taken \cup {NoTake}
    /\ \A s \in Slots : calls[s].take \in taken \cup {NoTake}
    /\ \A r \in Recs : rows[r].take \in taken \cup {NoTake}

\* A take is uploaded again only while none of its recordings is past staging.
Spent(t) == review.capture # t /\ (up.phase \in {"none", "reload"} \/ up.take # t)
Completing(r) == up.phase = "complete" /\ up.rec = r /\ calls[up.slot].step = "ok"
TakeInv ==
    /\ \A s \in Slots : calls[s].op = "complete" /\ ~calls[s].heard => calls[s].take \in unheard
    /\ \A r \in Transferred : rows[r].take \in Takes \ unheard =>
                               Completing(r) \/ Spent(rows[r].take)
    /\ TakeIsOneRecording

\* What is not shown as it is, is shown as on its way, or a reload later than
\* what is shown is on its way itself.
Later(s, n) ==
    /\ calls[s].heard /\ calls[s].op \in {"list", "retry", "delete"}
    /\ calls[s].op = "list" /\ calls[s].step = "ok" => calls[s].order = 0 \/ calls[s].order > n
Shown(view, n, r) ==
    \/ view[r] = Listing[r] \/ view[r] \in NonTerminal
    \/ \E s \in Slots : Later(s, n)
    \/ Completing(r)
Known == {r \in Past : rows[r].take \notin unheard}
FreshInv ==
    page /\ ~muddled =>
      /\ \A s \in Slots : calls[s].op \in {"list", "retry", "delete"} => calls[s].heard
      /\ \A r \in Known : Shown(list, 0, r)
      /\ \A s \in Slots : calls[s].op = "list" /\ calls[s].step = "ok" /\ calls[s].order > 0 =>
                            \A r \in Known : Shown(calls[s].view, calls[s].order, r)

-----------------------------------------------------------------------------
(* Types.                                                                  *)

\* A function with values in Nat has a greatest one on a finite domain: in a
\* minimal set without one, any element or the greatest of the rest is it.
LEMMA FiniteHasGreatest ==
    ASSUME NEW S, IsFiniteSet(S), S # {}, NEW f \in [S -> Nat]
    PROVE  \E m \in S : \A x \in S : f[x] <= f[m]
  <1> DEFINE Greatest(A) == \E m \in A : \A x \in A : f[x] <= f[m]
             Bad == {A \in SUBSET S : A # {} /\ ~Greatest(A)}
  <1>1. SUFFICES ASSUME Bad # {} PROVE FALSE
    <2>1. S \in SUBSET S
      OBVIOUS
    <2> QED BY <2>1
  <1>2. Bad \subseteq FiniteSubsetsOf(S)
    BY FS_Subset DEF FiniteSubsetsOf
  <1>3. IsWellFoundedOn(StrictSubsetOrdering(S), FiniteSubsetsOf(S))
    BY FS_StrictSubsetOrderingWellFounded
  <1>4. PICK A \in Bad : \A B \in Bad : ~(<<B, A>> \in StrictSubsetOrdering(S))
    <2> HIDE DEF Bad
    <2> QED BY <1>1, <1>2, <1>3, WFMin
  <1>5. PICK a \in A : TRUE
    OBVIOUS
  <1> DEFINE B == A \ {a}
  <1>6. B # {}
    <2>1. SUFFICES ASSUME B = {} PROVE Greatest(A)
      BY <1>4
    <2>2. \A x \in A : x = a /\ f[x] <= f[a]
      BY <2>1, <1>4
    <2> QED BY <2>2, <1>5
  <1>7. B \notin Bad
    BY <1>4, <1>5 DEF StrictSubsetOrdering
  <1>8. PICK b \in B : \A x \in B : f[x] <= f[b]
    BY <1>6, <1>7
  <1>9. f[a] \in Nat /\ f[b] \in Nat /\ \A x \in A : f[x] \in Nat
    BY <1>4, <1>5, <1>8
  <1>10. CASE f[a] <= f[b]
    BY <1>10, <1>4, <1>8, <1>9
  <1>11. CASE ~(f[a] <= f[b])
    <2>1. \A x \in A : f[x] <= f[a]
      BY <1>11, <1>8, <1>9
    <2> QED BY <2>1, <1>4, <1>5
  <1> QED BY <1>10, <1>11

\* The list served last is numbered above every other.
LEMMA ServedIsGreatest ==
    ASSUME PracticeAssumption, calls \in [Slots -> Calls]
    PROVE  Served \in Nat /\ \A s \in Slots : calls[s].order <= Served
  <1> DEFINE f == [s \in Slots |-> calls[s].order]
             Orders == {calls[s].order : s \in Slots}
  <1>1. f \in [Slots -> Nat]
    BY DEF Calls
  <1>2. PICK m \in Slots : \A x \in Slots : f[x] <= f[m]
    <2> HIDE DEF f
    <2> QED BY <1>1, FiniteHasGreatest DEF PracticeAssumption
  <1>3. \E x \in Orders : \A y \in Orders : x >= y
    <2>1. calls[m].order \in Orders
      OBVIOUS
    <2>2. \A y \in Orders : calls[m].order >= y
      BY <1>1, <1>2
    <2> QED BY <2>1, <2>2
  <1>4. Max(Orders) \in Orders /\ \A y \in Orders : Max(Orders) >= y
    BY <1>3 DEF Max
  <1>5. \A y \in Orders : y \in Nat
    BY DEF Calls
  <1> QED BY <1>4, <1>5 DEF Served

LEMMA CallTypes ==
    /\ Idle \in Calls
    /\ \A op \in {"create", "put", "complete", "list", "retry", "delete"},
          take \in Takes \cup {NoTake}, rec \in Recs \cup {NoRec} :
         CallOf(op, take, rec) \in Calls
    /\ \A call \in Calls, step \in {"ok", "refused"} : Answered(call, step) \in Calls
    /\ \A call \in Calls : Unheard(call) \in Calls
  <1>1. Nothing \in Views
    BY DEF Nothing, Views, Statuses
  <1> QED BY <1>1 DEF Idle, CallOf, Calls, Answered, Unheard

LEMMA InitTypes == PracticeAssumption /\ Init => TypeOK
  <1> SUFFICES ASSUME PracticeAssumption, Init PROVE TypeOK
    OBVIOUS
  <1>1. recorder \in Recorders /\ up \in Uploads
    BY DEF Init, FreshRecorder, Recorders, Permissions, NoUpload, Uploads
  <1>2. calls \in [Slots -> Calls]
    BY CallTypes DEF Init
  <1>3. rows \in [Recs -> Rows]
    <2>1. NoRow \in Rows /\ [NoRow EXCEPT !.status = "FAILED", !.key = "own",
                                        !.object = TRUE] \in Rows
      BY DEF NoRow, Rows, Statuses
    <2> QED BY <2>1 DEF Init
  <1>4. list \in Views
    <2>1. \A r \in Recs : rows[r].status \in Statuses /\ "none" \in Statuses
      BY <1>3 DEF Rows, Statuses
    <2>2. Listing \in Views
      BY <2>1 DEF Listing, Views
    <2> QED BY <2>2 DEF Init
  <1>5. /\ review \in [capture : Takes \cup {NoTake}, player : {"none", "plays", "broken"}]
        /\ made \in 0 .. MaxCalls
    BY DEF Init, NoReview, PracticeAssumption
  <1> QED BY <1>1, <1>2, <1>3, <1>4, <1>5 DEF Init, TypeOK

\* A step that sends one typed call, if any, and leaves the rest of the page.
LEMMA SendTypes ==
    ASSUME TypeInv, NEW s \in Slots, NEW call \in Calls, Send(s, call)
    PROVE  calls' \in [Slots -> Calls]
  BY DEF Send, TypeInv, TypeOK

LEMMA RecordsTypes ==
    ASSUME PracticeAssumption, TypeInv, Records PROVE TypeOK'
  <1> USE DEF TypeInv, TypeOK, outside, shownVars, ghosts, NoReview
  <1>1. Reset(recorder) \in Recorders
    BY DEF Reset, Recorders, Permissions
  <1>2. CASE RequestPermission
    BY <1>2 DEF RequestPermission, Recorders, Permissions
  <1>3. CASE PermissionGranted
    <2>1. recorder' \in Recorders
      BY <1>3 DEF PermissionGranted, Recorders, Permissions
    <2> QED BY <1>3, <2>1 DEF PermissionGranted
  <1>4. CASE PermissionRefused
    BY <1>4 DEF PermissionRefused, Recorders, Permissions
  <1>5. CASE Start
    BY <1>5 DEF Start, Recorders
  <1>6. CASE Stop
    BY <1>6 DEF Stop, Recorders
  <1>7. CASE StopFires
    <2>1. recorder' \in Recorders
      BY <1>7 DEF StopFires, Recorders
    <2> QED BY <1>7, <2>1 DEF StopFires
  <1>8. CASE RecorderFails
    BY <1>8 DEF RecorderFails, Recorders
  <1>9. CASE DeviceLost
    BY <1>9 DEF DeviceLost, Recorders
  <1>10. CASE Discard
    BY <1>1, <1>10 DEF Discard
  <1>11. CASE Leave
    <2>1. calls' \in [Slots -> Calls]
      BY <1>11, CallTypes DEF Leave
    <2>2. list' \in Views /\ up' \in Uploads
      BY <1>11 DEF Leave, Nothing, Views, Statuses, NoUpload, Uploads
    <2> QED BY <1>1, <1>11, <2>1, <2>2 DEF Leave, Released
  <1> QED
    BY <1>2, <1>3, <1>4, <1>5, <1>6, <1>7, <1>8, <1>9, <1>10, <1>11 DEF Records

LEMMA TransportsTypes ==
    ASSUME PracticeAssumption, TypeInv,
           TrimUpload \/ TrimFails \/ \E s \in Slots : Transports(s)
    PROVE  TypeOK'
  <1> USE DEF unmoved, media, shownVars, ghosts
  <1>1. /\ NoUpload \in Uploads /\ Reset(recorder) \in Recorders
    BY DEF TypeInv, TypeOK, Reset, Recorders, Permissions, NoUpload, Uploads
  <1>12. up \in Uploads
    BY DEF TypeInv, TypeOK
  <1>13. /\ \A phase \in {"cut", "create", "put", "complete", "reload"},
              r \in Recs \cup {NoRec} :
             [up EXCEPT !.phase = phase, !.rec = r] \in Uploads
    BY <1>12 DEF Uploads
  <1>2. PanelReturns => review' \in [capture : Takes \cup {NoTake},
                                     player : {"none", "plays", "broken"}]
    BY DEF TypeInv, TypeOK, PanelReturns
  <1>3. CASE TrimUpload
    BY <1>3 DEF TypeInv, TypeOK, TrimUpload, NoUpload, Uploads
  <1>4. CASE TrimFails
    BY <1>1, <1>2, <1>4 DEF TypeInv, TypeOK, TrimFails
  <1>5. ASSUME NEW s \in Slots, Transports(s) PROVE TypeOK'
    <2>1. ASSUME NEW take \in Takes \cup {NoTake}, NEW trim \in BOOLEAN, Begin(s, take, trim)
          PROVE  calls' \in [Slots -> Calls] /\ up' \in Uploads
      BY <2>1, CallTypes, SendTypes DEF Begin, Uploads
    <2>2. ASSUME NEW phase \in {"put", "complete"}, NEW r \in Recs \cup {NoRec},
                 Continues(s, phase, r)
          PROVE  calls' \in [Slots -> Calls] /\ up' \in Uploads
      <3>1. up.take \in Takes \cup {NoTake}
        BY DEF TypeInv, TypeOK, Uploads
      <3> QED BY <1>13, <2>2, <3>1, CallTypes, SendTypes DEF Continues
    <2>3. /\ Send(s, Idle) \/ Send(s, Unheard(calls[s]))
             \/ Send(s, CallOf("list", NoTake, NoRec))
          => calls' \in [Slots -> Calls]
      <3>1. calls[s] \in Calls
        BY DEF TypeInv, TypeOK
      <3> QED BY <3>1, CallTypes, SendTypes
    <2>4. CASE Upload(s)
      <3>1. review.capture \in Takes \cup {NoTake}
        BY DEF TypeInv, TypeOK
      <3>2. review' \in [capture : Takes \cup {NoTake}, player : {"none", "plays", "broken"}]
        BY <2>4 DEF TypeInv, TypeOK, Upload
      <3>3. made' \in 0 .. MaxCalls
        BY <2>4 DEF TypeInv, TypeOK, Upload, Free, PracticeAssumption
      <3>4. calls' \in [Slots -> Calls] /\ up' \in Uploads
        BY <2>1, <2>4, <3>1 DEF Upload
      <3> QED BY <2>4, <3>2, <3>3, <3>4 DEF TypeInv, TypeOK, Upload
    <2>5. CASE TrimDone(s)
      <3>1. up.take \in Takes \cup {NoTake}
        BY <1>12 DEF Uploads
      <3>2. made' \in 0 .. MaxCalls
        BY <2>5 DEF TypeInv, TypeOK, TrimDone, Free, PracticeAssumption
      <3>3. calls' \in [Slots -> Calls] /\ up' \in Uploads
        BY <2>1, <2>5, <3>1 DEF TrimDone
      <3> QED BY <2>5, <3>2, <3>3 DEF TypeInv, TypeOK, TrimDone
    <2>6. CASE CreateAnswered(s)
      <3>1. calls[s].rec \in Recs \cup {NoRec}
        BY DEF TypeInv, TypeOK, Calls
      <3> QED BY <2>2, <2>6, <3>1 DEF TypeInv, TypeOK, CreateAnswered
    <2>7. CASE PutAnswered(s)
      <3>1. up.rec \in Recs \cup {NoRec}
        BY DEF TypeInv, TypeOK, Uploads
      <3> QED BY <2>2, <2>7, <3>1 DEF TypeInv, TypeOK, PutAnswered
    <2>8. CASE CompleteAnswered(s)
      <3>1. up' \in Uploads
        BY <1>1, <2>8 DEF TypeInv, TypeOK, CompleteAnswered, Uploads
      <3> QED BY <1>1, <2>3, <2>8, <3>1 DEF TypeInv, TypeOK, CompleteAnswered, NoReview
    <2>9. CASE UploadRefused(s)
      BY <1>1, <1>2, <2>3, <2>9 DEF TypeInv, TypeOK, UploadRefused
    <2>10. CASE UploadLost(s)
      <3>1. unheard' \subseteq Takes
        <4>1. calls[s].op = "complete" => up.take \in Takes
          BY <2>10 DEF TypeInv, UpInv, UploadLost, Waits
        <4> QED BY <2>10, <4>1 DEF TypeInv, TypeOK, UploadLost
      <3> QED BY <1>1, <1>2, <2>3, <2>10, <3>1 DEF TypeInv, TypeOK, UploadLost
    <2>11. CASE CancelUpload(s)
      <3>1. aborted' \subseteq Recs
        <4>1. up.rec \in Recs
          BY <2>11 DEF TypeInv, UpInv, NamedInv, NamedCall, CancelUpload, Carrying, Exists
        <4> QED BY <2>11, <4>1 DEF TypeInv, TypeOK, CancelUpload
      <3> QED BY <1>1, <1>2, <2>3, <2>11, <3>1 DEF TypeInv, TypeOK, CancelUpload
    <2> QED
      BY <1>5, <2>4, <2>5, <2>6, <2>7, <2>8, <2>9, <2>10, <2>11 DEF Transports
  <1> QED BY <1>3, <1>4, <1>5

LEMMA ListsTypes ==
    ASSUME PracticeAssumption, TypeInv, NEW s \in Slots, Lists(s) PROVE TypeOK'
  <1> USE DEF aside, media, shownVars, ghosts
  <1>1. calls[s] \in Calls /\ up \in Uploads /\ NoUpload \in Uploads
    BY DEF TypeInv, TypeOK, NoUpload, Uploads
  <1>2. ReloadEnds(s) => up' \in Uploads
    BY <1>1 DEF ReloadEnds
  <1>3. ASSUME Free(s), made' = made + 1 PROVE made' \in 0 .. MaxCalls
    BY <1>3 DEF TypeInv, TypeOK, Free, PracticeAssumption
  <1>4. CASE Poll(s)
    <2>1. calls' \in [Slots -> Calls]
      BY <1>4, CallTypes, SendTypes DEF Poll
    <2> QED BY <1>3, <1>4, <2>1 DEF TypeInv, TypeOK, Poll
  <1>5. CASE Retry(s) \/ Delete(s)
    <2>1. PICK op \in {"retry", "delete"}, r \in Recs : Mutates(s, op, r)
      BY <1>5 DEF Retry, Delete
    <2>2. calls' \in [Slots -> Calls]
      BY <2>1, CallTypes, SendTypes DEF Mutates
    <2> QED BY <1>3, <2>1, <2>2 DEF TypeInv, TypeOK, Mutates
  <1>6. CASE MutationAnswered(s)
    <2>1. calls' \in [Slots -> Calls]
      BY <1>6, CallTypes, SendTypes DEF MutationAnswered
    <2> QED BY <1>6, <2>1 DEF TypeInv, TypeOK, MutationAnswered
  <1>7. CASE ListAnswered(s)
    <2>1. \A x \in Slots : calls[x] \in Calls /\ [calls[x] EXCEPT !.order = 0] \in Calls
      BY DEF TypeInv, TypeOK, Calls
    <2>2. calls' \in [Slots -> Calls]
      BY <1>7, <2>1, CallTypes DEF ListAnswered, Overtakes
    <2>3. list' \in Views
      BY <1>1, <1>7 DEF ListAnswered, Calls
    <2> QED BY <1>2, <1>7, <2>2, <2>3 DEF TypeInv, TypeOK, ListAnswered
  <1>8. CASE AttemptsCallFails(s)
    <2>1. calls' \in [Slots -> Calls]
      BY <1>1, <1>8, CallTypes, SendTypes DEF AttemptsCallFails
    <2> QED BY <1>2, <1>8, <2>1 DEF TypeInv, TypeOK, AttemptsCallFails
  <1> QED BY <1>4, <1>5, <1>6, <1>7, <1>8 DEF Lists

LEMMA RowTypes ==
    ASSUME NEW row \in Rows
    PROVE  /\ \A status \in Statuses : [row EXCEPT !.status = status] \in Rows
           /\ [row EXCEPT !.key = "own"] \in Rows /\ [row EXCEPT !.object = TRUE] \in Rows
           /\ [row EXCEPT !.status = "DELETED", !.key = "none", !.object = FALSE] \in Rows
  BY DEF Rows, Statuses

LEMMA ServesTypes ==
    ASSUME PracticeAssumption, TypeInv,
           (\E s \in Slots : Serves(s)) \/ \E r \in Recs : WorkerMoves(r)
    PROVE  TypeOK'
  <1> USE DEF kept, media, shownVars, ghosts
  <1>1. rows \in [Recs -> Rows]
    BY DEF TypeInv, TypeOK
  <1>2. ASSUME NEW r \in Recs, WorkerMoves(r) PROVE TypeOK'
    <2>1. rows[r] \in Rows /\ {"READY", "FAILED"} \subseteq Statuses
      BY <1>1 DEF Statuses
    <2>2. PICK new \in Rows : rows' = [rows EXCEPT ![r] = new]
      <3>1. CASE rows[r].status = "QUEUED"
        BY <1>2, <2>1, <3>1, RowTypes DEF WorkerMoves
      <3>2. CASE rows[r].status = "DELETE_PENDING"
        BY <1>2, <2>1, <3>2, RowTypes DEF WorkerMoves
      <3> QED BY <1>2, <3>1, <3>2 DEF WorkerMoves
    <2>3. rows' \in [Recs -> Rows]
      BY <1>1, <2>2
    <2> QED BY <1>2, <2>3 DEF TypeInv, TypeOK, WorkerMoves
  <1>3. ASSUME NEW s \in Slots, Serves(s) PROVE TypeOK'
    <2>1. calls[s] \in Calls /\ calls \in [Slots -> Calls]
      BY DEF TypeInv, TypeOK
    <2>2. ASSUME NEW step \in {"checked", "ok", "refused"}, Steps(s, step)
          PROVE  calls' \in [Slots -> Calls]
      <3>1. [calls[s] EXCEPT !.step = step] \in Calls
        BY <2>1, <2>2 DEF Calls
      <3> QED BY <2>1, <2>2, <3>1, CallTypes, SendTypes DEF Steps
    <2>3. ASSUME Refuses(s) PROVE TypeOK'
      BY <2>2, <2>3 DEF TypeInv, TypeOK, Refuses
    <2>4. ASSUME kept' = kept, calls' \in [Slots -> Calls], rows' \in [Recs -> Rows]
          PROVE  TypeOK'
      BY <2>4 DEF TypeInv, TypeOK
    <2>5. CASE CheckStagingCapacity(s)
      BY <1>1, <2>2, <2>4, <2>5 DEF CheckStagingCapacity
    <2>6. CASE InsertRecording(s)
      <3>1. CASE Refuses(s)
        BY <2>3, <3>1
      <3>2. CASE ~Refuses(s)
        <4>1. PICK r \in Recs :
                /\ rows' = [rows EXCEPT ![r] = [status |-> "STAGING", key |-> "pending",
                                                object |-> FALSE, take |-> calls[s].take]]
                /\ calls' = [calls EXCEPT ![s] = [@ EXCEPT !.step = "inserted", !.rec = r]]
                /\ kept' = kept
          BY <2>6, <3>2 DEF InsertRecording
        <4>2. [status |-> "STAGING", key |-> "pending", object |-> FALSE,
               take |-> calls[s].take] \in Rows
          BY <2>1 DEF Calls, Rows, Statuses
        <4>3. calls' \in [Slots -> Calls]
          BY <2>1, <4>1 DEF Calls
        <4> QED BY <1>1, <2>4, <4>1, <4>2, <4>3
      <3> QED BY <3>1, <3>2
    <2>7. CASE KeepKey(s)
      <3>1. rows' \in [Recs -> Rows]
        BY <1>1, <2>7 DEF KeepKey, Rows
      <3> QED BY <2>2, <2>4, <2>7, <3>1 DEF KeepKey
    <2>8. CASE PutObject(s)
      <3>1. CASE Refuses(s)
        BY <2>3, <3>1
      <3>2. CASE ~Refuses(s)
        <4>0. rows' = [rows EXCEPT ![calls[s].rec] = [rows[calls[s].rec] EXCEPT !.object = TRUE]]
          BY <2>8, <3>2 DEF PutObject
        <4>2. calls[s].rec \in Recs => [rows[calls[s].rec] EXCEPT !.object = TRUE] \in Rows
          BY <1>1, RowTypes
        <4>1. rows' \in [Recs -> Rows]
          BY <1>1, <4>0, <4>2
        <4> QED BY <2>2, <2>4, <2>8, <3>2, <4>1 DEF PutObject
      <3> QED BY <3>1, <3>2
    <2>9. CASE Complete(s)
      <3>1. CASE Refuses(s)
        BY <2>3, <3>1
      <3>2. CASE ~Refuses(s)
        <4>1. rows' \in [Recs -> Rows]
          BY <1>1, <2>9, <3>2 DEF Complete, Rows, Statuses
        <4> QED BY <2>2, <2>4, <2>9, <3>2, <4>1 DEF Complete
      <3> QED BY <3>1, <3>2
    <2>10. CASE RetryRecording(s)
      <3>1. CASE Refuses(s)
        BY <2>3, <3>1
      <3>2. CASE ~Refuses(s)
        <4>1. rows' \in [Recs -> Rows]
          BY <1>1, <2>10, <3>2 DEF RetryRecording, Rows, Statuses
        <4> QED BY <2>2, <2>4, <2>10, <3>2, <4>1 DEF RetryRecording
      <3> QED BY <3>1, <3>2
    <2>11. CASE DeleteRecording(s)
      <3> DEFINE r == calls[s].rec
                 status == IF rows[r].status = "DELETED" THEN "DELETED" ELSE "DELETE_PENDING"
      <3>0. status \in Statuses /\ rows' = [rows EXCEPT ![r] = [rows[r] EXCEPT !.status = status]]
        BY <2>11 DEF DeleteRecording, Statuses
      <3>1. rows' \in [Recs -> Rows]
        <4>1. r \in Recs => [rows[r] EXCEPT !.status = status] \in Rows
          <5> HIDE DEF status
          <5> QED BY <1>1, <3>0, RowTypes
        <4> QED BY <1>1, <3>0, <4>1
      <3> QED BY <2>2, <2>4, <2>11, <3>1 DEF DeleteRecording
    <2>12. CASE ListRecordings(s)
      <3>1. Listing \in Views
        <4>1. \A r \in Recs : rows[r].status \in Statuses /\ "none" \in Statuses
          BY <1>1 DEF Rows, Statuses
        <4> QED BY <4>1 DEF Listing, Views
      <3>2. 1 + Served \in Nat
        BY <2>1, ServedIsGreatest
      <3>3. [calls[s] EXCEPT !.view = Listing, !.order = 1 + Served] \in Calls
        BY <2>1, <3>1, <3>2 DEF Calls
      <3>4. calls' \in [Slots -> Calls]
        BY <2>12, <3>3, CallTypes, SendTypes DEF ListRecordings
      <3> QED BY <1>1, <2>4, <2>12, <3>4 DEF ListRecordings
    <2>13. CASE CallDies(s)
      BY <2>3, <2>13 DEF CallDies
    <2>14. CASE OtherCreates(s)
      <3>1. [CallOf("create", NoTake, NoRec) EXCEPT !.heard = FALSE] \in Calls
        <4>1. CallOf("create", NoTake, NoRec) \in Calls
          BY CallTypes
        <4> QED BY <4>1 DEF Calls
      <3>2. calls' \in [Slots -> Calls]
        BY <2>14, <3>1, SendTypes DEF OtherCreates
      <3>3. made' \in 0 .. MaxCalls
        BY <2>14 DEF TypeInv, TypeOK, OtherCreates, Free, PracticeAssumption
      <3> QED BY <2>14, <3>2, <3>3 DEF TypeInv, TypeOK, OtherCreates
    <2> QED
      BY <1>3, <2>5, <2>6, <2>7, <2>8, <2>9, <2>10, <2>11, <2>12, <2>13, <2>14 DEF Serves
  <1> QED BY <1>2, <1>3

-----------------------------------------------------------------------------
(* The upload handle and its call.                                         *)

\* The recorder's steps leave everything else alone, unless the page is left.
LEMMA RecordsFrame ==
    ASSUME Records PROVE Leave \/ UNCHANGED <<page, outside>>
  BY DEF Records, RequestPermission, PermissionGranted, PermissionRefused, Start, Stop,
         StopFires, RecorderFails, DeviceLost, Discard, outside

\* With neither text on the page no upload is under way.
LEMMA NoneUnderWay ==
    ASSUME TypeInv, ~Uploading, ~Trimming PROVE up.phase = "none"
  BY DEF TypeInv, TypeOK, UpInv, Uploading, Trimming, Uploads

LEMMA InitUp == Init => UpInv
  BY DEF Init, UpInv, NoUpload, Idle, CallOf

LEMMA RecordsUp ==
    ASSUME TypeInv, Records PROVE UpInv'
  <1>1. CASE UNCHANGED <<page, outside>>
    BY <1>1 DEF TypeInv, UpInv, outside
  <1>2. CASE Leave
    <2>1. \A s \in Slots :
            /\ calls'[s].heard /\ calls'[s].op \in {"create", "put", "complete"} =>
                 calls[s].heard /\ calls[s].op = calls'[s].op
            /\ calls[s].op \in {"create", "put", "complete"} => calls'[s] = calls[s]
      BY <1>2 DEF Leave, Unheard, Idle, CallOf
    <2>2. CASE up.phase = "reload"
      BY <1>2, <2>1, <2>2 DEF Leave, TypeInv, UpInv, NoUpload
    <2>3. CASE up.phase # "reload"
      <3>1. up' = up
        BY <1>2, <2>3 DEF Leave
      <3> QED BY <2>1, <2>3, <3>1 DEF TypeInv, UpInv
    <2> QED BY <2>2, <2>3
  <1> QED BY <1>1, <1>2, RecordsFrame

LEMMA TransportsUp ==
    ASSUME TypeInv, TrimUpload \/ TrimFails \/ \E s \in Slots : Transports(s)
    PROVE  UpInv'
  <1>0. /\ UpInv /\ up \in Uploads /\ calls \in [Slots -> Calls] /\ NoSlot = NoUpload.slot
        /\ review.capture \in Takes \cup {NoTake}
        /\ NoUpload.phase = "none" /\ Idle.op = "idle"
        /\ \A op, take, rec : /\ CallOf(op, take, rec).op = op
                              /\ CallOf(op, take, rec).take = take
                              /\ CallOf(op, take, rec).rec = rec
                              /\ CallOf(op, take, rec).heard
    BY DEF TypeInv, TypeOK, NoUpload, Idle, CallOf
  <1>1. CASE TrimUpload
    BY <1>0, <1>1, NoneUnderWay DEF TrimUpload, NoUpload, UpInv
  <1>2. CASE TrimFails
    BY <1>0, <1>2 DEF TrimFails, UpInv, unmoved
  <1>3. ASSUME NEW s \in Slots, Transports(s) PROVE UpInv'
    <2>1. ASSUME NEW call, Send(s, call)
          PROVE  calls'[s] = call /\ \A x \in Slots : x # s => calls'[x] = calls[x]
      BY <1>0, <2>1 DEF Send
    <2>2. ASSUME up' = NoUpload, up.phase # "reload", NEW call, Send(s, call),
                 ~(call.heard /\ call.op \in {"create", "put", "complete"}),
                 up.slot = s
          PROVE  UpInv'
      BY <1>0, <2>1, <2>2 DEF UpInv
    <2>3. /\ ~(Unheard(calls[s]).heard /\ Unheard(calls[s]).op \in {"create", "put", "complete"})
          /\ ~(Idle.heard /\ Idle.op \in {"create", "put", "complete"})
      BY <1>0 DEF Unheard, Calls
    <2>4. ASSUME NEW op \in {"create", "put", "complete"}, Waits(s, op)
          PROVE  up.phase = op /\ up.slot = s
      BY <2>4 DEF TypeInv, UpInv, Waits
    <2>5. CASE Upload(s)
      <3>1. up.phase = "none" /\ up.slot = NoSlot
        BY <1>0, <2>5, NoneUnderWay DEF Upload, UpInv
      <3> QED BY <1>0, <2>1, <2>5, <3>1 DEF Upload, Begin, UpInv, Free
    <2>6. CASE TrimDone(s)
      BY <1>0, <2>1, <2>6 DEF TrimDone, Begin, UpInv, Free
    <2>7. CASE CreateAnswered(s)
      BY <1>0, <2>1, <2>4, <2>7 DEF CreateAnswered, Continues, UpInv, Uploads, unmoved
    <2>8. CASE PutAnswered(s)
      BY <1>0, <2>1, <2>4, <2>8 DEF PutAnswered, Continues, UpInv, Uploads, unmoved
    <2>9. CASE CompleteAnswered(s)
      <3>1. up.phase = "complete" /\ up.slot = s
        BY <2>4, <2>9 DEF CompleteAnswered
      <3>2. CASE page /\ up.trim
        BY <1>0, <2>1, <2>9, <3>1, <3>2 DEF CompleteAnswered, UpInv, Uploads
      <3>3. CASE ~(page /\ up.trim)
        BY <1>0, <2>1, <2>2, <2>9, <3>1, <3>3 DEF CompleteAnswered
      <3> QED BY <3>2, <3>3
    <2>10. CASE UploadRefused(s)
      BY <1>0, <2>2, <2>3, <2>4, <2>10 DEF UploadRefused
    <2>11. CASE UploadLost(s)
      BY <1>0, <2>2, <2>3, <2>4, <2>11 DEF UploadLost
    <2>12. CASE CancelUpload(s)
      BY <1>0, <2>2, <2>3, <2>12 DEF CancelUpload
    <2> QED
      BY <1>3, <2>5, <2>6, <2>7, <2>8, <2>9, <2>10, <2>11, <2>12 DEF Transports
  <1> QED BY <1>1, <1>2, <1>3

LEMMA ListsUp ==
    ASSUME PracticeAssumption, TypeInv, NEW s \in Slots, Lists(s) PROVE UpInv'
  <1>0. /\ UpInv /\ up \in Uploads /\ calls \in [Slots -> Calls]
        /\ NoUpload.phase = "none" /\ NoUpload.slot = NoSlot /\ Idle.op = "idle"
        /\ \A op, take, rec : /\ CallOf(op, take, rec).op = op /\ CallOf(op, take, rec).heard
    BY DEF TypeInv, TypeOK, NoUpload, Idle, CallOf
  <1>1. ASSUME up' = up, page' = page, NEW call, Send(s, call), up.slot # s,
               ~(call.op \in {"create", "put", "complete"})
        PROVE  UpInv'
    BY <1>0, <1>1 DEF UpInv, Send
  <1>2. ASSUME ReloadEnds(s), page' = page,
               \A x \in Slots :
                 x # s => calls'[x].op = calls[x].op /\ calls'[x].heard = calls[x].heard
                          /\ calls'[x].take = calls[x].take /\ calls'[x].rec = calls[x].rec,
               ~(calls'[s].heard /\ calls'[s].op \in {"create", "put", "complete"}),
               calls[s].op \in {"list", "retry", "delete"}
        PROVE  UpInv'
    <2>1. CASE up.phase = "reload" /\ up.slot = s
      BY <1>0, <1>2, <2>1 DEF UpInv, ReloadEnds
    <2>2. CASE ~(up.phase = "reload" /\ up.slot = s)
      <3>1. up' = up
        BY <1>2, <2>2 DEF ReloadEnds
      <3> QED BY <1>0, <1>2, <2>2, <3>1 DEF UpInv
    <2> QED BY <2>1, <2>2
  <1>8. calls[s].op \in {"idle", "retry", "delete"} => up.slot # s
    BY <1>0 DEF UpInv, Uploads, PracticeAssumption
  <1>3. CASE Poll(s)
    BY <1>0, <1>1, <1>3, <1>8 DEF Poll, Free, aside
  <1>4. CASE Retry(s) \/ Delete(s)
    <2>1. PICK op \in {"retry", "delete"}, r \in Recs : Mutates(s, op, r)
      BY <1>4 DEF Retry, Delete
    <2> QED BY <1>0, <1>1, <1>8, <2>1 DEF Mutates, Free, aside
  <1>5. CASE MutationAnswered(s)
    BY <1>0, <1>1, <1>5, <1>8 DEF MutationAnswered, aside
  <1>6. CASE ListAnswered(s)
    BY <1>0, <1>2, <1>6 DEF ListAnswered, Overtakes, aside
  <1>7. CASE AttemptsCallFails(s)
    BY <1>0, <1>2, <1>7 DEF AttemptsCallFails, Send, Unheard, aside, Calls
  <1> QED BY <1>3, <1>4, <1>5, <1>6, <1>7 DEF Lists

LEMMA ServesUp ==
    ASSUME PracticeAssumption, TypeInv,
           (\E s \in Slots : Serves(s)) \/ \E r \in Recs : WorkerMoves(r)
    PROVE  UpInv'
  <1>0. /\ UpInv /\ up \in Uploads /\ calls \in [Slots -> Calls] /\ Idle.op = "idle"
    BY DEF TypeInv, TypeOK, Idle, CallOf
  <1>1. ASSUME NEW r \in Recs, WorkerMoves(r) PROVE UpInv'
    BY <1>0, <1>1 DEF WorkerMoves, kept, UpInv
  <1>2. ASSUME NEW s \in Slots, Serves(s) PROVE UpInv'
    <2>1. ASSUME up' = up, page' = page, NEW call, Send(s, call),
                 \/ call = Idle /\ ~calls[s].heard
                 \/ /\ call.op = calls[s].op /\ call.heard = calls[s].heard
                    /\ call.take = calls[s].take
                    /\ call.rec = calls[s].rec \/ call.op = "create"
          PROVE  UpInv'
      BY <1>0, <2>1 DEF UpInv, Send
    <2>2. ASSUME NEW step, Steps(s, step), up' = up, page' = page
          PROVE  UpInv'
      BY <1>0, <2>1, <2>2 DEF Steps, Answered, Calls
    <2>3. CASE InsertRecording(s)
      <3>1. CASE Refuses(s)
        BY <2>2, <3>1 DEF Refuses, kept
      <3>2. CASE ~Refuses(s)
        <4>1. PICK r \in Recs : Send(s, [calls[s] EXCEPT !.step = "inserted", !.rec = r])
          BY <2>3, <3>2 DEF InsertRecording, Send
        <4>2. up' = up /\ page' = page /\ calls[s].op = "create"
          BY <2>3, <3>2 DEF InsertRecording, kept
        <4> QED BY <1>0, <2>1, <4>1, <4>2 DEF Calls
      <3> QED BY <3>1, <3>2
    <2>4. CASE ListRecordings(s)
      BY <1>0, <2>1, <2>4 DEF ListRecordings, Answered, kept, Calls
    <2>5. CASE OtherCreates(s)
      <3>1. up.slot # s
        BY <1>0, <2>5 DEF OtherCreates, Free, UpInv, Uploads, PracticeAssumption
      <3> QED BY <1>0, <2>5, <3>1 DEF OtherCreates, Send, CallOf, UpInv
    <2>6. CASE ~InsertRecording(s) /\ ~ListRecordings(s) /\ ~OtherCreates(s)
      BY <1>2, <2>2, <2>6
         DEF Serves, CheckStagingCapacity, KeepKey, PutObject, Complete, RetryRecording,
             DeleteRecording, CallDies, Refuses, kept
    <2> QED BY <2>3, <2>4, <2>5, <2>6
  <1> QED BY <1>1, <1>2

-----------------------------------------------------------------------------
(* What calls and lists name.                                              *)

\* Rows stay, with their takes.
RowsKeep ==
    \A r \in Recs : Exists(r) => rows'[r].status # "none" /\ rows'[r].take = rows[r].take

\* Every step leaves a row alone, or moves it along one of these edges.
RowMoves(r) ==
    \/ rows'[r] = rows[r]
    \/ rows[r].status = "none" /\ rows'[r].status = "STAGING" /\ rows'[r].key # "none"
    \/ /\ rows[r].status # "none" /\ rows'[r].take = rows[r].take
       /\ \/ rows'[r].status = rows[r].status /\ rows'[r].key \in {rows[r].key, "own"}
          \/ /\ \/ rows[r].status \in {"STAGING", "FAILED"} /\ rows'[r].status = "QUEUED"
                \/ rows[r].status = "QUEUED" /\ rows'[r].status \in {"READY", "FAILED"}
             /\ rows'[r].key = rows[r].key
          \/ rows'[r].status = "DELETE_PENDING" /\ rows[r].status # "DELETED"
             /\ rows'[r].key = rows[r].key
          \/ rows[r].status = "DELETE_PENDING" /\ rows'[r].status = "DELETED"

LEMMA ServesRows ==
    ASSUME TypeInv, (\E s \in Slots : Serves(s)) \/ \E r \in Recs : WorkerMoves(r)
    PROVE  \A r \in Recs : RowMoves(r)
  <1>0. rows \in [Recs -> Rows] /\ calls \in [Slots -> Calls]
    BY DEF TypeInv, TypeOK
  <1>1. ASSUME NEW r \in Recs, WorkerMoves(r), NEW q \in Recs PROVE RowMoves(q)
    <2>0. CASE q # r
      BY <1>0, <1>1, <2>0 DEF WorkerMoves, RowMoves
    <2>1. CASE q = r /\ rows[r].status = "QUEUED"
      <3>1. PICK next \in {"READY", "FAILED"} :
              rows' = [rows EXCEPT ![r] = [rows[r] EXCEPT !.status = next]]
        BY <1>1, <2>1 DEF WorkerMoves
      <3>2. rows'[r].status = next /\ rows'[r].take = rows[r].take /\ rows'[r].key = rows[r].key
        BY <1>0, <3>1 DEF Rows
      <3> QED BY <2>1, <3>2 DEF RowMoves
    <2>2. CASE q = r /\ rows[r].status = "DELETE_PENDING"
      <3>1. rows' = [rows EXCEPT ![r] = [rows[r] EXCEPT !.status = "DELETED", !.key = "none",
                                                        !.object = FALSE]]
        BY <1>1, <2>2 DEF WorkerMoves
      <3>2. rows'[r].status = "DELETED" /\ rows'[r].take = rows[r].take
        BY <1>0, <3>1 DEF Rows
      <3> QED BY <2>2, <3>2 DEF RowMoves
    <2> QED BY <1>1, <2>0, <2>1, <2>2 DEF WorkerMoves
  <1>2. ASSUME NEW s \in Slots, Serves(s), NEW q \in Recs PROVE RowMoves(q)
    <2>1. Carrying(calls[s]) \/ calls[s].op \in {"retry", "delete"} => Exists(calls[s].rec)
      BY DEF TypeInv, NamedInv, NamedCall
    <2>2. CASE InsertRecording(s)
      <3>1. CASE Refuses(s)
        BY <3>1 DEF Refuses, RowMoves
      <3>2. CASE ~Refuses(s)
        <4>1. PICK r \in Recs :
                /\ rows[r].status = "none"
                /\ rows' = [rows EXCEPT ![r] = [status |-> "STAGING", key |-> "pending",
                                                object |-> FALSE, take |-> calls[s].take]]
          BY <2>2, <3>2 DEF InsertRecording
        <4> QED BY <1>0, <4>1 DEF RowMoves
      <3> QED BY <3>1, <3>2
    <2>3. CASE KeepKey(s)
      BY <1>0, <2>1, <2>3 DEF KeepKey, RowMoves, Rows, Carrying, Exists
    <2>4. CASE PutObject(s)
      BY <1>0, <2>1, <2>4 DEF PutObject, Refuses, RowMoves, Rows, Carrying, Exists
    <2>5. CASE Complete(s)
      BY <1>0, <2>1, <2>5 DEF Complete, Refuses, RowMoves, Rows, Carrying, Exists
    <2>6. CASE RetryRecording(s)
      BY <1>0, <2>1, <2>6 DEF RetryRecording, Refuses, RowMoves, Rows, Carrying, Exists
    <2>7. CASE DeleteRecording(s)
      BY <1>0, <2>1, <2>7 DEF DeleteRecording, RowMoves, Rows, Carrying, Exists
    <2>8. CASE CheckStagingCapacity(s) \/ ListRecordings(s) \/ CallDies(s) \/ OtherCreates(s)
      BY <2>8 DEF CheckStagingCapacity, ListRecordings, CallDies, OtherCreates, Refuses, RowMoves
    <2> QED BY <1>2, <2>2, <2>3, <2>4, <2>5, <2>6, <2>7, <2>8 DEF Serves
  <1> QED BY <1>1, <1>2

\* The steps that touch no row.
LEMMA OtherRows ==
    ASSUME NEW s \in Slots, Records \/ TrimUpload \/ TrimFails \/ Transports(s) \/ Lists(s)
    PROVE  rows' = rows
  BY DEF Records, RequestPermission, PermissionGranted, PermissionRefused, Start, Stop,
         StopFires, RecorderFails, DeviceLost, Discard, Leave, outside, TrimUpload, TrimFails,
         unmoved, Transports, Upload, TrimDone, CreateAnswered, PutAnswered, CompleteAnswered,
         UploadRefused, UploadLost, CancelUpload, Lists, Poll, Retry, Delete, Mutates,
         MutationAnswered, ListAnswered, AttemptsCallFails, aside

LEMMA NextRows ==
    ASSUME PracticeAssumption, TypeInv, Next
    PROVE  (\A r \in Recs : RowMoves(r)) /\ RowsKeep
  <1>1. \A r \in Recs : RowMoves(r)
    <2>1. PICK s \in Slots : TRUE
      BY DEF PracticeAssumption
    <2>2. CASE Records \/ TrimUpload \/ TrimFails
      BY <2>1, <2>2, OtherRows DEF RowMoves
    <2>3. CASE \E x \in Slots : Transports(x) \/ Lists(x)
      BY <2>3, OtherRows DEF RowMoves
    <2>4. CASE (\E x \in Slots : Serves(x)) \/ \E r \in Recs : WorkerMoves(r)
      BY <2>4, ServesRows
    <2> QED BY <2>2, <2>3, <2>4 DEF Next
  <1>2. RowsKeep
    BY <1>1 DEF RowMoves, RowsKeep, Exists
  <1> QED BY <1>1, <1>2

\* The rows stay named, whatever happens to them.
LEMMA NamedRows ==
    ASSUME TypeInv, RowsKeep, \A r \in Recs : RowMoves(r)
    PROVE  /\ \A r : Exists(r) => Exists(r)'
           /\ \A s \in Slots : NamedCall(calls[s]) =>
                \A call : /\ call.op = calls[s].op /\ call.rec = calls[s].rec
                          /\ call.take = calls[s].take /\ call.view = calls[s].view
                          /\ Carrying(call) => Carrying(calls[s])
                          => NamedCall(call)'
           /\ \A r \in Recs : (rows[r].status \in {"none", "DELETED"} \/ rows[r].key # "none")'
           /\ \A r \in Recs : list[r] # "none" => Exists(r)'
  <1>1. \A r : Exists(r) => Exists(r)'
    BY DEF RowsKeep, Exists
  <1>2. ASSUME NEW r \in Recs
        PROVE  rows'[r].status \in {"none", "DELETED"} \/ rows'[r].key # "none"
    <2>1. RowMoves(r) /\ (rows[r].status \in {"none", "DELETED"} \/ rows[r].key # "none")
      BY DEF TypeInv, NamedInv
    <2> QED BY <2>1 DEF RowMoves
  <1>3. ASSUME NEW s \in Slots, NamedCall(calls[s]), NEW call,
               call.op = calls[s].op /\ call.rec = calls[s].rec
               /\ call.take = calls[s].take /\ call.view = calls[s].view
               /\ (Carrying(call) => Carrying(calls[s]))
        PROVE  NamedCall(call)'
    BY <1>1, <1>3 DEF NamedCall, RowsKeep, Exists
  <1>4. \A r \in Recs : list[r] # "none" => Exists(r)'
    BY <1>1 DEF TypeInv, NamedInv
  <1> QED BY <1>1, <1>2, <1>3, <1>4

\* A step that changes one call, and shows no row that is not there.
LEMMA NamedStep ==
    ASSUME TypeInv, RowsKeep, \A r \in Recs : RowMoves(r), NEW s \in Slots, NEW call,
           Send(s, call), NamedCall(call)', list' = list
    PROVE  NamedInv'
  <1>1. ASSUME NEW x \in Slots PROVE NamedCall(calls[x])'
    <2>1. CASE x = s
      <3>1. calls'[x] = call
        BY <2>1 DEF TypeInv, TypeOK, Send
      <3> QED BY <3>1 DEF NamedCall, Carrying
    <2>2. CASE x # s
      <3>1. calls'[x] = calls[x] /\ NamedCall(calls[x])
        BY <2>2 DEF TypeInv, TypeOK, NamedInv, Send
      <3> QED BY <3>1, NamedRows DEF NamedCall, Carrying, RowsKeep, Exists
    <2> QED BY <2>1, <2>2
  <1> QED BY <1>1, NamedRows DEF NamedInv

\* A call about nothing, and one that goes on about what it was about.
Blank(call) ==
    /\ ~Carrying(call) /\ call.op \notin {"retry", "delete"}
    /\ \A r \in Recs : call.view[r] = "none"
GoesOn(call, s) ==
    /\ call.op = calls[s].op /\ call.rec = calls[s].rec /\ call.take = calls[s].take
    /\ call.view = calls[s].view
    /\ Carrying(call) => Carrying(calls[s])

LEMMA BlankCalls ==
    /\ Blank(Idle)
    /\ \A op \in {"create", "list"} : \A take, rec : Blank(CallOf(op, take, rec))
    /\ Blank([CallOf("create", NoTake, NoRec) EXCEPT !.heard = FALSE])
  BY DEF Blank, Carrying, Idle, CallOf, Nothing

LEMMA GoingOn ==
    ASSUME TypeInv, NEW s \in Slots
    PROVE  /\ Blank(Unheard(calls[s])) \/ GoesOn(Unheard(calls[s]), s)
           /\ \A step \in {"checked", "refused"} :
                \/ GoesOn(Answered(calls[s], step), s) \/ Blank(Answered(calls[s], step))
           /\ \A step \in {"checked", "refused"} : GoesOn([calls[s] EXCEPT !.step = step], s)
           /\ Carrying(calls[s]) \/ calls[s].op # "create" =>
                Blank(Answered(calls[s], "ok")) \/ GoesOn(Answered(calls[s], "ok"), s)
           /\ \A n \in Nat : GoesOn([calls[s] EXCEPT !.order = n], s)
  <1>1. calls[s] \in Calls
    BY DEF TypeInv, TypeOK
  <1> QED BY <1>1, BlankCalls DEF GoesOn, Carrying, Calls, Unheard, Answered

LEMMA BlankStep ==
    ASSUME TypeInv, RowsKeep, \A r \in Recs : RowMoves(r), NEW s \in Slots, NEW call,
           Send(s, call), Blank(call) \/ GoesOn(call, s), list' = list
    PROVE  NamedInv'
  <1>1. NamedCall(call)'
    <2>1. CASE Blank(call)
      BY <2>1 DEF Blank, NamedCall
    <2>2. CASE GoesOn(call, s)
      BY <2>2, NamedRows DEF GoesOn, TypeInv, NamedInv
    <2> QED BY <2>1, <2>2
  <1> QED BY <1>1, NamedStep

LEMMA RecordsNamed ==
    ASSUME TypeInv, RowsKeep, \A r \in Recs : RowMoves(r), Records PROVE NamedInv'
  <1>1. CASE UNCHANGED <<page, outside>>
    BY <1>1 DEF TypeInv, NamedInv, NamedCall, Carrying, Exists, outside, shownVars
  <1>2. CASE Leave
    <2>1. ASSUME NEW s \in Slots PROVE NamedCall(calls[s])'
      <3>1. PICK call : call = calls'[s]
        OBVIOUS
      <3>2. Blank(call) \/ GoesOn(call, s)
        BY <1>2, <3>1, GoingOn DEF Leave, GoesOn
      <3>3. CASE Blank(call)
        BY <3>1, <3>3 DEF Blank, NamedCall, Carrying
      <3>4. CASE GoesOn(call, s)
        <4>1. NamedCall(call)'
          BY <3>4, NamedRows DEF GoesOn, TypeInv, NamedInv
        <4> QED BY <3>1, <4>1 DEF NamedCall, Carrying
      <3> QED BY <3>2, <3>3, <3>4
    <2>2. \A r \in Recs : list'[r] = "none"
      BY <1>2 DEF Leave, Nothing
    <2> QED BY <2>1, <2>2, NamedRows DEF NamedInv
  <1> QED BY <1>1, <1>2, RecordsFrame

LEMMA TransportsNamed ==
    ASSUME TypeInv, RowsKeep, \A r \in Recs : RowMoves(r), NEW s \in Slots, Transports(s)
    PROVE  NamedInv'
  <1>0. /\ list' = list /\ rows' = rows
        /\ \A op \in {"create", "put", "complete"} : Waits(s, op) => up.phase = op
        /\ up.phase \in {"create", "put", "complete"} /\ up.slot = s =>
             /\ calls[s].op = up.phase /\ calls[s].take = up.take
             /\ up.phase # "create" => calls[s].rec = up.rec
        /\ NamedCall(calls[s])
    <2>1. list' = list
      BY DEF Transports, Upload, TrimDone, CreateAnswered, PutAnswered, CompleteAnswered,
             UploadRefused, UploadLost, CancelUpload, unmoved, shownVars
    <2> QED BY <2>1, OtherRows DEF TypeInv, UpInv, NamedInv, Waits
  <1>1. CASE Upload(s) \/ TrimDone(s)
    BY <1>0, <1>1, BlankStep, BlankCalls DEF Upload, TrimDone, Begin
  <1>2. ASSUME NEW phase \in {"put", "complete"}, NEW r, Continues(s, phase, r),
               Exists(r), rows[r].take = up.take
        PROVE  NamedInv'
    <2>1. PICK call : call = CallOf(phase, up.take, r)
      OBVIOUS
    <2>2. /\ call.op = phase /\ call.rec = r /\ call.take = up.take
          /\ \A q \in Recs : call.view[q] = "none"
      BY <2>1 DEF CallOf, Nothing
    <2>3. NamedCall(call)'
      BY <1>0, <1>2, <2>2 DEF NamedCall, Exists
    <2>4. Send(s, call)
      BY <1>2, <2>1 DEF Continues
    <2> QED BY <1>0, <2>3, <2>4, NamedStep
  <1>3. CASE CreateAnswered(s)
    BY <1>0, <1>2, <1>3 DEF CreateAnswered, NamedCall, Carrying, Waits
  <1>4. CASE PutAnswered(s)
    BY <1>0, <1>2, <1>4 DEF PutAnswered, NamedCall, Carrying, Waits
  <1>5. CASE CompleteAnswered(s)
    BY <1>0, <1>5, BlankStep, BlankCalls DEF CompleteAnswered
  <1>6. CASE UploadRefused(s) \/ UploadLost(s) \/ CancelUpload(s)
    BY <1>0, <1>6, BlankStep, BlankCalls, GoingOn DEF UploadRefused, UploadLost, CancelUpload
  <1> QED BY <1>1, <1>3, <1>4, <1>5, <1>6 DEF Transports

LEMMA ListsNamed ==
    ASSUME TypeInv, RowsKeep, \A r \in Recs : RowMoves(r), NEW s \in Slots, Lists(s)
    PROVE  NamedInv'
  <1>0. rows' = rows /\ calls \in [Slots -> Calls]
    BY OtherRows DEF TypeInv, TypeOK
  <1>1. CASE Poll(s) \/ MutationAnswered(s)
    BY <1>1, BlankStep, BlankCalls DEF Poll, MutationAnswered, shownVars
  <1>2. CASE Retry(s) \/ Delete(s)
    <2>1. PICK op \in {"retry", "delete"}, r \in Recs : Mutates(s, op, r) /\ list[r] # "none"
      BY <1>2 DEF Retry, Delete
    <2>2. PICK call : call = CallOf(op, NoTake, r)
      OBVIOUS
    <2>3. ~Carrying(call) /\ call.rec = r /\ \A q \in Recs : call.view[q] = "none"
      BY <2>2 DEF Carrying, CallOf, Nothing
    <2>4. NamedCall(call)'
      BY <2>1, <2>3, NamedRows DEF NamedCall
    <2> QED BY <2>1, <2>2, <2>4, NamedStep DEF Mutates, shownVars
  <1>3. CASE ListAnswered(s)
    <2>1. ASSUME NEW x \in Slots PROVE NamedCall(calls[x])'
      <3>1. PICK call : call = calls'[x]
        OBVIOUS
      <3>2. Blank(call) \/ GoesOn(call, x)
        BY <1>0, <1>3, <3>1, GoingOn, BlankCalls DEF ListAnswered, Overtakes, GoesOn
      <3>3. CASE Blank(call)
        BY <3>1, <3>3 DEF Blank, NamedCall, Carrying
      <3>4. CASE GoesOn(call, x)
        <4>1. NamedCall(call)'
          BY <3>4, NamedRows DEF GoesOn, TypeInv, NamedInv
        <4> QED BY <3>1, <4>1 DEF NamedCall, Carrying
      <3> QED BY <3>2, <3>3, <3>4
    <2>2. \A r \in Recs : list'[r] # "none" => Exists(r)'
      BY <1>3, NamedRows DEF ListAnswered, TypeInv, NamedInv, NamedCall
    <2> QED BY <2>1, <2>2, NamedRows DEF NamedInv
  <1>4. CASE AttemptsCallFails(s)
    BY <1>4, BlankStep, BlankCalls, GoingOn DEF AttemptsCallFails
  <1> QED BY <1>1, <1>2, <1>3, <1>4 DEF Lists

LEMMA ServesNamed ==
    ASSUME TypeInv, RowsKeep, \A r \in Recs : RowMoves(r),
           (\E s \in Slots : Serves(s)) \/ \E r \in Recs : WorkerMoves(r)
    PROVE  NamedInv'
  <1>0. list' = list
    BY DEF Serves, WorkerMoves, CheckStagingCapacity, InsertRecording, KeepKey, PutObject,
           Complete, RetryRecording, DeleteRecording, ListRecordings, CallDies, OtherCreates,
           Refuses, kept, shownVars
  <1>1. ASSUME NEW r \in Recs, WorkerMoves(r) PROVE NamedInv'
    <2>1. calls' = calls
      BY <1>1 DEF WorkerMoves
    <2>2. ASSUME NEW s \in Slots PROVE NamedCall(calls[s])'
      <3>1. NamedCall(calls[s])
        BY DEF TypeInv, NamedInv
      <3> QED BY <2>1, <3>1, NamedRows DEF NamedCall, Carrying, RowsKeep, Exists
    <2> QED BY <1>0, <2>2, NamedRows DEF NamedInv
  <1>2. ASSUME NEW s \in Slots, Serves(s) PROVE NamedInv'
    <2>0. calls[s] \in Calls /\ NamedCall(calls[s])
      BY DEF TypeInv, TypeOK, NamedInv
    <2>1. ASSUME NEW step \in {"checked", "refused"}, Steps(s, step) PROVE NamedInv'
      BY <1>0, <2>1, BlankStep, GoingOn DEF Steps
    <2>2. ASSUME Steps(s, "ok"), Carrying(calls[s]) \/ calls[s].op # "create" PROVE NamedInv'
      BY <1>0, <2>2, BlankStep, GoingOn DEF Steps
    <2>3. CASE CheckStagingCapacity(s)
      BY <2>1, <2>3 DEF CheckStagingCapacity
    <2>4. CASE InsertRecording(s)
      <3>1. CASE Refuses(s)
        BY <2>1, <3>1 DEF Refuses
      <3>2. CASE ~Refuses(s)
        <4>1. PICK r \in Recs :
                /\ rows' = [rows EXCEPT ![r] = [status |-> "STAGING", key |-> "pending",
                                                object |-> FALSE, take |-> calls[s].take]]
                /\ Send(s, [calls[s] EXCEPT !.step = "inserted", !.rec = r])
          BY <2>4, <3>2 DEF InsertRecording, Send
        <4>2. PICK call : call = [calls[s] EXCEPT !.step = "inserted", !.rec = r]
          OBVIOUS
        <4>3. /\ call.rec = r /\ call.take = calls[s].take /\ call.op = "create"
              /\ call.view = calls[s].view
          BY <2>0, <2>4, <4>2 DEF Calls, InsertRecording
        <4>4. rows'[r].status = "STAGING" /\ rows'[r].take = calls[s].take
          BY <4>1 DEF TypeInv, TypeOK
        <4>5. NamedCall(call)'
          BY <2>0, <4>3, <4>4, NamedRows DEF NamedCall, Exists
        <4> QED BY <1>0, <4>1, <4>2, <4>5, NamedStep
      <3> QED BY <3>1, <3>2
    <2>5. CASE KeepKey(s)
      BY <2>2, <2>5 DEF KeepKey, Carrying
    <2>6. CASE PutObject(s) \/ Complete(s) \/ RetryRecording(s)
      BY <2>1, <2>2, <2>6 DEF PutObject, Complete, RetryRecording, Refuses
    <2>7. CASE DeleteRecording(s)
      BY <2>2, <2>7 DEF DeleteRecording
    <2>8. CASE ListRecordings(s)
      <3>1. PICK call : call = Answered([calls[s] EXCEPT !.view = Listing, !.order = 1 + Served],
                                        "ok")
        OBVIOUS
      <3>2. ~Carrying(call) /\ call.op \notin {"retry", "delete"}
            /\ (call.view = Listing \/ Blank(call))
        BY <2>0, <2>8, <3>1, BlankCalls DEF ListRecordings, Answered, Carrying, Calls, Idle, CallOf
      <3>3. \A r \in Recs : Listing[r] # "none" => Exists(r)
        BY DEF Listing, Exists
      <3>4. NamedCall(call)'
        BY <3>2, <3>3, NamedRows DEF NamedCall, Blank
      <3> QED BY <1>0, <2>8, <3>1, <3>4, NamedStep DEF ListRecordings
    <2>9. CASE CallDies(s)
      BY <2>1, <2>9 DEF CallDies, Refuses
    <2>10. CASE OtherCreates(s)
      BY <1>0, <2>10, BlankStep, BlankCalls DEF OtherCreates
    <2> QED BY <1>2, <2>3, <2>4, <2>5, <2>6, <2>7, <2>8, <2>9, <2>10 DEF Serves
  <1> QED BY <1>1, <1>2

\* TypeInv holds in every reachable state.
LEMMA TypeInvariant == Spec => []TypeInv
  <1>1. Init => TypeInv
    <2>1. Init => NamedInv
      BY DEF Init, NamedInv, NamedCall, Carrying, Exists, Idle, CallOf, Nothing, Listing, NoRow
    <2> QED BY <2>1, InitTypes, InitUp, PracticeAssumption DEF TypeInv
  <1>2. TypeInv /\ [Next]_vars => TypeInv'
    <2> SUFFICES ASSUME TypeInv, [Next]_vars PROVE TypeInv'
      BY PracticeAssumption
    <2>0. PracticeAssumption
      BY PracticeAssumption
    <2>1. CASE Next
      <3>1. TypeOK'
        BY <2>0, <2>1, RecordsTypes, TransportsTypes, ListsTypes, ServesTypes DEF Next
      <3>2. UpInv'
        BY <2>0, <2>1, RecordsUp, TransportsUp, ListsUp, ServesUp DEF Next
      <3>3. NamedInv'
        <4>1. RowsKeep /\ \A r \in Recs : RowMoves(r)
          BY <2>0, <2>1, NextRows
        <4>2. CASE TrimUpload \/ TrimFails
          BY <4>2 DEF TrimUpload, TrimFails, unmoved, shownVars, TypeInv, NamedInv, NamedCall,
                      Carrying, Exists
        <4> QED
          BY <2>1, <4>1, <4>2, RecordsNamed, TransportsNamed, ListsNamed, ServesNamed DEF Next
      <3> QED BY <3>1, <3>2, <3>3 DEF TypeInv
    <2>2. CASE UNCHANGED vars
      BY <2>2 DEF vars, media, shownVars, ghosts, TypeInv, TypeOK, UpInv, NamedInv, NamedCall,
                  Carrying, Exists
    <2> QED BY <2>1, <2>2
  <1> QED BY <1>1, <1>2, PTL DEF Spec

\* Every variable keeps its type, in every reachable state.
THEOREM PracticeTypeCorrect == Spec => []TypeOK
  <1>1. TypeInv => TypeOK
    BY DEF TypeInv
  <1> QED BY <1>1, TypeInvariant, PTL

-----------------------------------------------------------------------------
(* The camera, the MediaRecorder and the take under review.                *)

LEMMA MediaRecords ==
    ASSUME TypeInv, MediaInv, Records PROVE MediaInv'
  <1> USE DEF MediaInv, RecordingCanStop, outside
  <1>0. /\ recorder \in Recorders /\ page \in BOOLEAN /\ asking \in BOOLEAN
        /\ review \in [capture : Takes \cup {NoTake}, player : {"none", "plays", "broken"}]
    BY DEF TypeInv, TypeOK
  <1>1. /\ Reset(recorder).permission = "idle" /\ Reset(recorder).stream = "none"
        /\ ~Reset(recorder).recording
        /\ Reset(recorder).machine = "stopping" => recorder.machine = "stopping"
    BY <1>0 DEF Reset, Recorders
  <1>2. CASE RequestPermission
    BY <1>0, <1>2 DEF RequestPermission, Recorders
  <1>3. CASE PermissionGranted
    BY <1>0, <1>3 DEF PermissionGranted, Recorders
  <1>4. CASE PermissionRefused
    BY <1>0, <1>4 DEF PermissionRefused, Recorders
  <1>5. CASE Start
    BY <1>0, <1>5 DEF Start, Recorders
  <1>6. CASE Stop
    BY <1>0, <1>6 DEF Stop, Recorders
  <1>7. CASE StopFires
    <2>1. CASE page
      <3>1. recorder' = [recorder EXCEPT !.machine = "none", !.stream = "none",
                                         !.recording = FALSE, !.preview = "revoked"]
        BY <1>7, <2>1 DEF StopFires
      <3>2. /\ recorder'.machine = "none" /\ recorder'.stream = "none" /\ ~recorder'.recording
            /\ recorder'.permission = recorder.permission
        BY <1>0, <3>1 DEF Recorders
      <3>3. recorder.permission = "granted"
        BY <1>7, <2>1 DEF StopFires
      <3>4. up.phase \notin {"cut", "create", "put", "complete"}
        BY <1>7, <2>1, PracticeAssumption DEF StopFires, TypeInv, UpInv
      <3>5. page' = page /\ asking' = asking /\ up' = up
        BY <1>7 DEF StopFires
      <3> QED BY <2>1, <3>2, <3>3, <3>4, <3>5
    <2>2. CASE ~page
      BY <1>0, <1>7, <2>2 DEF StopFires, Recorders
    <2> QED BY <2>1, <2>2
  <1>8. CASE RecorderFails
    BY <1>0, <1>8 DEF RecorderFails, Recorders
  <1>9. CASE DeviceLost
    BY <1>0, <1>9 DEF DeviceLost, Recorders
  <1>10. CASE Discard
    <2>1. up.phase = "none"
      BY <1>10, NoneUnderWay DEF Discard
    <2> QED BY <1>1, <1>10, <2>1 DEF Discard, NoReview
  <1>11. CASE Leave
    BY <1>1, <1>11 DEF Leave, Released, NoReview
  <1> QED
    BY <1>2, <1>3, <1>4, <1>5, <1>6, <1>7, <1>8, <1>9, <1>10, <1>11 DEF Records

\* The take under review is the one uploaded until the upload ends, and ends
\* with it only when it succeeded.
LEMMA MediaTransports ==
    ASSUME TypeInv, MediaInv, TrimUpload \/ TrimFails \/ \E s \in Slots : Transports(s)
    PROVE  MediaInv'
  <1>0. /\ recorder \in Recorders /\ up \in Uploads /\ page \in BOOLEAN /\ asking \in BOOLEAN
        /\ review \in [capture : Takes \cup {NoTake}, player : {"none", "plays", "broken"}]
        /\ NoUpload.phase = "none" /\ NoReview.capture = NoTake
    BY DEF TypeInv, TypeOK, NoUpload, NoReview
  <1>1. ASSUME page' = page, asking' = asking, recorder' = recorder,
               review'.capture = review.capture,
               up'.phase \in {"cut", "create", "put", "complete"} => up'.take = up.take \/ up'.take = review.capture,
               page /\ up'.phase \in {"cut", "create", "put", "complete"} =>
                 up'.take = review.capture
        PROVE  MediaInv'
    BY <1>1 DEF MediaInv, RecordingCanStop
  <1>2. PanelReturns => review'.capture = review.capture
    BY <1>0 DEF PanelReturns
  <1>3. CASE TrimUpload
    BY <1>0, <1>1, <1>3 DEF TrimUpload, NoUpload
  <1>4. CASE TrimFails
    BY <1>0, <1>1, <1>2, <1>4 DEF TrimFails, unmoved
  <1>5. ASSUME NEW s \in Slots, Transports(s) PROVE MediaInv'
    <2>1. CASE Upload(s)
      BY <1>0, <1>1, <2>1 DEF Upload, Begin
    <2>2. CASE TrimDone(s)
      BY <1>0, <1>1, <2>2 DEF TrimDone, Begin, media, MediaInv
    <2>3. ASSUME NEW op \in {"create", "put", "complete"}, Waits(s, op)
          PROVE  up.phase = op
      BY <2>3 DEF TypeInv, UpInv, Waits
    <2>4. CASE CreateAnswered(s) \/ PutAnswered(s)
      BY <1>0, <1>1, <2>3, <2>4
         DEF CreateAnswered, PutAnswered, Continues, unmoved, MediaInv, Uploads
    <2>5. CASE CompleteAnswered(s)
      <3>1. /\ page' = page /\ asking' = asking /\ review' = NoReview
            /\ up'.phase \in {"none", "reload"}
            /\ recorder' = IF page THEN Reset(recorder) ELSE recorder
        BY <1>0, <2>5 DEF CompleteAnswered, Uploads
      <3>2. /\ Reset(recorder).permission = "idle" /\ Reset(recorder).stream = "none"
            /\ ~Reset(recorder).recording
            /\ Reset(recorder).machine = "stopping" => recorder.machine = "stopping"
        BY <1>0 DEF Reset, Recorders
      <3>3. up.phase = "complete" /\ up.take \in Takes
        BY <2>3, <2>5 DEF CompleteAnswered, TypeInv, UpInv
      <3>4. page => review.capture # NoTake /\ recorder.machine = "none" /\ ~asking
        BY <3>3, <1>0, PracticeAssumption DEF MediaInv
      <3> QED BY <1>0, <3>1, <3>2, <3>4 DEF MediaInv, RecordingCanStop
    <2>6. CASE UploadRefused(s) \/ UploadLost(s) \/ CancelUpload(s)
      BY <1>0, <1>1, <1>2, <2>6 DEF UploadRefused, UploadLost, CancelUpload, unmoved
    <2> QED BY <1>5, <2>1, <2>2, <2>4, <2>5, <2>6 DEF Transports
  <1> QED BY <1>3, <1>4, <1>5

LEMMA MediaInvariant == Spec => []MediaInv
  <1>1. Init => MediaInv
    BY DEF Init, MediaInv, RecordingCanStop, FreshRecorder, NoReview, NoUpload
  <1>2. TypeInv /\ MediaInv /\ [Next]_vars => MediaInv'
    <2> SUFFICES ASSUME TypeInv, MediaInv, [Next]_vars PROVE MediaInv'
      OBVIOUS
    <2>1. ASSUME page' = page, media' = media,
                 up' = up \/ up' = NoUpload
          PROVE  MediaInv'
      BY <2>1 DEF media, MediaInv, RecordingCanStop, NoUpload
    <2>2. ASSUME NEW s \in Slots, Lists(s) PROVE MediaInv'
      BY <2>1, <2>2 DEF Lists, Poll, Retry, Delete, Mutates, MutationAnswered, ListAnswered,
                        AttemptsCallFails, ReloadEnds, aside
    <2>3. ASSUME (\E s \in Slots : Serves(s)) \/ \E r \in Recs : WorkerMoves(r)
          PROVE  MediaInv'
      BY <2>1, <2>3
         DEF Serves, WorkerMoves, CheckStagingCapacity, InsertRecording, KeepKey, PutObject,
             Complete, RetryRecording, DeleteRecording, ListRecordings, CallDies, OtherCreates,
             Refuses, kept
    <2>4. CASE UNCHANGED vars
      BY <2>1, <2>4 DEF vars
    <2> QED BY <2>2, <2>3, <2>4, MediaRecords, MediaTransports DEF Next
  <1> QED BY <1>1, <1>2, TypeInvariant, PTL DEF Spec

\* The camera runs only on the open page, once allowed and before there is a
\* take, in every reachable state.
THEOREM CameraIsForRecording == Spec => []CameraOnlyToRecord
  <1>1. MediaInv => CameraOnlyToRecord
    BY DEF MediaInv, CameraOnlyToRecord
  <1> QED BY <1>1, MediaInvariant, PTL

\* A page that says it records can be stopped, unless the device was lost.
THEOREM RecordingEnds == Spec => []RecordingCanStop
  <1>1. MediaInv => RecordingCanStop
    BY DEF MediaInv
  <1> QED BY <1>1, MediaInvariant, PTL

-----------------------------------------------------------------------------
(* Carried recordings, and aborted ones.                                   *)

\* Recordings get past staging by a completion, and never leave it again.
LEMMA PastStays ==
    ASSUME TypeInv, \A r \in Recs : RowMoves(r)
    PROVE  /\ Past \subseteq Past'
           /\ \A r \in Recs : r \notin Transferred /\ r \in Transferred' =>
                rows[r].status = "STAGING" /\ rows'[r].status = "QUEUED"
  <1>1. \A r \in Recs : rows[r].status \in Statuses /\ RowMoves(r)
    BY DEF TypeInv, TypeOK, Rows
  <1> QED BY <1>1 DEF Past, Transferred, RowMoves, Statuses

LEMMA OnlyCompletion ==
    ASSUME TypeInv, NEW r \in Recs, r \notin Transferred, r \in Transferred',
           NEW s \in Slots, Serves(s)
    PROVE  Complete(s) /\ r = calls[s].rec /\ Steps(s, "ok") /\ rows' # rows
  <1>0. rows \in [Recs -> Rows] /\ calls \in [Slots -> Calls]
    BY DEF TypeInv, TypeOK
  <1>1. rows[r].status \in {"none", "STAGING", "DELETE_PENDING", "DELETED"}
        /\ rows'[r].status \notin {"none", "STAGING", "DELETE_PENDING", "DELETED"}
        /\ rows'[r] # rows[r]
    BY <1>0 DEF Transferred, Past
  <1>2. ~CheckStagingCapacity(s) /\ ~ListRecordings(s) /\ ~CallDies(s) /\ ~OtherCreates(s)
        /\ ~Refuses(s)
    BY <1>1 DEF CheckStagingCapacity, ListRecordings, CallDies, OtherCreates, Refuses
  <1>3. ~InsertRecording(s)
    <2>1. SUFFICES ASSUME InsertRecording(s) PROVE FALSE
      OBVIOUS
    <2>2. PICK q \in Recs :
            rows' = [rows EXCEPT ![q] = [status |-> "STAGING", key |-> "pending",
                                         object |-> FALSE, take |-> calls[s].take]]
      BY <1>2, <2>1 DEF InsertRecording
    <2> QED BY <1>0, <1>1, <2>2
  <1>4. ~KeepKey(s) /\ ~PutObject(s)
    BY <1>0, <1>1, <1>2 DEF KeepKey, PutObject, Rows
  <1>5. ~RetryRecording(s) /\ ~DeleteRecording(s)
    BY <1>0, <1>1, <1>2 DEF RetryRecording, DeleteRecording, Rows
  <1>6. Complete(s)
    BY <1>2, <1>3, <1>4, <1>5 DEF Serves
  <1>7. r = calls[s].rec
    BY <1>0, <1>1, <1>2, <1>6 DEF Complete
  <1> QED BY <1>1, <1>2, <1>6, <1>7 DEF Complete

LEMMA InitCarry == Init => CarryInv
  BY DEF Init, CarryInv, Carrying, Idle, CallOf

\* A carrying call goes on carrying what it carried, towards completion.
Onward(call, s) ==
    Carrying(call) =>
      /\ Carrying(calls[s]) /\ call.rec = calls[s].rec
      /\ call.op = "complete" /\ call.step = "ok" =>
           calls[s].op = "complete" /\ calls[s].step = "ok"
      /\ call.op # "complete" => calls[s].op # "complete"
      /\ calls[s].rec \in aborted => call.op = "put" /\ ~call.heard

LEMMA OnwardCalls ==
    ASSUME TypeInv, CarryInv, NEW s \in Slots
    PROVE  /\ Onward(calls[s], s) /\ Onward(Unheard(calls[s]), s) /\ Onward(Idle, s)
           /\ \A take, rec : Onward(CallOf("list", take, rec), s)
           /\ \A take, rec : Onward(CallOf("create", take, rec), s)
           /\ \A op \in {"retry", "delete"} : \A take, rec : Onward(CallOf(op, take, rec), s)
           /\ Onward([CallOf("create", NoTake, NoRec) EXCEPT !.heard = FALSE], s)
           /\ Onward([calls[s] EXCEPT !.step = "checked"], s)
           /\ Onward(Answered(calls[s], "refused"), s)
           /\ calls[s].op # "complete" /\ (Carrying(calls[s]) \/ calls[s].op # "create") =>
                Onward(Answered(calls[s], "ok"), s)
           /\ \A n \in Nat : Onward([calls[s] EXCEPT !.order = n], s)
           /\ \A view, n : ~Carrying(calls[s]) /\ calls[s].op # "create" =>
                Onward(Answered([calls[s] EXCEPT !.view = view, !.order = n], "ok"), s)
  <1>1. calls[s] \in Calls
    BY DEF TypeInv, TypeOK
  <1>2. Carrying(calls[s]) /\ calls[s].rec \in aborted => calls[s].op = "put" /\ ~calls[s].heard
    BY DEF CarryInv
  <1> QED BY <1>1, <1>2 DEF Onward, Carrying, Calls, Unheard, Answered, Idle, CallOf

\* Steps that complete nothing.
LEMMA CarryOn ==
    ASSUME TypeInv, CarryInv, \A r \in Recs : RowMoves(r), RowsKeep,
           Transferred' \subseteq Transferred, aborted' = aborted,
           \A s \in Slots : Onward(calls'[s], s)
    PROVE  CarryInv'
  <1>1. \A s, x \in Slots :
          (Carrying(calls[s]) /\ Carrying(calls[x]) /\ calls[s].rec = calls[x].rec)' => s = x
    BY DEF CarryInv, Onward, Carrying
  <1>2. ASSUME NEW s \in Slots, Carrying(calls'[s])
        PROVE  /\ (IF calls[s].op = "complete" /\ calls[s].step = "ok" THEN calls[s].rec \in Past
                   ELSE calls[s].op # "complete" => calls[s].rec \notin Transferred)'
               /\ calls'[s].rec \in aborted => calls'[s].op = "put" /\ ~calls'[s].heard
    <2>1. /\ Carrying(calls[s]) /\ calls'[s].rec = calls[s].rec
          /\ calls'[s].op = "complete" /\ calls'[s].step = "ok" =>
               calls[s].op = "complete" /\ calls[s].step = "ok"
          /\ calls'[s].op # "complete" => calls[s].op # "complete"
          /\ calls[s].rec \in aborted => calls'[s].op = "put" /\ ~calls'[s].heard
      BY <1>2 DEF Onward
    <2>2. IF calls[s].op = "complete" /\ calls[s].step = "ok" THEN calls[s].rec \in Past
          ELSE calls[s].op # "complete" => calls[s].rec \notin Transferred
      BY <2>1 DEF CarryInv
    <2> QED BY <2>1, <2>2, PastStays
  <1>3. \A r \in aborted : Exists(r)' /\ r \notin Transferred'
    <2>1. \A r : Exists(r) => Exists(r)'
      BY DEF RowsKeep, Exists
    <2> QED BY <2>1 DEF CarryInv
  <1> QED BY <1>1, <1>2, <1>3 DEF CarryInv, Carrying

\* The same, for steps that change one call.
LEMMA CarryStep ==
    ASSUME TypeInv, CarryInv, \A r \in Recs : RowMoves(r), RowsKeep,
           Transferred' \subseteq Transferred, aborted' = aborted,
           NEW s \in Slots, NEW call, Send(s, call), Onward(call, s)
    PROVE  CarryInv'
  <1>1. \A x \in Slots : calls'[x] = IF x = s THEN call ELSE calls[x]
    BY DEF TypeInv, TypeOK, Send
  <1>2. \A x \in Slots : Onward(calls'[x], x)
    BY <1>1, OnwardCalls
  <1> QED BY <1>2, CarryOn

LEMMA CarryTransports ==
    ASSUME TypeInv, CarryInv, \A r \in Recs : RowMoves(r), RowsKeep,
           NEW s \in Slots, Transports(s)
    PROVE  CarryInv'
  <1>0. /\ rows' = rows /\ Transferred' = Transferred /\ calls[s] \in Calls
        /\ \A op \in {"create", "put", "complete"} : Waits(s, op) => up.phase = op
        /\ up.phase \in {"create", "put", "complete"} /\ up.slot = s =>
             /\ calls[s].op = up.phase /\ calls[s].heard
             /\ up.phase # "create" => calls[s].rec = up.rec
    BY OtherRows DEF TypeInv, TypeOK, UpInv, Waits, Transferred, Past
  <1>1. CASE Upload(s) \/ TrimDone(s)
    BY <1>0, <1>1, CarryStep, OnwardCalls DEF Upload, TrimDone, Begin, media, ghosts
  <1>2. ASSUME NEW phase \in {"put", "complete"}, Continues(s, phase, calls[s].rec),
               calls[s].op \in {"create", "put"}, Carrying(calls[s]), calls[s].heard,
               aborted' = aborted
        PROVE  CarryInv'
    <2>1. PICK call : call = CallOf(phase, up.take, calls[s].rec)
      OBVIOUS
    <2>2. call.op = phase /\ call.rec = calls[s].rec /\ call.heard /\ call.step = "sent"
      BY <2>1 DEF CallOf
    <2>3. calls[s].rec \notin aborted
      BY <1>2 DEF CarryInv
    <2>4. Onward(call, s)
      BY <1>2, <2>2, <2>3 DEF Onward
    <2>5. Send(s, call)
      BY <1>2, <2>1 DEF Continues
    <2> QED BY <1>0, <1>2, <2>4, <2>5, CarryStep
  <1>3. CASE CreateAnswered(s)
    BY <1>0, <1>2, <1>3 DEF CreateAnswered, Waits, Carrying, ghosts
  <1>4. CASE PutAnswered(s)
    BY <1>0, <1>2, <1>4 DEF PutAnswered, Waits, Carrying, ghosts
  <1>5. CASE CompleteAnswered(s)
    BY <1>0, <1>5, CarryStep, OnwardCalls DEF CompleteAnswered, ghosts
  <1>6. CASE UploadRefused(s) \/ UploadLost(s)
    BY <1>0, <1>6, CarryStep, OnwardCalls DEF UploadRefused, UploadLost, ghosts
  <1>7. CASE CancelUpload(s)
    <2>1. /\ calls[s].op = "put" /\ calls[s].heard /\ calls[s].rec = up.rec /\ Carrying(calls[s])
          /\ calls[s].step = "sent"
      BY <1>0, <1>7 DEF CancelUpload, Carrying
    <2>2. PICK call : Send(s, call) /\ (call = Idle \/ call = Unheard(calls[s]))
      BY <1>7 DEF CancelUpload
    <2>3. ~Carrying(call) \/ (call.op = "put" /\ ~call.heard /\ call.rec = calls[s].rec)
      BY <1>0, <2>1, <2>2 DEF Idle, CallOf, Unheard, Carrying, Calls
    <2>4. \A x \in Slots : calls'[x] = IF x = s THEN call ELSE calls[x]
      BY <2>2 DEF TypeInv, TypeOK, Send
    <2>5. aborted' = aborted \cup {calls[s].rec}
      BY <1>7, <2>1 DEF CancelUpload
    <2>6. Exists(calls[s].rec) /\ calls[s].rec \notin Transferred
      BY <2>1 DEF TypeInv, NamedInv, NamedCall, CarryInv
    <2>7. \A r : Exists(r) => Exists(r)'
      BY <1>0 DEF Exists
    <2>8. \A x, y \in Slots :
            (Carrying(calls[x]) /\ Carrying(calls[y]) /\ calls[x].rec = calls[y].rec)' => x = y
      BY <2>1, <2>3, <2>4 DEF CarryInv, Carrying
    <2>9. ASSUME NEW x \in Slots, Carrying(calls'[x])
          PROVE  /\ (IF calls[x].op = "complete" /\ calls[x].step = "ok"
                     THEN calls[x].rec \in Past
                     ELSE calls[x].op # "complete" => calls[x].rec \notin Transferred)'
                 /\ calls'[x].rec \in aborted' => calls'[x].op = "put" /\ ~calls'[x].heard
      <3>1. CASE x = s
        BY <1>0, <2>3, <2>4, <2>6, <2>9, <3>1
      <3>2. CASE x # s
        <4>1. calls'[x] = calls[x] /\ calls[x].rec # calls[s].rec
          BY <2>1, <2>4, <2>9, <3>2 DEF CarryInv
        <4>2. Past' = Past
          BY <1>0 DEF Past
        <4> QED BY <1>0, <2>5, <2>9, <4>1, <4>2 DEF CarryInv
      <3> QED BY <3>1, <3>2
    <2>10. \A r \in aborted' : Exists(r)' /\ r \notin Transferred'
      BY <1>0, <2>5, <2>6, <2>7 DEF CarryInv
    <2> QED BY <2>8, <2>9, <2>10 DEF CarryInv, Carrying
  <1> QED BY <1>1, <1>3, <1>4, <1>5, <1>6, <1>7 DEF Transports

LEMMA CarryLists ==
    ASSUME TypeInv, CarryInv, \A r \in Recs : RowMoves(r), RowsKeep, NEW s \in Slots, Lists(s)
    PROVE  CarryInv'
  <1>0. rows' = rows /\ Transferred' = Transferred /\ aborted' = aborted
    BY OtherRows
       DEF Transferred, Past, Lists, Poll, Retry, Delete, Mutates, MutationAnswered,
           ListAnswered, AttemptsCallFails, aside, ghosts
  <1>1. CASE Poll(s) \/ MutationAnswered(s)
    BY <1>0, <1>1, CarryStep, OnwardCalls DEF Poll, MutationAnswered
  <1>2. CASE Retry(s) \/ Delete(s)
    <2>1. PICK op \in {"retry", "delete"}, r \in Recs : Mutates(s, op, r)
      BY <1>2 DEF Retry, Delete
    <2> QED BY <1>0, <2>1, CarryStep, OnwardCalls DEF Mutates
  <1>3. CASE ListAnswered(s)
    <2>1. \A x \in Slots : Onward(calls'[x], x)
      BY <1>3, OnwardCalls DEF ListAnswered, Overtakes
    <2> QED BY <1>0, <2>1, CarryOn
  <1>4. CASE AttemptsCallFails(s)
    BY <1>0, <1>4, CarryStep, OnwardCalls DEF AttemptsCallFails
  <1> QED BY <1>1, <1>2, <1>3, <1>4 DEF Lists

LEMMA CarryServes ==
    ASSUME TypeInv, CarryInv, \A r \in Recs : RowMoves(r), RowsKeep, NEW s \in Slots, Serves(s)
    PROVE  CarryInv'
  <1>0. /\ aborted' = aborted /\ calls[s] \in Calls
        /\ calls \in [Slots -> Calls] /\ rows \in [Recs -> Rows]
        /\ Transferred' \subseteq Recs
    BY DEF TypeInv, TypeOK, Serves, CheckStagingCapacity, InsertRecording, KeepKey, PutObject,
           Complete, RetryRecording, DeleteRecording, ListRecordings, CallDies, OtherCreates,
           Refuses, kept, ghosts, Transferred, Past
  <1>1. CASE InsertRecording(s) /\ ~Refuses(s)
    <2>1. PICK r \in Recs :
            /\ rows[r].status = "none"
            /\ rows' = [rows EXCEPT ![r] = [status |-> "STAGING", key |-> "pending",
                                            object |-> FALSE, take |-> calls[s].take]]
            /\ Send(s, [calls[s] EXCEPT !.step = "inserted", !.rec = r])
      BY <1>1 DEF InsertRecording, Send
    <2>2. calls'[s].rec = r /\ calls'[s].op = "create" /\ calls'[s].step = "inserted"
      BY <1>0, <1>1, <2>1 DEF InsertRecording, Send, Calls
    <2>3. \A x \in Slots : x # s => calls'[x] = calls[x]
      BY <1>0, <2>1 DEF Send
    <2>4. \A x \in Slots : Carrying(calls[x]) => calls[x].rec # r
      BY <2>1 DEF TypeInv, NamedInv, NamedCall, Exists
    <2>5. r \notin aborted /\ r \notin Transferred'
      BY <1>0, <2>1 DEF CarryInv, Exists, Transferred, Past
    <2>6. Transferred' \subseteq Transferred
      <3>1. rows'[r].status = "STAGING" /\ rows[r].status = "none"
        BY <1>0, <2>1
      <3>2. ASSUME NEW q \in Transferred', q # r PROVE q \in Transferred
        BY <1>0, <2>1, <3>2 DEF Transferred, Past
      <3> QED BY <2>5, <3>2
    <2>7. \A x, y \in Slots :
            (Carrying(calls[x]) /\ Carrying(calls[y]) /\ calls[x].rec = calls[y].rec)' => x = y
      BY <2>2, <2>3, <2>4 DEF CarryInv, Carrying
    <2>8. ASSUME NEW x \in Slots, Carrying(calls'[x])
          PROVE  /\ (IF calls[x].op = "complete" /\ calls[x].step = "ok"
                     THEN calls[x].rec \in Past
                     ELSE calls[x].op # "complete" => calls[x].rec \notin Transferred)'
                 /\ calls'[x].rec \in aborted' => calls'[x].op = "put" /\ ~calls'[x].heard
      <3>1. CASE x = s
        BY <1>0, <2>2, <2>5, <3>1
      <3>2. CASE x # s
        BY <1>0, <2>3, <2>6, <2>8, <3>2, PastStays DEF CarryInv
      <3> QED BY <3>1, <3>2
    <2>9. \A q \in aborted' : Exists(q)' /\ q \notin Transferred'
      BY <1>0, <2>6 DEF CarryInv, RowsKeep, Exists
    <2> QED BY <2>7, <2>8, <2>9 DEF CarryInv, Carrying
  <1>2. CASE Complete(s) /\ ~Refuses(s)
    <2> DEFINE r == calls[s].rec
    <2>2. calls[s].op = "complete" /\ Carrying(calls[s]) /\ Steps(s, "ok")
      BY <1>2 DEF Complete, Carrying
    <2>1. r \in Past'
      <3>1. r \in Recs
        BY <2>2 DEF TypeInv, NamedInv, NamedCall, Exists
      <3>2. rows'[r].status \in {"QUEUED", "READY", "FAILED"}
        BY <1>0, <1>2, <3>1 DEF Complete, Rows
      <3> QED BY <3>1, <3>2 DEF Past
    <2>3. \A q \in Recs : q \in Transferred' => q \in Transferred \/ q = r
      BY OnlyCompletion
    <2> HIDE DEF r
    <2>4. PICK call : Send(s, call) /\ call = Answered(calls[s], "ok")
      BY <2>2 DEF Steps
    <2>11. r = calls[s].rec
      BY DEF r
    <2>5. Carrying(call) => call.rec = r /\ call.op = "complete" /\ call.step = "ok"
      BY <1>0, <2>2, <2>4, <2>11 DEF Answered, Carrying, Idle, CallOf, Calls
    <2>6. \A x \in Slots : calls'[x] = IF x = s THEN call ELSE calls[x]
      BY <1>0, <2>4 DEF Send
    <2>7. r \notin aborted
      BY <2>2, <2>11 DEF CarryInv
    <2>8. \A x, y \in Slots :
            (Carrying(calls[x]) /\ Carrying(calls[y]) /\ calls[x].rec = calls[y].rec)' => x = y
      BY <2>2, <2>5, <2>6, <2>11 DEF CarryInv, Carrying
    <2>9. ASSUME NEW x \in Slots, Carrying(calls'[x])
          PROVE  /\ (IF calls[x].op = "complete" /\ calls[x].step = "ok"
                     THEN calls[x].rec \in Past
                     ELSE calls[x].op # "complete" => calls[x].rec \notin Transferred)'
                 /\ calls'[x].rec \in aborted' => calls'[x].op = "put" /\ ~calls'[x].heard
      <3>1. CASE x = s
        BY <1>0, <2>1, <2>5, <2>6, <2>7, <2>9, <3>1
      <3>2. CASE x # s
        <4>1. calls'[x] = calls[x] /\ calls[x].rec # r
          BY <2>2, <2>6, <2>9, <2>11, <3>2 DEF CarryInv
        <4> QED BY <1>0, <2>3, <2>9, <4>1, PastStays DEF CarryInv
      <3> QED BY <3>1, <3>2
    <2>10. \A q \in aborted' : Exists(q)' /\ q \notin Transferred'
      BY <1>0, <2>3, <2>7 DEF CarryInv, RowsKeep, Exists
    <2> QED BY <2>8, <2>9, <2>10 DEF CarryInv, Carrying
  <1>3. CASE Refuses(s) \/ (~InsertRecording(s) /\ ~Complete(s))
    <2>1. Transferred' \subseteq Transferred
      <3>1. CASE Refuses(s)
        BY <3>1 DEF Refuses, Transferred, Past
      <3>2. CASE ~Refuses(s)
        BY <1>0, <1>3, <3>2, OnlyCompletion
      <3> QED BY <3>1, <3>2
    <2>2. ASSUME NEW call, Send(s, call), Onward(call, s) PROVE CarryInv'
      BY <1>0, <2>1, <2>2, CarryStep
    <2>3. ASSUME NEW step \in {"checked", "refused"}, Steps(s, step) PROVE CarryInv'
      BY <2>2, <2>3, OnwardCalls DEF Steps
    <2>4. ASSUME Steps(s, "ok"), calls[s].op # "complete",
                 Carrying(calls[s]) \/ calls[s].op # "create"
          PROVE  CarryInv'
      BY <2>2, <2>4, OnwardCalls DEF Steps
    <2>5. CASE CheckStagingCapacity(s) \/ Refuses(s) \/ CallDies(s)
      BY <2>3, <2>5 DEF CheckStagingCapacity, Refuses, CallDies
    <2>6. CASE KeepKey(s) \/ PutObject(s) \/ RetryRecording(s) \/ DeleteRecording(s)
      BY <2>3, <2>4, <2>6 DEF KeepKey, PutObject, RetryRecording, DeleteRecording, Refuses, Carrying
    <2>7. CASE ListRecordings(s)
      BY <2>2, <2>7, OnwardCalls DEF ListRecordings, Carrying
    <2>8. CASE OtherCreates(s)
      BY <2>2, <2>8, OnwardCalls DEF OtherCreates
    <2> QED BY <1>3, <2>5, <2>6, <2>7, <2>8 DEF Serves
  <1> QED BY <1>1, <1>2, <1>3

LEMMA CarryInvariant == Spec => []CarryInv
  <1>1. TypeInv /\ CarryInv /\ [Next]_vars => CarryInv'
    <2> SUFFICES ASSUME TypeInv, CarryInv, [Next]_vars PROVE CarryInv'
      OBVIOUS
    <2>1. ASSUME rows' = rows, calls' = calls, aborted' = aborted PROVE CarryInv'
      BY <2>1 DEF CarryInv, Carrying, Exists, Past, Transferred
    <2>2. CASE Next
      <3>1. RowsKeep /\ \A r \in Recs : RowMoves(r)
        BY <2>2, NextRows, PracticeAssumption
      <3>2. CASE Records
        <4>1. CASE UNCHANGED <<page, outside>>
          BY <2>1, <4>1 DEF outside, ghosts
        <4>2. CASE Leave
          <5>1. \A s \in Slots : Onward(calls'[s], s)
            BY <4>2, OnwardCalls DEF Leave
          <5>2. Transferred' \subseteq Transferred /\ aborted' = aborted
            BY <4>2 DEF Leave, Transferred, Past, ghosts
          <5> QED BY <3>1, <5>1, <5>2, CarryOn
        <4> QED BY <3>2, <4>1, <4>2, RecordsFrame
      <3>3. CASE TrimUpload \/ TrimFails
        BY <2>1, <3>3 DEF TrimUpload, TrimFails, unmoved, ghosts
      <3>4. ASSUME NEW r \in Recs, WorkerMoves(r) PROVE CarryInv'
        <4>1. \A q \in Recs : q \in Transferred' => q \in Transferred
          <5>1. ASSUME NEW q \in Recs, q \in Transferred', q \notin Transferred PROVE FALSE
            <6>1. rows[q].status = "STAGING" /\ rows'[q].status = "QUEUED"
              BY <3>1, <5>1, PastStays
            <6>2. q # r
              BY <3>4, <6>1 DEF WorkerMoves, TypeInv, TypeOK, Rows
            <6>3. rows'[q] = rows[q]
              BY <3>4, <6>2 DEF WorkerMoves, TypeInv, TypeOK
            <6> QED BY <6>1, <6>3
          <5> QED BY <5>1
        <4>2. calls' = calls /\ aborted' = aborted /\ Transferred' \subseteq Recs
          BY <3>4 DEF WorkerMoves, kept, ghosts, Transferred, Past
        <4>3. \A s \in Slots : Onward(calls'[s], s)
          BY <4>2, OnwardCalls
        <4> QED BY <3>1, <4>1, <4>2, <4>3, CarryOn
      <3> QED
        BY <2>2, <3>1, <3>2, <3>3, <3>4, CarryTransports, CarryLists, CarryServes DEF Next
    <2>3. CASE UNCHANGED vars
      BY <2>1, <2>3 DEF vars, ghosts
    <2> QED BY <2>2, <2>3
  <1> QED BY <1>1, InitCarry, TypeInvariant, PTL DEF Spec

\* A recording whose PUT was cancelled in flight is never completed, in every
\* reachable state: no call carries it on.
THEOREM AbortedStaysOut == Spec => []AbortedIsNeverQueued
  <1>1. CarryInv => AbortedIsNeverQueued
    BY DEF CarryInv, AbortedIsNeverQueued
  <1> QED BY <1>1, CarryInvariant, PTL

-----------------------------------------------------------------------------
(* The staging capacity.                                                   *)

LEMMA OneMore ==
    ASSUME NEW S, NEW T, NEW x, IsFiniteSet(S), T \subseteq S \cup {x}
    PROVE  IsFiniteSet(T) /\ Cardinality(T) \in Nat /\ Cardinality(T) <= Cardinality(S) + 1
  <1>3. Cardinality(S) \in Nat
    BY FS_CardinalityType
  <1>1. IsFiniteSet(S \cup {x}) /\ Cardinality(S \cup {x}) <= Cardinality(S) + 1
    BY <1>3, FS_AddElement
  <1>2. IsFiniteSet(T) /\ Cardinality(T) <= Cardinality(S \cup {x})
    BY <1>1, FS_Subset
  <1>4. Cardinality(T) \in Nat /\ Cardinality(S \cup {x}) \in Nat
    BY <1>1, <1>2, FS_CardinalityType
  <1> QED BY <1>1, <1>2, <1>3, <1>4

LEMMA StagedFinite ==
    ASSUME TypeInv
    PROVE  /\ IsFiniteSet(Staged) /\ IsFiniteSet(LetIn)
           /\ ActiveStaging \in Nat /\ Cardinality(LetIn) \in Nat
           /\ Capacity \in Nat /\ Cardinality(Slots) \in Nat /\ Cardinality(Slots) >= 1
           /\ Cardinality(LetIn) <= Cardinality(Slots)
           /\ \A s \in Slots : s \notin LetIn => Cardinality(LetIn) + 1 <= Cardinality(Slots)
  <1>1. Staged \in SUBSET Recs /\ LetIn \in SUBSET Slots
    BY DEF Staged, LetIn
  <1>2. IsFiniteSet(Staged) /\ IsFiniteSet(LetIn) /\ Cardinality(LetIn) <= Cardinality(Slots)
    BY <1>1, FS_Subset, PracticeAssumption
  <1>3. /\ ActiveStaging \in Nat /\ Cardinality(LetIn) \in Nat /\ Cardinality(Slots) \in Nat
        /\ Cardinality(Slots) # 0 /\ Capacity \in Nat
    BY <1>2, FS_CardinalityType, FS_EmptySet, PracticeAssumption DEF ActiveStaging
  <1>4. ASSUME NEW s \in Slots, s \notin LetIn
        PROVE  Cardinality(LetIn) + 1 <= Cardinality(Slots)
    <2>1. LetIn \cup {s} \in SUBSET Slots
      BY <1>1
    <2>2. Cardinality(LetIn \cup {s}) <= Cardinality(Slots)
      BY <2>1, FS_Subset, PracticeAssumption
    <2> QED BY <1>2, <1>4, <2>2, FS_AddElement
  <1> QED BY <1>2, <1>3, <1>4

\* Nothing is let in and nothing staged but by the three cases.
LEMMA StagedShrinks ==
    ASSUME TypeInv, TypeInv', StagingOvershootIsBounded,
           Staged' \subseteq Staged, LetIn' \subseteq LetIn
    PROVE  StagingOvershootIsBounded'
  <1>1. ActiveStaging' <= ActiveStaging /\ Cardinality(LetIn)' <= Cardinality(LetIn)
    BY StagedFinite, FS_Subset DEF ActiveStaging
  <1>2. /\ ActiveStaging \in Nat /\ Cardinality(LetIn) \in Nat
        /\ ActiveStaging' \in Nat /\ Cardinality(LetIn)' \in Nat
        /\ Capacity \in Nat /\ Cardinality(Slots) \in Nat
    BY StagedFinite, FS_Subset, FS_CardinalityType DEF ActiveStaging
  <1> QED BY <1>1, <1>2 DEF StagingOvershootIsBounded

\* Only an insertion stages a row.
LEMMA StagedSteps ==
    ASSUME TypeInv, \A r \in Recs : RowMoves(r)
    PROVE  \A r \in Recs : r \in Staged' => r \in Staged \/ rows[r].status = "none"
  <1>1. \A r \in Recs : /\ rows[r].status \in Statuses /\ RowMoves(r)
                        /\ rows[r].status \in {"none", "DELETED"} \/ rows[r].key # "none"
    BY DEF TypeInv, TypeOK, NamedInv, Rows
  <1> QED BY <1>1 DEF Staged, RowMoves, Statuses

LEMMA OnlyInsertion ==
    ASSUME TypeInv, Next, \A s \in Slots : ~(InsertRecording(s) /\ ~Refuses(s))
    PROVE  \A r \in Recs : rows[r].status = "none" => rows'[r].status = "none"
  <1>0. rows \in [Recs -> Rows] /\ \A s \in Slots : NamedCall(calls[s])
    BY DEF TypeInv, TypeOK, NamedInv
  <1>1. ASSUME rows' = rows PROVE \A r \in Recs : rows[r].status = "none" => rows'[r].status = "none"
    BY <1>1
  <1>2. ASSUME NEW r \in Recs, WorkerMoves(r), NEW q \in Recs, rows[q].status = "none"
        PROVE  rows'[q].status = "none"
    BY <1>0, <1>2 DEF WorkerMoves
  <1>3. ASSUME NEW s \in Slots, Serves(s), NEW q \in Recs, rows[q].status = "none"
        PROVE  rows'[q].status = "none"
    <2>1. Carrying(calls[s]) \/ calls[s].op \in {"retry", "delete"} => calls[s].rec # q
      BY <1>0, <1>3 DEF NamedCall, Exists
    <2>2. CASE Refuses(s)
      BY <1>3, <2>2 DEF Refuses
    <2>3. CASE ~Refuses(s)
      BY <1>0, <1>3, <2>1, <2>3
         DEF Serves, CheckStagingCapacity, KeepKey, PutObject, Complete, RetryRecording,
             DeleteRecording, ListRecordings, CallDies, OtherCreates, Carrying
    <2> QED BY <2>2, <2>3
  <1>4. PICK s \in Slots : TRUE
    BY PracticeAssumption
  <1> QED BY <1>1, <1>2, <1>3, <1>4, OtherRows DEF Next

LEMMA InsertionStages ==
    ASSUME TypeInv, NEW s \in Slots, InsertRecording(s), ~Refuses(s),
           \A r \in Recs : RowMoves(r)
    PROVE  \E r \in Recs : Staged' \subseteq Staged \cup {r} /\ LetIn' = LetIn \ {s}
                           /\ s \in LetIn
  <1>1. PICK r \in Recs :
          /\ rows' = [rows EXCEPT ![r] = [status |-> "STAGING", key |-> "pending",
                                          object |-> FALSE, take |-> calls[s].take]]
          /\ calls' = [calls EXCEPT ![s] = [@ EXCEPT !.step = "inserted", !.rec = r]]
    BY DEF InsertRecording
  <1>2. Staged' \subseteq Staged \cup {r}
    BY <1>1 DEF Staged, TypeInv, TypeOK
  <1>3. LetIn' = LetIn \ {s} /\ s \in LetIn
    <2>1. calls'[s].step = "inserted" /\ \A x \in Slots : x # s => calls'[x] = calls[x]
      BY <1>1 DEF TypeInv, TypeOK, Calls
    <2>2. s \in LetIn
      BY DEF InsertRecording, LetIn
    <2> QED BY <2>1, <2>2 DEF LetIn
  <1> QED BY <1>2, <1>3

LEMMA LetInSteps ==
    ASSUME TypeInv, Next, \A s \in Slots : ~CheckStagingCapacity(s)
    PROVE  LetIn' \subseteq LetIn
  <1>0. calls \in [Slots -> Calls]
    BY DEF TypeInv, TypeOK
  <1>1. ASSUME NEW s \in Slots, NEW call, Send(s, call),
               call.op = "create" /\ call.step = "checked" =>
                 calls[s].op = "create" /\ calls[s].step = "checked"
        PROVE  LetIn' \subseteq LetIn
    BY <1>0, <1>1 DEF Send, LetIn
  <1>2. \A s \in Slots, step \in {"ok", "refused"} :
          LET call == Answered(calls[s], step)
          IN  ~(call.op = "create" /\ call.step = "checked")
    BY <1>0 DEF Answered, Calls, Idle, CallOf
  <1>3. /\ \A op, take, rec : CallOf(op, take, rec).step = "sent"
        /\ [CallOf("create", NoTake, NoRec) EXCEPT !.heard = FALSE].step = "sent"
        /\ Idle.step = "sent"
    BY DEF CallOf, Idle
  <1>4. \A s \in Slots : LET call == Unheard(calls[s])
                         IN  call.op = "create" /\ call.step = "checked" =>
                               calls[s].op = "create" /\ calls[s].step = "checked"
    BY <1>0, <1>3 DEF Unheard, Calls
  <1>5. CASE Records
    <2>1. CASE UNCHANGED <<page, outside>>
      BY <2>1 DEF outside, LetIn
    <2>2. CASE Leave
      BY <1>4, <2>2 DEF Leave, LetIn
    <2> QED BY <1>5, <2>1, <2>2, RecordsFrame
  <1>6. CASE TrimUpload \/ TrimFails
    BY <1>6 DEF TrimUpload, TrimFails, LetIn
  <1>7. ASSUME NEW s \in Slots, Transports(s) PROVE LetIn' \subseteq LetIn
    BY <1>1, <1>3, <1>4, <1>7
       DEF Transports, Upload, TrimDone, Begin, CreateAnswered, PutAnswered, Continues,
           CompleteAnswered, UploadRefused, UploadLost, CancelUpload
  <1>8. ASSUME NEW s \in Slots, Lists(s) PROVE LetIn' \subseteq LetIn
    <2>1. CASE ListAnswered(s)
      <3>1. \A x \in Slots : x # s => calls'[x].op = calls[x].op /\ calls'[x].step = calls[x].step
        BY <1>0, <2>1 DEF ListAnswered, Overtakes, Calls
      <3>2. calls'[s].step = "sent"
        BY <1>3, <2>1 DEF ListAnswered, Overtakes
      <3> QED BY <3>1, <3>2 DEF LetIn
    <2>2. CASE ~ListAnswered(s)
      BY <1>1, <1>3, <1>4, <1>8, <2>2
         DEF Lists, Poll, Retry, Delete, Mutates, MutationAnswered, AttemptsCallFails
    <2> QED BY <2>1, <2>2
  <1>9. ASSUME NEW s \in Slots, Serves(s) PROVE LetIn' \subseteq LetIn
    <2>1. ASSUME NEW step \in {"ok", "refused"}, Steps(s, step) PROVE LetIn' \subseteq LetIn
      BY <1>1, <1>2, <2>1 DEF Steps
    <2>2. CASE InsertRecording(s)
      <3>1. CASE Refuses(s)
        BY <2>1, <3>1 DEF Refuses
      <3>2. CASE ~Refuses(s)
        <4>1. PICK r : calls' = [calls EXCEPT ![s] = [@ EXCEPT !.step = "inserted", !.rec = r]]
          BY <2>2, <3>2 DEF InsertRecording
        <4> QED BY <1>0, <4>1 DEF LetIn, Calls
      <3> QED BY <3>1, <3>2
    <2>3. CASE ListRecordings(s)
      <3>1. PICK call : call = Answered([calls[s] EXCEPT !.view = Listing, !.order = 1 + Served],
                                        "ok")
        OBVIOUS
      <3>2. call.op # "create" /\ Send(s, call)
        BY <1>0, <2>3, <3>1 DEF ListRecordings, Answered, Calls, Idle, CallOf
      <3> QED BY <1>1, <3>2
    <2>4. CASE OtherCreates(s)
      BY <1>1, <1>3, <2>4 DEF OtherCreates
    <2> QED
      BY <1>9, <2>1, <2>2, <2>3, <2>4
         DEF Serves, KeepKey, PutObject, Complete, RetryRecording, DeleteRecording, CallDies,
             Refuses
  <1>10. ASSUME NEW r \in Recs, WorkerMoves(r) PROVE LetIn' \subseteq LetIn
    BY <1>10 DEF WorkerMoves, LetIn
  <1> QED BY <1>5, <1>6, <1>7, <1>8, <1>9, <1>10 DEF Next

\* Creations that overlap overshoot the capacity by at most one upload for each
\* further call the process serves, in every reachable state.
THEOREM StagingOvershoot == Spec => []StagingOvershootIsBounded
  <1>1. Init => StagingOvershootIsBounded
    <2> SUFFICES ASSUME Init PROVE StagingOvershootIsBounded
      OBVIOUS
    <2>1. TypeInv
      BY InitTypes, InitUp, PracticeAssumption
         DEF TypeInv, Init, NamedInv, NamedCall, Carrying, Exists, Idle, CallOf, Nothing,
             Listing, NoRow
    <2>2. LetIn = {}
      BY DEF Init, LetIn, Idle, CallOf
    <2>3. PICK old \in SUBSET Recs :
            /\ Cardinality(old) <= Capacity
            /\ rows = [r \in Recs |-> IF r \in old
                                      THEN [NoRow EXCEPT !.status = "FAILED", !.key = "own",
                                                         !.object = TRUE]
                                      ELSE NoRow]
      BY DEF Init
    <2>4. Staged = old
      BY <2>3 DEF Staged, NoRow
    <2> QED BY <2>1, <2>2, <2>3, <2>4, StagedFinite, FS_EmptySet
            DEF StagingOvershootIsBounded, ActiveStaging
  <1>2. TypeInv /\ TypeInv' /\ StagingOvershootIsBounded /\ [Next]_vars
          => StagingOvershootIsBounded'
    <2> SUFFICES ASSUME TypeInv, TypeInv', StagingOvershootIsBounded, [Next]_vars
                 PROVE  StagingOvershootIsBounded'
      OBVIOUS
    <2>1. CASE UNCHANGED vars
      BY <2>1, StagedShrinks DEF vars, Staged, LetIn
    <2>2. CASE Next
      <3>1. RowsKeep /\ \A r \in Recs : RowMoves(r)
        BY <2>2, NextRows, PracticeAssumption
      <3>2. ASSUME NEW s \in Slots, CheckStagingCapacity(s)
            PROVE  StagingOvershootIsBounded'
        <4>1. Staged' = Staged /\ LetIn' \subseteq LetIn \cup {s} /\ s \notin LetIn
          BY <3>2
             DEF CheckStagingCapacity, Staged, LetIn, Steps, Send, TypeInv, TypeOK
        <4>2. CASE Fits
          <5>2. Cardinality(LetIn)' \in Nat /\ Cardinality(LetIn)' <= Cardinality(LetIn) + 1
            BY <4>1, StagedFinite, OneMore
          <5>3. ActiveStaging' = ActiveStaging /\ ActiveStaging + 1 <= Capacity
            BY <4>1, <4>2 DEF ActiveStaging, Fits
          <5> QED BY <4>1, <5>2, <5>3, StagedFinite DEF StagingOvershootIsBounded
        <4>3. CASE ~Fits
          <5>1. calls'[s].step # "checked"
            BY <3>2, <4>3
               DEF CheckStagingCapacity, Steps, Send, Answered, Idle, CallOf, TypeInv, TypeOK, Calls
          <5>2. LetIn' \subseteq LetIn
            BY <4>1, <5>1 DEF LetIn
          <5> QED BY <4>1, <5>2, StagedShrinks
        <4> QED BY <4>2, <4>3
      <3>3. CASE \E s \in Slots : InsertRecording(s) /\ ~Refuses(s)
        <4>1. PICK s \in Slots, r \in Recs : Staged' \subseteq Staged \cup {r}
                                             /\ LetIn' = LetIn \ {s} /\ s \in LetIn
          BY <3>1, <3>3, InsertionStages
        <4>2. ActiveStaging' \in Nat /\ ActiveStaging' <= ActiveStaging + 1
          BY <4>1, StagedFinite, OneMore DEF ActiveStaging
        <4>3. Cardinality(LetIn)' = Cardinality(LetIn) - 1
          BY <4>1, StagedFinite, FS_RemoveElement
        <4> QED BY <4>2, <4>3, StagedFinite DEF StagingOvershootIsBounded
      <3>4. CASE /\ \A s \in Slots : ~CheckStagingCapacity(s)
                 /\ \A s \in Slots : ~(InsertRecording(s) /\ ~Refuses(s))
        <4>1. LetIn' \subseteq LetIn
          BY <2>2, <3>4, LetInSteps
        <4>2. \A r \in Recs : rows[r].status = "none" => rows'[r].status = "none"
          BY <2>2, <3>1, <3>4, OnlyInsertion
        <4>3. \A r \in Recs : r \in Staged' => r \in Staged
          BY <3>1, <4>2, StagedSteps DEF Staged
        <4> QED BY <4>1, <4>3, StagedShrinks DEF Staged
      <3> QED BY <3>2, <3>3, <3>4
    <2> QED BY <2>1, <2>2
  <1> QED BY <1>1, <1>2, TypeInvariant, PTL DEF Spec

-----------------------------------------------------------------------------
(* Takes and the recordings made of them.                                  *)

LEMMA TakenInvariant == Spec => []TakenInv
  <1>1. Init => TakenInv
    BY DEF Init, TakenInv, NoReview, NoUpload, Idle, CallOf, NoRow
  <1>2. TypeInv /\ TakenInv /\ [Next]_vars => TakenInv'
    <2> SUFFICES ASSUME TypeInv, TakenInv, [Next]_vars PROVE TakenInv'
      OBVIOUS
    <2>0. /\ calls \in [Slots -> Calls] /\ up \in Uploads /\ rows \in [Recs -> Rows]
          /\ review \in [capture : Takes \cup {NoTake}, player : {"none", "plays", "broken"}]
          /\ NoUpload.take = NoTake /\ NoReview.capture = NoTake
          /\ Idle.take = NoTake /\ \A op, take, rec : CallOf(op, take, rec).take = take
          /\ \A s \in Slots : Unheard(calls[s]).take \in taken \cup {NoTake}
          /\ \A s \in Slots : \A step : Answered(calls[s], step).take \in taken \cup {NoTake}
      BY DEF TypeInv, TypeOK, TakenInv, NoUpload, NoReview, Idle, CallOf, Unheard, Answered, Calls
    <2>1. ASSUME review'.capture \in taken' \cup {NoTake}, up'.take \in taken \cup {NoTake},
                 taken \subseteq taken',
                 \A s \in Slots : calls'[s].take \in taken \cup {NoTake},
                 rows' = rows
          PROVE  TakenInv'
      BY <2>1 DEF TakenInv
    <2>2. ASSUME NEW s \in Slots, NEW call, Send(s, call), call.take \in taken \cup {NoTake}
          PROVE  \A x \in Slots : calls'[x].take \in taken \cup {NoTake}
      BY <2>0, <2>2 DEF Send, TakenInv
    <2>3. CASE UNCHANGED vars
      BY <2>3 DEF vars, media, TakenInv
    <2>4. CASE Records
      <3>1. CASE Leave
        BY <2>0, <2>1, <3>1 DEF Leave, TakenInv
      <3>2. CASE ~Leave
        <4>1. calls' = calls /\ up' = up /\ rows' = rows
          BY <2>4, <3>2, RecordsFrame DEF outside
        <4>2. review'.capture \in taken' \cup {NoTake} /\ taken \subseteq taken'
          <5>1. CASE StopFires
            BY <2>0, <5>1 DEF StopFires, TakenInv
          <5>2. CASE Discard
            BY <2>0, <5>2 DEF Discard
          <5>3. CASE ~StopFires /\ ~Discard
            BY <2>4, <3>2, <5>3
               DEF Records, RequestPermission, PermissionGranted, PermissionRefused, Start, Stop,
                   RecorderFails, DeviceLost, TakenInv
          <5> QED BY <5>1, <5>2, <5>3
        <4> QED BY <2>1, <4>1, <4>2 DEF TakenInv
      <3> QED BY <3>1, <3>2
    <2>5. PanelReturns => review'.capture = review.capture
      BY <2>0 DEF PanelReturns
    <2>6. CASE TrimUpload \/ TrimFails
      BY <2>0, <2>1, <2>5, <2>6 DEF TrimUpload, TrimFails, unmoved, NoUpload, TakenInv
    <2>7. ASSUME NEW s \in Slots, Transports(s) PROVE TakenInv'
      <3>1. taken' = taken /\ rows' = rows
        BY <2>7, OtherRows
           DEF Transports, Upload, TrimDone, CreateAnswered, PutAnswered, CompleteAnswered,
               UploadRefused, UploadLost, CancelUpload, unmoved, media
      <3>2. review'.capture \in taken \cup {NoTake}
        BY <2>0, <2>5, <2>7
           DEF Transports, Upload, TrimDone, CreateAnswered, PutAnswered, CompleteAnswered,
               UploadRefused, UploadLost, CancelUpload, unmoved, media, TakenInv
      <3>3. /\ up'.take \in taken \cup {NoTake}
            /\ \E call : Send(s, call) /\ call.take \in taken \cup {NoTake}
        <4>1. CASE Upload(s) \/ TrimDone(s)
          <5>1. PICK take, trim : take \in taken \cup {NoTake} /\ Begin(s, take, trim)
            BY <4>1 DEF Upload, TrimDone, TakenInv
          <5> QED BY <2>0, <5>1 DEF Begin
        <4>2. CASE CreateAnswered(s) \/ PutAnswered(s)
          <5>1. PICK phase, r : Continues(s, phase, r)
            BY <4>2 DEF CreateAnswered, PutAnswered
          <5>2. up'.take = up.take
            BY <2>0, <5>1 DEF Continues, Uploads
          <5> QED BY <2>0, <5>1, <5>2 DEF Continues, TakenInv
        <4>3. CASE CompleteAnswered(s)
          BY <2>0, <4>3 DEF CompleteAnswered, TakenInv, Uploads
        <4>4. CASE UploadRefused(s) \/ UploadLost(s) \/ CancelUpload(s)
          BY <2>0, <4>4 DEF UploadRefused, UploadLost, CancelUpload
        <4> QED BY <2>7, <4>1, <4>2, <4>3, <4>4 DEF Transports
      <3> QED BY <2>1, <2>2, <3>1, <3>2, <3>3
    <2>8. ASSUME NEW s \in Slots, Lists(s) PROVE TakenInv'
      <3>1. /\ taken' = taken /\ rows' = rows /\ review' = review
            /\ up' = up \/ up' = NoUpload
        BY <2>8 DEF Lists, Poll, Retry, Delete, Mutates, MutationAnswered, ListAnswered,
                    AttemptsCallFails, ReloadEnds, aside, media
      <3>2. \A x \in Slots : calls'[x].take \in taken \cup {NoTake}
        <4>1. CASE ListAnswered(s)
          BY <2>0, <4>1 DEF ListAnswered, Overtakes, TakenInv, Calls
        <4>2. CASE ~ListAnswered(s)
          BY <2>0, <2>2, <2>8, <4>2
             DEF Lists, Poll, Retry, Delete, Mutates, MutationAnswered, AttemptsCallFails
        <4> QED BY <4>1, <4>2
      <3> QED BY <2>0, <2>1, <3>1, <3>2 DEF TakenInv
    <2>9. ASSUME (\E s \in Slots : Serves(s)) \/ \E r \in Recs : WorkerMoves(r)
          PROVE  TakenInv'
      <3>1. taken' = taken /\ up' = up /\ review' = review
        BY <2>9
           DEF Serves, WorkerMoves, CheckStagingCapacity, InsertRecording, KeepKey, PutObject,
               Complete, RetryRecording, DeleteRecording, ListRecordings, CallDies, OtherCreates,
               Refuses, kept, media
      <3>2. \A x \in Slots : calls'[x].take \in taken \cup {NoTake}
        <4>1. ASSUME NEW s \in Slots, NEW step, Steps(s, step)
              PROVE  \A x \in Slots : calls'[x].take \in taken \cup {NoTake}
          <5>1. [calls[s] EXCEPT !.step = step].take \in taken \cup {NoTake}
            BY <2>0 DEF Calls, TakenInv
          <5> QED BY <2>0, <2>2, <4>1, <5>1 DEF Steps
        <4>2. ASSUME NEW s \in Slots, InsertRecording(s)
              PROVE  \A x \in Slots : calls'[x].take \in taken \cup {NoTake}
          <5>1. CASE Refuses(s)
            BY <4>1, <5>1 DEF Refuses
          <5>2. CASE ~Refuses(s)
            <6>1. PICK r : Send(s, [calls[s] EXCEPT !.step = "inserted", !.rec = r])
              BY <4>2, <5>2 DEF InsertRecording, Send
            <6>2. [calls[s] EXCEPT !.step = "inserted", !.rec = r].take \in taken \cup {NoTake}
              BY <2>0 DEF Calls, TakenInv
            <6> QED BY <2>2, <6>1, <6>2
          <5> QED BY <5>1, <5>2
        <4>3. ASSUME NEW s \in Slots, ListRecordings(s)
              PROVE  \A x \in Slots : calls'[x].take \in taken \cup {NoTake}
          <5>1. Answered([calls[s] EXCEPT !.view = Listing, !.order = 1 + Served], "ok").take
                  \in taken \cup {NoTake}
            BY <2>0 DEF Answered, Calls, TakenInv
          <5> QED BY <2>2, <4>3, <5>1 DEF ListRecordings
        <4>4. ASSUME NEW s \in Slots, OtherCreates(s)
              PROVE  \A x \in Slots : calls'[x].take \in taken \cup {NoTake}
          <5>1. [CallOf("create", NoTake, NoRec) EXCEPT !.heard = FALSE].take = NoTake
            BY DEF CallOf
          <5> QED BY <2>2, <4>4, <5>1 DEF OtherCreates
        <4>5. ASSUME NEW r \in Recs, WorkerMoves(r)
              PROVE  \A x \in Slots : calls'[x].take \in taken \cup {NoTake}
          BY <4>5 DEF WorkerMoves, TakenInv
        <4> QED
          BY <2>9, <4>1, <4>2, <4>3, <4>4, <4>5
             DEF Serves, CheckStagingCapacity, KeepKey, PutObject, Complete, RetryRecording,
                 DeleteRecording, CallDies, Refuses
      <3>3. ASSUME NEW q \in Recs PROVE rows'[q].take \in taken \cup {NoTake}
        <4>1. CASE \E s \in Slots : InsertRecording(s) /\ ~Refuses(s)
          <5>1. PICK s \in Slots, r \in Recs :
                  rows' = [rows EXCEPT ![r] = [status |-> "STAGING", key |-> "pending",
                                               object |-> FALSE, take |-> calls[s].take]]
            BY <4>1 DEF InsertRecording
          <5> QED BY <2>0, <5>1 DEF TakenInv
        <4>2. CASE ~\E s \in Slots : InsertRecording(s) /\ ~Refuses(s)
          <5>1. RowMoves(q)
            BY <2>9, ServesRows
          <5>2. Next
            BY <2>9 DEF Next
          <5>3. rows[q].status = "none" => rows'[q].status = "none"
            BY <4>2, <5>2, OnlyInsertion
          <5> QED BY <5>1, <5>3 DEF RowMoves, TakenInv
        <4> QED BY <4>1, <4>2
      <3> QED BY <2>0, <3>1, <3>2, <3>3 DEF TakenInv
    <2> QED BY <2>3, <2>4, <2>6, <2>7, <2>8, <2>9 DEF Next
  <1> QED BY <1>1, <1>2, TypeInvariant, PTL DEF Spec

LEMMA InitTake == Init => TakeInv
  <1> SUFFICES ASSUME Init PROVE TakeInv
    OBVIOUS
  <1>1. \A s \in Slots : calls[s].op = "idle"
    BY DEF Init, Idle, CallOf
  <1>2. \A r \in Recs : rows[r].take = NoTake
    BY DEF Init, NoRow
  <1> QED BY <1>1, <1>2, PracticeAssumption DEF TakeInv, TakeIsOneRecording, Transferred, Past

\* What keeps TakeInv when no recording gets past staging.
LEMMA TakeOn ==
    ASSUME TypeInv, TakeInv, RowsKeep, Transferred' \subseteq Transferred,
           unheard \subseteq unheard',
           \A s \in Slots : calls'[s].op = "complete" /\ ~calls'[s].heard =>
                              calls'[s].take \in unheard',
           \A r \in Recs, t \in Takes \ unheard' : r \in Transferred /\ rows[r].take = t =>
              /\ Completing(r) => Completing(r)' \/ Spent(t)'
              /\ Spent(t) => Spent(t)'
    PROVE  TakeInv'
  <1>0. /\ \A r \in Transferred' : r \in Recs /\ r \in Transferred /\ Exists(r)
                                   /\ rows'[r].take = rows[r].take
        /\ \A r \in Recs : rows[r].take \in Takes \cup {NoTake}
        /\ NoTake \notin Takes
    BY PracticeAssumption DEF Transferred, Past, Exists, RowsKeep, TypeInv, TypeOK, Rows
  <1>1. ASSUME NEW r \in Transferred', rows'[r].take \in Takes \ unheard'
        PROVE  Completing(r)' \/ Spent(rows[r].take)'
    <2>1. PICK t : t = rows[r].take
      OBVIOUS
    <2>2. t \in Takes \ unheard' /\ r \in Recs /\ r \in Transferred /\ rows'[r].take = t
      BY <1>0, <1>1, <2>1
    <2>3. Completing(r) \/ Spent(t)
      BY <2>1, <2>2 DEF TakeInv
    <2>4. Completing(r)' \/ Spent(t)'
      BY <2>1, <2>2, <2>3
    <2> QED BY <2>2, <2>4 DEF Spent
  <1>2. TakeIsOneRecording'
    BY <1>0 DEF TakeInv, TakeIsOneRecording
  <1> QED BY <1>1, <1>2 DEF TakeInv

\* The handle's call completes what the handle names.
LEMMA HandleCompletes ==
    ASSUME TypeInv, up.phase = "complete"
    PROVE  /\ up.slot \in Slots /\ calls[up.slot].op = "complete" /\ calls[up.slot].heard
           /\ calls[up.slot].take = up.take /\ calls[up.slot].rec = up.rec
           /\ up.rec \in Recs /\ rows[up.rec].take = up.take /\ up.take \in Takes
  BY DEF TypeInv, UpInv, NamedInv, NamedCall, Carrying, Exists

LEMMA TakeTransports ==
    ASSUME TypeInv, TakeInv, RowsKeep, NEW s \in Slots, Transports(s)
    PROVE  TakeInv'
  <1>0. /\ rows' = rows /\ Transferred' = Transferred /\ unheard \subseteq unheard'
        /\ calls \in [Slots -> Calls] /\ up \in Uploads
        /\ review \in [capture : Takes \cup {NoTake}, player : {"none", "plays", "broken"}]
        /\ NoUpload.phase = "none" /\ NoReview.capture = NoTake /\ NoTake \notin Takes
    <2>1. unheard \subseteq unheard'
      BY DEF Transports, Upload, TrimDone, CreateAnswered, PutAnswered, CompleteAnswered,
             UploadRefused, UploadLost, CancelUpload, ghosts
    <2> QED BY <2>1, OtherRows, PracticeAssumption
            DEF Transferred, Past, TypeInv, TypeOK, NoUpload, NoReview
  <1>1. ASSUME NEW call, Send(s, call),
               call.op = "complete" /\ ~call.heard => call.take \in unheard'
        PROVE  \A x \in Slots : calls'[x].op = "complete" /\ ~calls'[x].heard =>
                                  calls'[x].take \in unheard'
    BY <1>0, <1>1 DEF Send, TakeInv
  <1>2. /\ \A op, take, rec : CallOf(op, take, rec).heard
        /\ Idle.op = "idle"
    BY DEF CallOf, Idle
  <1>3. PanelReturns => review'.capture = review.capture
    BY <1>0 DEF PanelReturns
  <1>4. \A op \in {"create", "put", "complete"} : Waits(s, op) => up.phase = op /\ up.slot = s
    BY DEF TypeInv, UpInv, Waits
  <1>5. CASE Upload(s)
    <2>1. up.phase = "none" /\ review'.capture = review.capture
          /\ up'.phase = "create" /\ up'.take = review.capture
      BY <1>0, <1>5, NoneUnderWay DEF Upload, Begin
    <2>2. \A x \in Slots : calls'[x].op = "complete" /\ ~calls'[x].heard =>
                             calls'[x].take \in unheard'
      BY <1>1, <1>2, <1>5 DEF Upload, Begin
    <2> QED BY <1>0, <2>1, <2>2, TakeOn DEF Completing, Spent
  <1>6. CASE TrimDone(s)
    <2>1. up.phase = "cut" /\ review' = review /\ up'.phase = "create" /\ up'.take = up.take
      BY <1>0, <1>6 DEF TrimDone, Begin, media
    <2>2. \A x \in Slots : calls'[x].op = "complete" /\ ~calls'[x].heard =>
                             calls'[x].take \in unheard'
      BY <1>1, <1>2, <1>6 DEF TrimDone, Begin
    <2> QED BY <1>0, <2>1, <2>2, TakeOn DEF Completing, Spent
  <1>7. CASE CreateAnswered(s) \/ PutAnswered(s)
    <2>1. PICK phase, r : Continues(s, phase, r)
      BY <1>7 DEF CreateAnswered, PutAnswered
    <2>2. up.phase \in {"create", "put"} /\ review' = review /\ up'.take = up.take
      BY <1>0, <1>4, <1>7, <2>1 DEF CreateAnswered, PutAnswered, Continues, Uploads
    <2>3. \A x \in Slots : calls'[x].op = "complete" /\ ~calls'[x].heard =>
                             calls'[x].take \in unheard'
      BY <1>1, <1>2, <2>1 DEF Continues
    <2> QED BY <1>0, <2>2, <2>3, TakeOn DEF Completing, Spent
  <1>8. CASE CompleteAnswered(s)
    <2>1. up'.phase \in {"none", "reload"} /\ review'.capture = NoTake
      BY <1>0, <1>8 DEF CompleteAnswered, Uploads
    <2>2. \A x \in Slots : calls'[x].op = "complete" /\ ~calls'[x].heard =>
                             calls'[x].take \in unheard'
      BY <1>1, <1>2, <1>8 DEF CompleteAnswered
    <2> QED BY <1>0, <2>1, <2>2, TakeOn DEF Spent
  <1>9. CASE UploadRefused(s)
    <2>1. /\ up.slot = s /\ calls[s].step = "refused" /\ review'.capture = review.capture
          /\ up'.phase = "none"
      BY <1>0, <1>3, <1>4, <1>9 DEF UploadRefused
    <2>2. \A x \in Slots : calls'[x].op = "complete" /\ ~calls'[x].heard =>
                             calls'[x].take \in unheard'
      BY <1>1, <1>2, <1>9 DEF UploadRefused
    <2> QED BY <1>0, <2>1, <2>2, TakeOn DEF Completing, Spent
  <1>10. CASE UploadLost(s)
    <2>1. /\ up.slot = s /\ review'.capture = review.capture /\ up'.phase = "none"
          /\ calls[s].op = up.phase /\ calls[s].op \in {"create", "put", "complete"}
      BY <1>0, <1>3, <1>4, <1>10 DEF UploadLost, Waits
    <2>2. up.phase = "complete" => calls[s].take \in unheard'
      BY <1>10, <2>1, HandleCompletes DEF UploadLost
    <2>3. \A x \in Slots : calls'[x].op = "complete" /\ ~calls'[x].heard =>
                             calls'[x].take \in unheard'
      <3>1. Unheard(calls[s]).op = "complete" =>
              calls[s].op = "complete" /\ Unheard(calls[s]).take = calls[s].take
        BY <1>0, <1>2 DEF Unheard, Calls
      <3> QED BY <1>1, <1>2, <1>10, <2>1, <2>2, <3>1 DEF UploadLost
    <2>4. \A r \in Recs : Completing(r) => rows[r].take \in unheard'
      BY <2>1, <2>2, HandleCompletes DEF Completing
    <2> QED BY <1>0, <2>1, <2>3, <2>4, TakeOn DEF Spent
  <1>11. CASE CancelUpload(s)
    <2>1. /\ review'.capture = review.capture /\ up'.phase = "none" /\ up.phase = "put"
          /\ calls[s].op = "put"
      BY <1>0, <1>3, <1>11 DEF CancelUpload, TypeInv, UpInv
    <2>2. \A x \in Slots : calls'[x].op = "complete" /\ ~calls'[x].heard =>
                             calls'[x].take \in unheard'
      <3>1. Unheard(calls[s]).op # "complete"
        BY <1>0, <1>2, <2>1 DEF Unheard, Calls
      <3> QED BY <1>1, <1>2, <1>11, <3>1 DEF CancelUpload
    <2> QED BY <1>0, <2>1, <2>2, TakeOn DEF Completing, Spent
  <1> QED BY <1>5, <1>6, <1>7, <1>8, <1>9, <1>10, <1>11 DEF Transports

LEMMA TakeLists ==
    ASSUME TypeInv, TakeInv, RowsKeep, NEW s \in Slots, Lists(s) PROVE TakeInv'
  <1>0. /\ rows' = rows /\ Transferred' = Transferred /\ unheard' = unheard /\ review' = review
        /\ calls \in [Slots -> Calls]
        /\ up' = up \/ (up.phase = "reload" /\ up'.phase = "none")
    <2>1. /\ unheard' = unheard /\ review' = review
          /\ up' = up \/ (up.phase = "reload" /\ up' = NoUpload)
      BY DEF Lists, Poll, Retry, Delete, Mutates, MutationAnswered, ListAnswered,
             AttemptsCallFails, ReloadEnds, aside, ghosts, media
    <2> QED BY <2>1, OtherRows DEF Transferred, Past, TypeInv, TypeOK, NoUpload
  <1>1. \A x \in Slots : calls[x].op = "complete" \/ calls'[x].op = "complete" =>
                           calls'[x] = calls[x]
    <2>1. ASSUME NEW call, Send(s, call), calls[s].op # "complete", call.op # "complete"
          PROVE  \A x \in Slots : calls[x].op = "complete" \/ calls'[x].op = "complete" =>
                                    calls'[x] = calls[x]
      BY <1>0, <2>1 DEF Send
    <2>2. /\ Idle.op = "idle" /\ \A op, take, rec : CallOf(op, take, rec).op = op
          /\ calls[s].op # "complete" => Unheard(calls[s]).op # "complete"
      BY <1>0 DEF CallOf, Idle, Unheard, Calls
    <2>3. CASE ListAnswered(s)
      BY <1>0, <2>2, <2>3 DEF ListAnswered, Overtakes, Calls
    <2>4. CASE ~ListAnswered(s)
      BY <2>1, <2>2, <2>4
         DEF Lists, Poll, Retry, Delete, Mutates, MutationAnswered, AttemptsCallFails, Free
    <2> QED BY <2>3, <2>4
  <1>2. \A r \in Recs : Completing(r) => Completing(r)'
    BY <1>0, <1>1, HandleCompletes DEF Completing
  <1>3. \A t : Spent(t) => Spent(t)'
    BY <1>0 DEF Spent
  <1>4. \A x \in Slots : calls'[x].op = "complete" /\ ~calls'[x].heard =>
                           calls'[x].take \in unheard'
    BY <1>0, <1>1 DEF TakeInv
  <1> QED BY <1>0, <1>2, <1>3, <1>4, TakeOn

LEMMA TakeRecords ==
    ASSUME TypeInv, TakenInv, TakeInv, RowsKeep, Records PROVE TakeInv'
  <1>0. /\ calls \in [Slots -> Calls] /\ review.capture \in Takes \cup {NoTake}
        /\ NoReview.capture = NoTake /\ NoTake \notin Takes
        /\ NoUpload.phase = "none"
    BY PracticeAssumption DEF TypeInv, TypeOK, NoReview, NoUpload
  <1>1. CASE Leave
    <2>1. \A x \in Slots : calls[x].op = "complete" \/ calls'[x].op = "complete" =>
                             calls'[x] = calls[x]
      BY <1>0, <1>1 DEF Leave, Unheard, Idle, CallOf, Calls
    <2>2. /\ up' = up \/ (up.phase = "reload" /\ up'.phase = "none")
          /\ review'.capture = NoTake /\ unheard' = unheard /\ Transferred' = Transferred
      BY <1>0, <1>1 DEF Leave, ghosts, Transferred, Past
    <2>3. \A r \in Recs : Completing(r) => Completing(r)'
      BY <2>1, <2>2, HandleCompletes DEF Completing
    <2>4. \A t \in Takes : Spent(t) => Spent(t)'
      BY <1>0, <2>2 DEF Spent
    <2>5. \A x \in Slots : calls'[x].op = "complete" /\ ~calls'[x].heard =>
                             calls'[x].take \in unheard'
      BY <2>1, <2>2 DEF TakeInv
    <2> QED BY <2>2, <2>3, <2>4, <2>5, TakeOn
  <1>2. CASE ~Leave
    <2>1. calls' = calls /\ up' = up /\ rows' = rows /\ unheard' = unheard
      BY <1>2, RecordsFrame DEF outside, ghosts
    <2>2. Transferred' = Transferred
      BY <2>1 DEF Transferred, Past
    <2>3. \/ review'.capture = review.capture
          \/ review'.capture = NoTake
          \/ review'.capture \in Takes \ taken
      <3>1. CASE StopFires
        BY <3>1 DEF StopFires
      <3>2. CASE Discard
        BY <1>0, <3>2 DEF Discard
      <3>3. CASE ~StopFires /\ ~Discard
        BY <1>2, <3>3
           DEF Records, RequestPermission, PermissionGranted, PermissionRefused, Start, Stop,
               RecorderFails, DeviceLost
      <3> QED BY <3>1, <3>2, <3>3
    <2>4. \A r \in Recs : Completing(r) => Completing(r)'
      BY <2>1 DEF Completing
    <2>5. \A r \in Recs, t \in Takes : rows[r].take = t /\ Spent(t) => Spent(t)'
      BY <1>0, <2>1, <2>3 DEF Spent, TakenInv
    <2>6. \A x \in Slots : calls'[x].op = "complete" /\ ~calls'[x].heard =>
                             calls'[x].take \in unheard'
      BY <2>1 DEF TakeInv
    <2> QED BY <2>1, <2>2, <2>4, <2>5, <2>6, TakeOn
  <1> QED BY <1>1, <1>2

\* What the server does to a call keeps its take and its being heard, or ends it;
\* it takes no step of a call already answered.
LEMMA ServedCalls ==
    ASSUME TypeInv, NEW s \in Slots, Serves(s)
    PROVE  /\ \A x \in Slots : x # s => calls'[x] = calls[x]
           /\ calls[s].op = "complete" => calls[s].step # "ok"
           /\ calls'[s].op = "complete" =>
                /\ calls[s].op = "complete" /\ calls'[s].heard = calls[s].heard
                /\ calls'[s].take = calls[s].take
  <1>0. calls \in [Slots -> Calls]
    BY DEF TypeInv, TypeOK
  <1>1. ASSUME NEW call, Send(s, call)
        PROVE  calls'[s] = call /\ \A x \in Slots : x # s => calls'[x] = calls[x]
    BY <1>0, <1>1 DEF Send
  <1>2. ASSUME NEW step, Steps(s, step), calls[s].step \notin {"ok", "refused"}
        PROVE  /\ \A x \in Slots : x # s => calls'[x] = calls[x]
               /\ calls[s].op = "complete" => calls[s].step # "ok"
               /\ calls'[s].op = "complete" =>
                    /\ calls[s].op = "complete" /\ calls'[s].heard = calls[s].heard
                    /\ calls'[s].take = calls[s].take
    BY <1>0, <1>1, <1>2 DEF Steps, Answered, Idle, CallOf, Calls
  <1>3. CASE InsertRecording(s)
    <2>1. CASE Refuses(s)
      BY <1>2, <1>3, <2>1 DEF Refuses, InsertRecording
    <2>2. CASE ~Refuses(s)
      <3>1. PICK r : Send(s, [calls[s] EXCEPT !.step = "inserted", !.rec = r])
        BY <1>3, <2>2 DEF InsertRecording, Send
      <3>2. PICK call : call = [calls[s] EXCEPT !.step = "inserted", !.rec = r]
        OBVIOUS
      <3>3. Send(s, call) /\ calls[s].op = "create" /\ call.op = "create"
        BY <1>0, <1>3, <3>1, <3>2 DEF InsertRecording, Calls
      <3> QED BY <1>1, <3>3
    <2> QED BY <2>1, <2>2
  <1>4. CASE ListRecordings(s)
    <2>1. PICK call : call = Answered([calls[s] EXCEPT !.view = Listing, !.order = 1 + Served],
                                      "ok")
      OBVIOUS
    <2>2. Send(s, call) /\ call.op # "complete" /\ calls[s].op = "list"
      BY <1>0, <1>4, <2>1 DEF ListRecordings, Answered, Calls, Idle, CallOf
    <2> QED BY <1>1, <2>2
  <1>5. CASE OtherCreates(s)
    <2>1. [CallOf("create", NoTake, NoRec) EXCEPT !.heard = FALSE].op = "create"
      BY DEF CallOf
    <2> QED BY <1>1, <1>5, <2>1 DEF OtherCreates, Free
  <1>6. CASE ~InsertRecording(s) /\ ~ListRecordings(s) /\ ~OtherCreates(s)
    BY <1>2, <1>6
       DEF Serves, CheckStagingCapacity, KeepKey, PutObject, Complete, RetryRecording,
           DeleteRecording, CallDies, Refuses
  <1> QED BY <1>3, <1>4, <1>5, <1>6

LEMMA TakeServes ==
    ASSUME TypeInv, TakeInv, RowsKeep, \A r \in Recs : RowMoves(r), NEW s \in Slots, Serves(s)
    PROVE  TakeInv'
  <1>0. /\ up' = up /\ review' = review /\ unheard' = unheard
        /\ calls \in [Slots -> Calls] /\ Transferred' \subseteq Recs
        /\ NoTake \notin Takes
    BY PracticeAssumption
       DEF Serves, CheckStagingCapacity, InsertRecording, KeepKey, PutObject,
           Complete, RetryRecording, DeleteRecording, ListRecordings, CallDies, OtherCreates,
           Refuses, kept, media, ghosts, TypeInv, TypeOK, Transferred, Past
  <1>1. \A x \in Slots : calls'[x].op = "complete" /\ ~calls'[x].heard =>
                           calls'[x].take \in unheard'
    BY <1>0, ServedCalls DEF TakeInv
  <1>2. \A r \in Recs : Completing(r) => Completing(r)'
    BY <1>0, ServedCalls, HandleCompletes DEF Completing
  <1>3. \A t : Spent(t) => Spent(t)'
    BY <1>0 DEF Spent
  <1>4. CASE Transferred' \subseteq Transferred
    BY <1>0, <1>1, <1>2, <1>3, <1>4, TakeOn
  <1>5. CASE ~(Transferred' \subseteq Transferred)
    <2>1. PICK r \in Recs : r \notin Transferred /\ r \in Transferred'
      BY <1>0, <1>5
    <2>2. /\ calls[s].op = "complete" /\ r = calls[s].rec /\ Steps(s, "ok")
          /\ \A q \in Recs : q \in Transferred' => q \in Transferred \/ q = r
      BY <2>1, OnlyCompletion DEF Complete
    <2>3. /\ rows[r].take = calls[s].take /\ rows'[r].take = rows[r].take
          /\ Exists(r)
      BY <2>2 DEF TypeInv, NamedInv, NamedCall, Carrying, RowsKeep
    <2>4. ASSUME rows[r].take \in Takes \ unheard
          PROVE  /\ up.phase = "complete" /\ up.rec = r /\ up.take = rows[r].take
                 /\ Completing(r)'
      <3>1. calls[s].heard
        BY <2>2, <2>3, <2>4 DEF TakeInv
      <3>2. up.slot = s /\ up.phase = "complete"
        BY <2>2, <3>1 DEF TypeInv, UpInv
      <3>3. up.rec = r /\ up.take = rows[r].take
        BY <2>2, <3>2, HandleCompletes
      <3>4. calls'[s].step = "ok"
        BY <1>0, <2>2, <3>1 DEF Steps, Send, Answered, Calls
      <3> QED BY <1>0, <3>2, <3>3, <3>4 DEF Completing
    <2>5. ASSUME NEW q \in Transferred, rows[q].take = rows[r].take,
                 rows[r].take \in Takes \ unheard
          PROVE  FALSE
      <3>1. Completing(q) \/ Spent(rows[r].take)
        BY <2>5 DEF TakeInv
      <3> QED BY <2>1, <2>4, <2>5, <3>1 DEF Completing, Spent
    <2>6. \A q \in Transferred' : q \in Recs /\ rows'[q].take = rows[q].take
                                  /\ (q \in Transferred \/ q = r)
                                  /\ rows[q].take \in Takes \cup {NoTake}
      BY <1>0, <2>2, <2>3
         DEF Transferred, Past, RowsKeep, Exists, TypeInv, TypeOK, Rows
    <2>7. TakeIsOneRecording'
      BY <1>0, <2>5, <2>6 DEF TakeInv, TakeIsOneRecording
    <2>8. ASSUME NEW q \in Transferred', rows'[q].take \in Takes \ unheard'
          PROVE  Completing(q)' \/ Spent(rows[q].take)'
      <3>1. CASE q = r
        BY <1>0, <2>3, <2>4, <2>8, <3>1
      <3>2. CASE q # r
        <4>1. PICK t : t = rows[q].take
          OBVIOUS
        <4>2. q \in Transferred /\ t \in Takes \ unheard /\ rows'[q].take = t /\ q \in Recs
          BY <1>0, <2>6, <2>8, <3>2, <4>1
        <4>3. Completing(q) \/ Spent(t)
          BY <4>1, <4>2 DEF TakeInv
        <4> QED BY <1>2, <1>3, <4>2, <4>3 DEF Spent
      <3> QED BY <3>1, <3>2
    <2> QED BY <1>1, <2>7, <2>8 DEF TakeInv
  <1> QED BY <1>4, <1>5

LEMMA TakeInvariant == Spec => []TakeInv
  <1>1. TypeInv /\ TakenInv /\ TakeInv /\ [Next]_vars => TakeInv'
    <2> SUFFICES ASSUME TypeInv, TakenInv, TakeInv, [Next]_vars PROVE TakeInv'
      OBVIOUS
    <2>1. CASE UNCHANGED vars
      BY <2>1
         DEF vars, media, ghosts, TakeInv, TakeIsOneRecording, Transferred, Past, Completing, Spent
    <2>2. CASE Next
      <3>1. RowsKeep /\ \A r \in Recs : RowMoves(r)
        BY <2>2, NextRows, PracticeAssumption
      <3>2. ASSUME rows' = rows \/ \E r \in Recs : WorkerMoves(r)
            PROVE  Transferred' \subseteq Transferred
        <4>1. CASE rows' = rows
          BY <4>1 DEF Transferred, Past
        <4>2. ASSUME NEW r \in Recs, WorkerMoves(r) PROVE Transferred' \subseteq Transferred
          <5>1. ASSUME NEW q \in Recs, q \in Transferred', q \notin Transferred PROVE FALSE
            <6>1. rows[q].status = "STAGING" /\ rows'[q].status = "QUEUED"
              BY <3>1, <5>1, PastStays
            <6>2. q # r
              BY <4>2, <6>1 DEF WorkerMoves, TypeInv, TypeOK, Rows
            <6>3. rows'[q] = rows[q]
              BY <4>2, <6>2 DEF WorkerMoves, TypeInv, TypeOK
            <6> QED BY <6>1, <6>3
          <5> QED BY <5>1 DEF Transferred, Past
        <4> QED BY <3>2, <4>1, <4>2
      <3>3. ASSUME calls' = calls, unheard' = unheard, Transferred' \subseteq Transferred,
                   \A r \in Recs : Completing(r) => Completing(r)',
                   \A t \in Takes : Spent(t) => Spent(t)'
            PROVE  TakeInv'
        <4>1. \A x \in Slots : calls'[x].op = "complete" /\ ~calls'[x].heard =>
                                 calls'[x].take \in unheard'
          BY <3>3 DEF TakeInv
        <4> QED BY <3>1, <3>3, <4>1, TakeOn
      <3>4. CASE TrimUpload \/ TrimFails
        <4>1. /\ calls' = calls /\ unheard' = unheard /\ rows' = rows
              /\ review'.capture = review.capture
              /\ up.phase \in {"none", "cut"}
              /\ up'.phase \in {"none", "cut"} /\ up'.take \in {review.capture, NoTake}
          <5>1. review \in [capture : Takes \cup {NoTake}, player : {"none", "plays", "broken"}]
            BY DEF TypeInv, TypeOK
          <5>2. CASE TrimUpload
            BY <5>1, <5>2, NoneUnderWay DEF TrimUpload, ghosts, NoUpload
          <5>3. CASE TrimFails
            BY <5>1, <5>3 DEF TrimFails, PanelReturns, unmoved, ghosts, NoUpload
          <5> QED BY <3>4, <5>2, <5>3
        <4>2. \A t \in Takes : Spent(t) => Spent(t)'
          BY <4>1, PracticeAssumption DEF Spent
        <4> QED BY <3>2, <3>3, <4>1, <4>2 DEF Completing
      <3>5. ASSUME NEW r \in Recs, WorkerMoves(r) PROVE TakeInv'
        <4>1. calls' = calls /\ unheard' = unheard /\ up' = up /\ review' = review
          BY <3>5 DEF WorkerMoves, kept, media, ghosts
        <4> QED BY <3>2, <3>3, <3>5, <4>1 DEF Completing, Spent
      <3> QED
        BY <2>2, <3>1, <3>4, <3>5, TakeRecords, TakeTransports, TakeLists, TakeServes DEF Next
    <2> QED BY <2>1, <2>2
  <1> QED BY <1>1, InitTake, TypeInvariant, TakenInvariant, PTL DEF Spec

\* A take becomes two recordings past staging only after the answer to a
\* completion was lost, in every reachable state: until then it is uploaded
\* again only while none of its recordings is past staging.
THEOREM OneRecordingPerTake == Spec => []TakeIsOneRecording
  <1>1. TakeInv => TakeIsOneRecording
    BY DEF TakeInv
  <1> QED BY <1>1, TakeInvariant, PTL

\* A take that an upload clears from the page is on the server past staging, at
\* every step: only the answer to its completion clears it.
THEOREM UploadKeepsTakes == Spec => TakeSurvivesUpload
  <1> DEFINE Lost == review.capture # NoTake /\ review'.capture = NoTake /\ page' /\ Uploading
             Kept == Lost => \E r \in Past : rows[r].take = review.capture
  <1>1. TypeInv /\ MediaInv /\ CarryInv /\ [Next]_vars => [Kept]_vars
    <2> SUFFICES ASSUME TypeInv, MediaInv, CarryInv, Next, Lost
                 PROVE  \E r \in Past : rows[r].take = review.capture
      OBVIOUS
    <2>0. review \in [capture : Takes \cup {NoTake}, player : {"none", "plays", "broken"}]
          /\ NoTake \notin Takes
      BY PracticeAssumption DEF TypeInv, TypeOK
    <2>1. ~(review' = review) /\ review'.capture # review.capture
      OBVIOUS
    <2>2. PanelReturns => review'.capture = review.capture
      BY <2>0 DEF PanelReturns
    <2>3. ~Records
      <3>1. ~StopFires
        <4>1. SUFFICES ASSUME StopFires PROVE FALSE
          OBVIOUS
        <4>2. PICK t \in Takes : review' = [capture |-> t, player |-> "plays"]
          BY <2>1, <4>1 DEF StopFires
        <4>3. review'.capture = t /\ review'.capture = NoTake
          BY <4>2
        <4> QED BY <2>0, <4>3
      <3>2. ~Discard /\ ~Leave
        BY DEF Discard, Leave
      <3>3. ~RequestPermission /\ ~PermissionGranted /\ ~PermissionRefused /\ ~Start /\ ~Stop
            /\ ~RecorderFails /\ ~DeviceLost
        BY <2>1
           DEF RequestPermission, PermissionGranted, PermissionRefused, Start, Stop,
               RecorderFails, DeviceLost
      <3> QED BY <3>1, <3>2, <3>3 DEF Records
    <2>4. ~TrimUpload /\ ~TrimFails
      BY <2>0, <2>1, <2>2 DEF TrimUpload, TrimFails
    <2>5. ~\E s \in Slots : Lists(s) \/ Serves(s)
      BY <2>1
         DEF Lists, Poll, Retry, Delete, Mutates, MutationAnswered, ListAnswered,
             AttemptsCallFails, aside, media, Serves, CheckStagingCapacity, InsertRecording,
             KeepKey, PutObject, Complete, RetryRecording, DeleteRecording, ListRecordings,
             CallDies, OtherCreates, Refuses, kept
    <2>6. ~\E r \in Recs : WorkerMoves(r)
      BY <2>1 DEF WorkerMoves, kept, media
    <2>7. PICK s \in Slots : Transports(s)
      BY <2>3, <2>4, <2>5, <2>6 DEF Next
    <2>8. CompleteAnswered(s)
      BY <2>0, <2>1, <2>2, <2>7
         DEF Transports, Upload, TrimDone, CreateAnswered, PutAnswered, UploadRefused,
             UploadLost, CancelUpload, media
    <2>9. up.phase = "complete" /\ up.slot = s /\ calls[s].op = "complete" /\ calls[s].step = "ok"
          /\ page
      BY <2>8 DEF CompleteAnswered, Waits, TypeInv, UpInv
    <2>10. review.capture = up.take /\ calls[s].take = up.take
      BY <2>9, HandleCompletes DEF MediaInv
    <2>11. calls[s].rec \in Past /\ rows[calls[s].rec].take = calls[s].take
      BY <2>9 DEF CarryInv, Carrying, TypeInv, NamedInv, NamedCall
    <2> QED BY <2>10, <2>11
  <1> QED BY <1>1, TypeInvariant, MediaInvariant, CarryInvariant, PTL
          DEF Spec, TakeSurvivesUpload

-----------------------------------------------------------------------------
(* The attempts shown.                                                     *)

\* What a step must do about a recording for it to stay shown, or on its way.
Follows(r) ==
    \/ Completing(r)'
    \/ \A n \in 0 .. Served : \E x \in Slots : Later(x, n)'
    \/ /\ r \in Known /\ (Completing(r) => Completing(r)')
       /\ Listing'[r] = Listing[r] \/ Listing[r] \in NonTerminal

LEMMA FreshOn ==
    ASSUME PracticeAssumption, TypeInv, FreshInv, page, ~muddled, list' = list,
           \A x \in Slots : calls'[x].op \in {"list", "retry", "delete"} => calls'[x].heard,
           \A x \in Slots : calls'[x].op = "list" /\ calls'[x].step = "ok" /\ calls'[x].order > 0 =>
                              calls'[x].view = Listing' \/ calls'[x] = calls[x],
           \A n \in 0 .. Served : (\E x \in Slots : Later(x, n)) => \E x \in Slots : Later(x, n)',
           \A r \in Known' : Follows(r)
    PROVE  FreshInv'
  <1>0. calls \in [Slots -> Calls] /\ Served \in Nat /\ \A s \in Slots : calls[s].order \in 0 .. Served
    <2>1. calls \in [Slots -> Calls]
      BY DEF TypeInv, TypeOK
    <2>2. \A s \in Slots : calls[s].order \in Nat
      BY <2>1 DEF Calls
    <2> QED BY <2>1, <2>2, ServedIsGreatest
  <1>1. ASSUME NEW view, NEW n \in 0 .. Served, \A r \in Known : Shown(view, n, r),
               NEW r \in Known'
        PROVE  \/ view[r] = Listing'[r] \/ view[r] \in NonTerminal
               \/ \E x \in Slots : Later(x, n)'
               \/ Completing(r)'
    <2>1. Follows(r)
      OBVIOUS
    <2>2. CASE r \in Known
      <3>1. Shown(view, n, r)
        BY <1>1, <2>2
      <3> QED BY <2>1, <3>1 DEF Follows, Shown
    <2>3. CASE r \notin Known
      BY <2>1, <2>3 DEF Follows
    <2> QED BY <2>2, <2>3
  <1>2. \A r \in Known' : \/ list'[r] = Listing'[r] \/ list'[r] \in NonTerminal
                          \/ \E x \in Slots : Later(x, 0)'
                          \/ Completing(r)'
    <2>1. 0 \in 0 .. Served /\ \A r \in Known : Shown(list, 0, r)
      BY <1>0 DEF FreshInv
    <2> QED BY <1>1, <2>1
  <1>3. ASSUME NEW s \in Slots,
               calls'[s].op = "list" /\ calls'[s].step = "ok" /\ calls'[s].order > 0,
               NEW r \in Known'
        PROVE  \/ calls'[s].view[r] = Listing'[r] \/ calls'[s].view[r] \in NonTerminal
               \/ \E x \in Slots : Later(x, calls[s].order)' /\ calls'[s] = calls[s]
               \/ Completing(r)'
    <2>1. CASE calls'[s].view = Listing'
      BY <2>1
    <2>2. CASE calls'[s] = calls[s]
      <3>1. PICK n \in 0 .. Served : n = calls[s].order
        BY <1>0
      <3>2. \A q \in Known : Shown(calls[s].view, n, q)
        BY <1>3, <2>2, <3>1 DEF FreshInv
      <3>3. PICK view : view = calls[s].view
        OBVIOUS
      <3> QED BY <1>1, <2>2, <3>1, <3>2, <3>3
    <2> QED BY <1>3, <2>1, <2>2
  <1> QED BY <1>2, <1>3 DEF FreshInv, Shown

\* A step that changes one call and not the list shown.
LEMMA FreshCall ==
    ASSUME PracticeAssumption, TypeInv, FreshInv, page, ~muddled, list' = list,
           NEW s \in Slots, NEW call, Send(s, call),
           call.op \in {"list", "retry", "delete"} => call.heard,
           call.op = "list" /\ call.step = "ok" /\ call.order > 0 => call.view = Listing',
           \A n \in 0 .. Served :
             Later(s, n) => /\ call.op \in {"list", "retry", "delete"}
                            /\ call.op = "list" /\ call.step = "ok" => call.order = 0 \/ call.order > n,
           \A r \in Known' : Follows(r)
    PROVE  FreshInv'
  <1>1. calls'[s] = call /\ \A x \in Slots : x # s => calls'[x] = calls[x]
    BY DEF Send, TypeInv, TypeOK
  <1>2. \A x \in Slots : calls'[x].op \in {"list", "retry", "delete"} => calls'[x].heard
    BY <1>1 DEF FreshInv
  <1>3. \A x \in Slots : calls'[x].op = "list" /\ calls'[x].step = "ok" /\ calls'[x].order > 0 =>
                           calls'[x].view = Listing' \/ calls'[x] = calls[x]
    BY <1>1
  <1>4. ASSUME NEW n \in 0 .. Served, NEW x \in Slots, Later(x, n) PROVE Later(x, n)'
    <2>1. CASE x = s
      BY <1>1, <1>4, <2>1 DEF Later
    <2>2. CASE x # s
      BY <1>1, <1>4, <2>2 DEF Later
    <2> QED BY <2>1, <2>2
  <1> QED BY <1>2, <1>3, <1>4, FreshOn

\* A call just sent brings a list served later than any now under way.
LEMMA SentIsLater ==
    ASSUME TypeInv, NEW s \in Slots, NEW op \in {"list", "retry", "delete"}, NEW take, NEW rec,
           Send(s, CallOf(op, take, rec))
    PROVE  \A n : Later(s, n)'
  <1>1. calls'[s].op = op /\ calls'[s].heard /\ calls'[s].step = "sent"
    BY DEF Send, TypeInv, TypeOK, CallOf
  <1> QED BY <1>1 DEF Later

LEMMA FreshRecords ==
    ASSUME PracticeAssumption, TypeInv, FreshInv, Records PROVE FreshInv'
  <1>1. CASE Leave
    BY <1>1 DEF Leave, FreshInv
  <1>2. CASE ~Leave
    <2>1. UNCHANGED <<page, calls, up, rows, list, muddled, unheard>>
      BY <1>2, RecordsFrame DEF outside, shownVars, ghosts
    <2> QED BY <2>1 DEF FreshInv, Shown, Later, Completing, Known, Past, Listing
  <1> QED BY <1>1, <1>2

LEMMA FreshTransports ==
    ASSUME PracticeAssumption, TypeInv, FreshInv, NEW s \in Slots, Transports(s)
    PROVE  FreshInv'
  <1>0. /\ page' = page /\ muddled' = muddled /\ list' = list /\ rows' = rows
        /\ calls \in [Slots -> Calls] /\ up \in Uploads
        /\ unheard \subseteq unheard'
        /\ NoUpload.phase = "none"
    <2>1. page' = page /\ muddled' = muddled /\ list' = list /\ unheard \subseteq unheard'
      BY DEF Transports, Upload, TrimDone, CreateAnswered, PutAnswered, CompleteAnswered,
             UploadRefused, UploadLost, CancelUpload, ghosts, unmoved, shownVars
    <2> QED BY <2>1, OtherRows DEF TypeInv, TypeOK, NoUpload
  <1>1. Listing' = Listing /\ \A r \in Known' : r \in Known
    BY <1>0 DEF Listing, Known, Past
  <1>2. SUFFICES ASSUME page, ~muddled PROVE FreshInv'
    BY <1>0 DEF FreshInv
  <1>3. /\ Idle.op = "idle"
        /\ \A op, take, rec : /\ CallOf(op, take, rec).op = op /\ CallOf(op, take, rec).heard
                              /\ CallOf(op, take, rec).step = "sent"
    BY DEF CallOf, Idle
  <1>4. /\ \A op \in {"create", "put", "complete"} : Waits(s, op) => up.phase = op /\ up.slot = s
        /\ \A n : Later(s, n) => calls[s].op \in {"list", "retry", "delete"}
    BY DEF TypeInv, UpInv, Waits, Later
  <1>5. ASSUME calls[s].op \notin {"list", "retry", "delete"}, NEW call, Send(s, call),
               call.op \notin {"list", "retry", "delete"},
               \A r \in Known' : Completing(r) => Completing(r)'
        PROVE  FreshInv'
    BY <1>0, <1>1, <1>2, <1>4, <1>5, FreshCall DEF Follows
  <1>6. CASE Upload(s)
    <2>1. up.phase = "none"
      BY <1>6, NoneUnderWay DEF Upload
    <2> QED BY <1>3, <1>5, <1>6, <2>1 DEF Upload, Begin, Free, Completing
  <1>7. CASE TrimDone(s)
    BY <1>3, <1>5, <1>7 DEF TrimDone, Begin, Free, Completing
  <1>8. CASE CreateAnswered(s) \/ PutAnswered(s)
    <2>1. PICK phase, r : phase \in {"put", "complete"} /\ Continues(s, phase, r)
      BY <1>8 DEF CreateAnswered, PutAnswered
    <2>2. up.phase \in {"create", "put"} /\ calls[s].op \in {"create", "put"}
      BY <1>4, <1>8 DEF CreateAnswered, PutAnswered, Waits
    <2> QED BY <1>3, <1>5, <2>1, <2>2 DEF Continues, Completing
  <1>9. CASE CompleteAnswered(s)
    <2>1. Send(s, CallOf("list", NoTake, NoRec)) /\ calls[s].op = "complete"
      BY <1>2, <1>9 DEF CompleteAnswered, Waits
    <2>2. \A r \in Known' : Follows(r)
      BY <2>1, SentIsLater DEF Follows
    <2> QED BY <1>0, <1>2, <1>3, <1>4, <2>1, <2>2, FreshCall
  <1>10. CASE UploadRefused(s)
    <2>1. calls[s].step = "refused" /\ calls[s].op \in {"create", "put", "complete"}
          /\ Send(s, Idle) /\ up.slot = s
      BY <1>4, <1>10 DEF UploadRefused, Waits
    <2> QED BY <1>3, <1>5, <2>1 DEF Completing
  <1>11. CASE UploadLost(s)
    <2>1. /\ up.slot = s /\ calls[s].op = up.phase /\ calls[s].op \in {"create", "put", "complete"}
          /\ Send(s, Idle) \/ Send(s, Unheard(calls[s]))
          /\ calls[s].op = "complete" => unheard' = unheard \cup {up.take}
      BY <1>4, <1>11 DEF UploadLost, Waits
    <2>2. Unheard(calls[s]).op \in {"idle", calls[s].op}
      BY <1>0, <1>3 DEF Unheard, Calls
    <2>3. \A r \in Known' : ~Completing(r)
      BY <1>0, <2>1, HandleCompletes DEF Completing, Known
    <2> QED BY <1>3, <1>5, <2>1, <2>2, <2>3
  <1>12. CASE CancelUpload(s)
    <2>1. up.phase = "put" /\ calls[s].op = "put" /\ (Send(s, Idle) \/ Send(s, Unheard(calls[s])))
      BY <1>12 DEF CancelUpload, TypeInv, UpInv
    <2>2. Unheard(calls[s]).op \in {"idle", "put"}
      BY <1>0, <1>3, <2>1 DEF Unheard, Calls
    <2> QED BY <1>3, <1>5, <2>1, <2>2 DEF Completing
  <1> QED BY <1>6, <1>7, <1>8, <1>9, <1>10, <1>11, <1>12 DEF Transports

LEMMA FreshLists ==
    ASSUME PracticeAssumption, TypeInv, FreshInv, NEW s \in Slots, Lists(s)
    PROVE  FreshInv'
  <1>0. /\ page' = page /\ rows' = rows /\ calls \in [Slots -> Calls] /\ unheard' = unheard
        /\ muddled => muddled'
        /\ up' = up \/ (up.phase = "reload" /\ up'.phase = "none")
    <2>1. page' = page /\ unheard' = unheard
          /\ (up' = up \/ (up.phase = "reload" /\ up' = NoUpload))
      BY DEF Lists, Poll, Retry, Delete, Mutates, MutationAnswered, ListAnswered,
             AttemptsCallFails, ReloadEnds, aside, ghosts
    <2>2. muddled => muddled'
      BY DEF Lists, Poll, Retry, Delete, Mutates, MutationAnswered, ListAnswered,
             AttemptsCallFails, shownVars
    <2> QED BY <2>1, <2>2, OtherRows DEF TypeInv, TypeOK, NoUpload
  <1>1. Listing' = Listing /\ Known' = Known
    BY <1>0 DEF Listing, Known, Past
  <1>2. SUFFICES ASSUME page, ~muddled, ~muddled' PROVE FreshInv'
    BY <1>0 DEF FreshInv
  <1>3. /\ Idle.op = "idle"
        /\ \A op, take, rec : /\ CallOf(op, take, rec).op = op /\ CallOf(op, take, rec).heard
                              /\ CallOf(op, take, rec).step = "sent"
    BY DEF CallOf, Idle
  <1>4. ASSUME NEW op \in {"list", "retry", "delete"}, NEW rec, Send(s, CallOf(op, NoTake, rec)),
               list' = list
        PROVE  FreshInv'
    <2>1. \A n : Later(s, n)'
      BY <1>4, SentIsLater
    <2>2. \A r \in Known' : Follows(r)
      BY <2>1 DEF Follows
    <2> QED BY <1>2, <1>3, <1>4, <2>2, FreshCall
  <1>5. CASE Poll(s) \/ Retry(s) \/ Delete(s) \/ MutationAnswered(s)
    BY <1>4, <1>5 DEF Poll, Retry, Delete, Mutates, MutationAnswered, shownVars
  <1>6. CASE AttemptsCallFails(s)
    BY <1>2, <1>6 DEF AttemptsCallFails
  <1>7. CASE ListAnswered(s)
    <2>1. PICK o \in Nat : o = calls[s].order
      BY <1>0 DEF Calls
    <2>2. /\ o > 0 /\ calls[s].op = "list" /\ calls[s].step = "ok"
          /\ list' = calls[s].view /\ calls' = Overtakes(s)
      <3>1. ~(calls[s].order = 0)
        BY <1>2, <1>7 DEF ListAnswered
      <3> QED BY <1>7, <2>1, <3>1 DEF ListAnswered
    <2>3. \A x \in Slots : calls[x].order \in Nat
      BY <1>0 DEF Calls
    <2>4. /\ calls'[s] = Idle
          /\ \A x \in Slots : x # s /\ (calls[x].op # "list" \/ calls[x].order = 0 \/ calls[x].order >= o) =>
                                calls'[x] = calls[x]
          /\ \A x \in Slots : x # s /\ calls[x].op = "list" /\ 0 < calls[x].order /\ calls[x].order < o =>
                                calls'[x] = [calls[x] EXCEPT !.order = 0]
      BY <2>1, <2>2, <2>3 DEF Overtakes
    <2>5. \A x \in Slots : calls'[x].op \in {"list", "retry", "delete"} => calls'[x].heard
      <3>1. ASSUME NEW x \in Slots, calls'[x].op \in {"list", "retry", "delete"}
            PROVE  calls'[x].heard
        <4>1. x # s
          BY <1>3, <2>4, <3>1
        <4>2. CASE calls'[x] = calls[x]
          BY <1>2, <3>1, <4>2 DEF FreshInv
        <4>3. CASE calls'[x] # calls[x]
          <5>1. calls'[x] = [calls[x] EXCEPT !.order = 0] /\ calls[x].op = "list"
            BY <2>1, <2>3, <2>4, <4>1, <4>3
          <5>2. calls[x].heard
            BY <1>2, <5>1 DEF FreshInv
          <5> QED BY <1>0, <5>1, <5>2 DEF Calls
        <4> QED BY <4>2, <4>3
      <3> QED BY <3>1
    <2>6. ASSUME NEW x \in Slots, NEW n \in Nat, n >= o, Later(x, n) PROVE Later(x, n)' /\ Later(x, 0)'
      <3>1. x # s
        BY <2>1, <2>2, <2>6 DEF Later
      <3>2. calls[x].op # "list" \/ calls[x].order = 0 \/ calls[x].order > n \/ calls[x].step # "ok"
        BY <2>6 DEF Later
      <3>3. CASE calls'[x] = calls[x]
        BY <2>1, <2>2, <2>3, <2>6, <3>3 DEF Later
      <3>4. CASE calls'[x] # calls[x]
        <4>1. calls'[x] = [calls[x] EXCEPT !.order = 0]
          BY <2>1, <2>3, <2>4, <3>1, <3>4
        <4>2. calls[x] \in Calls
          BY <1>0
        <4>3. /\ calls'[x].op = calls[x].op /\ calls'[x].heard = calls[x].heard
              /\ calls'[x].order = 0
          BY <4>1, <4>2 DEF Calls
        <4> QED BY <2>6, <4>3 DEF Later
      <3> QED BY <3>3, <3>4
    <2>7. ASSUME NEW view, NEW n \in Nat, n >= o, NEW r \in Known', Shown(view, n, r)
          PROVE  Shown(view, n, r)' /\ Shown(view, 0, r)'
      <3>1. Completing(r) => Completing(r)'
        <4>1. ASSUME Completing(r) PROVE up' = up /\ calls'[up.slot] = calls[up.slot]
          <5>1. up.slot \in Slots /\ calls[up.slot].op = "complete" /\ up.phase = "complete"
            BY <4>1, HandleCompletes DEF Completing
          <5> QED BY <1>0, <2>2, <2>4, <5>1
        <4> QED BY <4>1 DEF Completing
      <3>2. (\E x \in Slots : Later(x, n)) => (\E x \in Slots : Later(x, n)') /\ \E x \in Slots : Later(x, 0)'
        BY <2>6, <2>7
      <3> QED BY <1>1, <2>7, <3>1, <3>2 DEF Shown
    <2>8. ASSUME NEW r \in Known' PROVE Shown(list, 0, r)'
      <3>1. PICK view : view = calls[s].view
        OBVIOUS
      <3>2. Shown(view, o, r)
        BY <1>1, <1>2, <2>1, <2>2, <2>8, <3>1 DEF FreshInv
      <3>3. Shown(view, 0, r)' /\ list' = view
        BY <2>2, <2>7, <3>1, <3>2
      <3> QED BY <3>3 DEF Shown
    <2>9. ASSUME NEW x \in Slots,
                 calls'[x].op = "list" /\ calls'[x].step = "ok" /\ calls'[x].order > 0,
                 NEW r \in Known'
          PROVE  Shown(calls[x].view, calls[x].order, r)' 
      <3>1. calls'[x] = calls[x] /\ calls[x].order >= o
        <4>1. x # s
          BY <1>3, <2>4, <2>9
        <4>2. calls'[x] = calls[x]
          <5>1. SUFFICES ASSUME calls'[x] # calls[x] PROVE FALSE
            OBVIOUS
          <5>2. calls'[x] = [calls[x] EXCEPT !.order = 0]
            BY <2>1, <2>3, <2>4, <4>1, <5>1
          <5> QED BY <1>0, <2>9, <5>2 DEF Calls
        <4>3. ~(calls[x].order < o)
          <5>1. SUFFICES ASSUME calls[x].order < o PROVE FALSE
            OBVIOUS
          <5>2. calls'[x] = [calls[x] EXCEPT !.order = 0]
            BY <2>3, <2>4, <2>9, <4>1, <4>2, <5>1
          <5> QED BY <1>0, <2>9, <5>2 DEF Calls
        <4> QED BY <2>1, <2>3, <4>2, <4>3
      <3>2. PICK n \in Nat : n = calls[x].order
        BY <2>3
      <3>3. PICK view : view = calls[x].view
        OBVIOUS
      <3>4. Shown(view, n, r)
        BY <1>1, <1>2, <2>9, <3>1, <3>2, <3>3 DEF FreshInv
      <3>5. Shown(view, n, r)'
        BY <2>7, <3>1, <3>2, <3>4
      <3> QED BY <3>1, <3>2, <3>5, <3>3 DEF Shown
    <2> QED BY <2>5, <2>8, <2>9 DEF FreshInv
  <1> QED BY <1>5, <1>6, <1>7 DEF Lists

LEMMA FreshServes ==
    ASSUME PracticeAssumption, TypeInv, TakeInv, FreshInv, RowsKeep, \A r \in Recs : RowMoves(r),
           NEW s \in Slots, Serves(s)
    PROVE  FreshInv'
  <1>0. /\ page' = page /\ muddled' = muddled /\ list' = list /\ up' = up /\ unheard' = unheard
        /\ calls \in [Slots -> Calls] /\ rows \in [Recs -> Rows] /\ calls[s] \in Calls
    BY DEF Serves, CheckStagingCapacity, InsertRecording, KeepKey, PutObject,
           Complete, RetryRecording, DeleteRecording, ListRecordings, CallDies, OtherCreates,
           Refuses, kept, shownVars, ghosts, TypeInv, TypeOK
  <1>1. SUFFICES ASSUME page, ~muddled PROVE FreshInv'
    BY <1>0 DEF FreshInv
  <1>2. \A r \in Recs : Completing(r) => Completing(r)'
    BY <1>0, ServedCalls, HandleCompletes DEF Completing
  <1>3. ASSUME NEW r \in Known', rows'[r].status = rows[r].status PROVE Follows(r)
    <2>1. r \in Recs /\ Listing'[r] = Listing[r] /\ r \in Past
      BY <1>3 DEF Known, Past, Listing
    <2>2. rows'[r].take = rows[r].take
      BY <2>1 DEF RowsKeep, Exists, Past
    <2> QED BY <1>0, <1>2, <1>3, <2>1, <2>2 DEF Follows, Known
  <1>4. ASSUME NEW step, Steps(s, step), step # "ok" \/ calls[s].op # "list",
               \A r \in Known' : Follows(r)
        PROVE  FreshInv'
    <2>1. PICK call : /\ Send(s, call)
                      /\ call = IF step \in {"ok", "refused"} THEN Answered(calls[s], step)
                                ELSE [calls[s] EXCEPT !.step = step]
      BY <1>4 DEF Steps
    <2>2. calls[s].op \in {"list", "retry", "delete"} => calls[s].heard
      BY <1>1 DEF FreshInv
    <2>3. \/ call.op = calls[s].op /\ call.heard = calls[s].heard /\ call.step = step
          \/ call.op = "idle" /\ ~calls[s].heard
      BY <1>0, <2>1 DEF Calls, Answered, Idle, CallOf
    <2>4. \A n \in 0 .. Served :
            Later(s, n) => /\ call.op \in {"list", "retry", "delete"}
                           /\ ~(call.op = "list" /\ call.step = "ok")
      BY <1>4, <2>3 DEF Later
    <2>5. call.op = "list" => call.step # "ok"
      BY <1>4, <2>3
    <2> QED BY <1>0, <1>1, <1>4, <2>1, <2>2, <2>3, <2>4, <2>5, FreshCall
  <1>5. ASSUME rows' = rows PROVE \A r \in Known' : Follows(r)
    BY <1>3, <1>5
  <1>6. CASE Refuses(s)
    BY <1>4, <1>5, <1>6 DEF Refuses
  <1>7. CASE CheckStagingCapacity(s)
    BY <1>4, <1>5, <1>7 DEF CheckStagingCapacity
  <1>8. CASE InsertRecording(s) /\ ~Refuses(s)
    <2>1. PICK q \in Recs :
            /\ rows[q].status = "none"
            /\ rows' = [rows EXCEPT ![q] = [status |-> "STAGING", key |-> "pending",
                                            object |-> FALSE, take |-> calls[s].take]]
            /\ Send(s, [calls[s] EXCEPT !.step = "inserted", !.rec = q])
      BY <1>8 DEF InsertRecording, Send
    <2>2. PICK call : call = [calls[s] EXCEPT !.step = "inserted", !.rec = q]
      OBVIOUS
    <2>3. call.op = "create" /\ calls[s].op = "create" /\ Send(s, call)
      BY <1>0, <1>8, <2>1, <2>2 DEF Calls, InsertRecording
    <2>4. ASSUME NEW r \in Known' PROVE Follows(r)
      <3>1. r # q /\ r \in Recs
        BY <1>0, <2>1, <2>4 DEF Known, Past
      <3> QED BY <1>0, <1>3, <2>1, <2>4, <3>1
    <2>5. \A n : ~Later(s, n)
      BY <2>3 DEF Later
    <2> QED BY <1>0, <1>1, <2>3, <2>4, <2>5, FreshCall
  <1>9. CASE KeepKey(s) \/ (PutObject(s) /\ ~Refuses(s))
    <2>1. Steps(s, "ok") /\ calls[s].op \in {"create", "put"}
      BY <1>9 DEF KeepKey, PutObject
    <2>2. \A r \in Recs : rows'[r].status = rows[r].status
      BY <1>0, <1>9 DEF KeepKey, PutObject, Rows
    <2>3. \A r \in Known' : Follows(r)
      BY <1>3, <2>2 DEF Known, Past
    <2> QED BY <1>4, <2>1, <2>3
  <1>10. CASE Complete(s) /\ ~Refuses(s)
    <2>1. Steps(s, "ok") /\ calls[s].op = "complete"
      BY <1>10 DEF Complete
    <2>2. ASSUME NEW r \in Known' PROVE Follows(r)
      <3>1. CASE rows'[r].status = rows[r].status
        BY <1>3, <2>2, <3>1
      <3>2. CASE rows'[r].status # rows[r].status
        <4>1. r = calls[s].rec
          <5>1. PICK c : c = calls[s].rec
            OBVIOUS
          <5>2. r \in Recs
            BY <2>2 DEF Known, Past
          <5>3. rows' = [rows EXCEPT ![c] = [rows[c] EXCEPT !.status = "QUEUED"]]
            BY <1>10, <3>2, <5>1 DEF Complete
          <5> QED BY <1>0, <3>2, <5>1, <5>2, <5>3
        <4>2. rows[r].take = calls[s].take /\ rows'[r].take = rows[r].take
          BY <2>1, <4>1 DEF TypeInv, NamedInv, NamedCall, Carrying, RowsKeep, Exists
        <4>3. calls[s].heard
          BY <1>0, <2>1, <2>2, <4>2 DEF TakeInv, Known
        <4>4. up.slot = s /\ up.phase = "complete"
          BY <2>1, <4>3 DEF TypeInv, UpInv
        <4>5. up.rec = r
          BY <4>1, <4>4, HandleCompletes
        <4>6. calls'[s].step = "ok"
          BY <1>0, <2>1, <4>3 DEF Steps, Send, Answered, Calls
        <4> QED BY <1>0, <4>4, <4>5, <4>6 DEF Completing, Follows
      <3> QED BY <3>1, <3>2
    <2> QED BY <1>4, <2>1, <2>2
  <1>11. CASE (RetryRecording(s) \/ DeleteRecording(s)) /\ ~Refuses(s)
    <2>1. Steps(s, "ok") /\ calls[s].op \in {"retry", "delete"}
      BY <1>11 DEF RetryRecording, DeleteRecording
    <2>2. calls[s].heard
      BY <1>1, <2>1 DEF FreshInv
    <2>3. calls'[s].op \in {"retry", "delete"} /\ calls'[s].heard
      BY <1>0, <2>1, <2>2 DEF Steps, Send, Answered, Calls
    <2>4. \A n : Later(s, n)'
      BY <2>3 DEF Later
    <2> QED BY <1>4, <2>1, <2>4 DEF Follows
  <1>12. CASE ListRecordings(s)
    <2>1. PICK call : /\ Send(s, call)
                      /\ call = Answered([calls[s] EXCEPT !.view = Listing, !.order = 1 + Served], "ok")
      BY <1>12 DEF ListRecordings
    <2>2. calls[s].op = "list" /\ calls[s].heard /\ rows' = rows
      BY <1>1, <1>12 DEF FreshInv, ListRecordings
    <2>3. Served \in Nat
      BY <1>0, ServedIsGreatest
    <2>4. /\ call.op = "list" /\ call.heard /\ call.view = Listing /\ call.order = 1 + Served
      BY <1>0, <2>1, <2>2 DEF Calls, Answered
    <2>5. Listing' = Listing
      BY <2>2 DEF Listing
    <2>6. \A n \in 0 .. Served : call.order > n
      BY <2>3, <2>4
    <2> QED BY <1>0, <1>1, <1>5, <2>1, <2>2, <2>4, <2>5, <2>6, FreshCall
  <1>13. CASE OtherCreates(s)
    <2>1. PICK call : /\ Send(s, call) /\ calls[s].op = "idle" /\ rows' = rows
                      /\ call = [CallOf("create", NoTake, NoRec) EXCEPT !.heard = FALSE]
      BY <1>13 DEF OtherCreates, Free
    <2>2. call.op = "create"
      BY <2>1 DEF CallOf
    <2>3. \A n : ~Later(s, n)
      BY <2>1 DEF Later
    <2> QED BY <1>0, <1>1, <1>5, <2>1, <2>2, <2>3, FreshCall
  <1> QED
    BY <1>6, <1>7, <1>8, <1>9, <1>10, <1>11, <1>12, <1>13 DEF Serves, CallDies

LEMMA FreshWorker ==
    ASSUME PracticeAssumption, TypeInv, FreshInv, RowsKeep, NEW q \in Recs, WorkerMoves(q)
    PROVE  FreshInv'
  <1>0. /\ page' = page /\ muddled' = muddled /\ list' = list /\ up' = up /\ unheard' = unheard
        /\ calls' = calls /\ rows \in [Recs -> Rows]
    BY DEF WorkerMoves, kept, shownVars, ghosts, TypeInv, TypeOK
  <1>1. SUFFICES ASSUME page, ~muddled PROVE FreshInv'
    BY <1>0 DEF FreshInv
  <1>2. ASSUME NEW r \in Known' PROVE Follows(r)
    <2>1. r \in Recs /\ r \in Past
      BY <1>0, <1>2 DEF Known, Past, WorkerMoves
    <2>2. r \in Known
      BY <1>0, <1>2, <2>1 DEF Known, RowsKeep, Exists, Past
    <2>3. rows'[r] = rows[r] \/ rows[r].status = "QUEUED"
          \/ (rows[r].status = "DELETE_PENDING" /\ rows'[r].status = "DELETED")
      BY <1>0, <2>1 DEF WorkerMoves, Rows
    <2>4. Listing'[r] = Listing[r] \/ Listing[r] \in NonTerminal
      BY <2>1, <2>3 DEF Listing, NonTerminal
    <2> QED BY <1>0, <2>2, <2>4 DEF Follows, Completing
  <1> QED BY <1>0, <1>1, <1>2, FreshOn DEF FreshInv, Later

LEMMA InitFresh == Init => FreshInv
  BY DEF Init, FreshInv, Known, Past, Shown, Idle, CallOf

LEMMA FreshInvariant == Spec => []FreshInv
  <1>1. TypeInv /\ TakeInv /\ FreshInv /\ [Next]_vars => FreshInv'
    <2> SUFFICES ASSUME TypeInv, TakeInv, FreshInv, [Next]_vars PROVE FreshInv'
      OBVIOUS
    <2>0. PracticeAssumption
      BY PracticeAssumption
    <2>1. CASE UNCHANGED vars
      BY <2>1 DEF vars, shownVars, ghosts, FreshInv, Shown, Later, Completing, Known, Past, Listing
    <2>2. CASE TrimUpload \/ TrimFails
      <3>1. /\ UNCHANGED <<page, calls, rows, list, muddled, unheard>>
            /\ up.phase # "complete"
        BY <2>2 DEF TrimUpload, TrimFails, unmoved, shownVars, ghosts, Uploading
      <3> QED BY <3>1 DEF FreshInv, Shown, Later, Completing, Known, Past, Listing
    <2>3. CASE Next /\ ~(TrimUpload \/ TrimFails)
      <3>1. RowsKeep /\ \A r \in Recs : RowMoves(r)
        BY <2>0, <2>3, NextRows
      <3> QED
        BY <2>0, <2>3, <3>1, FreshRecords, FreshTransports, FreshLists, FreshServes, FreshWorker
           DEF Next
    <2> QED BY <2>1, <2>2, <2>3
  <1> QED BY <1>1, InitFresh, TypeInvariant, TakeInvariant, PTL DEF Spec

\* When the page has stopped polling, hears nothing more and lost or reordered no
\* answer, it shows every recording whose completion it heard of as the server
\* has it, in every reachable state.
THEOREM AttemptsAreShown == Spec => []AttemptsSettle
  <1>1. FreshInv => AttemptsSettle
    <2> SUFFICES ASSUME FreshInv, Settled, NEW r \in Past, rows[r].take \notin unheard
                 PROVE  list[r] = Listing[r]
      BY DEF AttemptsSettle
    <2>1. Shown(list, 0, r)
      BY DEF FreshInv, Known, Settled
    <2>2. \A s \in Slots : ~Later(s, 0)
      BY DEF Settled, Later
    <2>3. list[r] \notin NonTerminal
      BY DEF Settled, Polling, HasNonTerminal, Past
    <2> QED BY <2>1, <2>2, <2>3 DEF Shown, Completing, Settled
  <1> QED BY <1>1, FreshInvariant, PTL
=============================================================================
