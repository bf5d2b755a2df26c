----------------------------- MODULE PageProofs ------------------------------
(***************************************************************************)
(* Two promises of the drafts panel, one of the pages that load their list *)
(* again, one of the pages that patch it, and the types, for any number of *)
(* rows, of calls in flight and of calls made.                             *)
(*                                                                         *)
(* The drafts panel: a form's flag and its guard are told apart only by an *)
(* overlap, and every overlap leaves a trace (FormsTell): a save in flight *)
(* is up in "busy", so a form opened beside it knows.  The reloading pages:*)
(* whenever the list on show is not the database's, a change that will end *)
(* in a reload, or the reload itself, is still on its way (ListCurrent).   *)
(* The patching pages: the database's list is the page's with the calls in *)
(* flight laid over it (Overlay), or one call about the whole list is in   *)
(* flight alone (PatchInv).                                                *)
(***************************************************************************)
EXTENDS WebPages, TLAPS, SequenceTheorems, WellFoundedInduction, FiniteSetTheorems

\* A call is a record of these fields, whatever lists it carries.
IsCall(c) == c = [op |-> c.op, id |-> c.id, value |-> c.value, order |-> c.order,
                  base |-> c.base, filter |-> c.filter, step |-> c.step, answer |-> c.answer]
CallsShaped ==
    /\ calls = [s \in Slots |-> calls[s]]
    /\ \A s \in Slots : IsCall(calls[s])

\* Where the state's records have the shape their updates keep.
Shaped == CallsShaped /\ form \in Forms /\ query = [filter |-> query.filter, shown |-> query.shown]

-----------------------------------------------------------------------------
\* The calls of the drafts panel: a pending flag is up for each save and each
\* creation, and neither is started twice.
DraftCallsTell ==
    /\ \A s \in Slots :
        /\ calls[s].op \in {"idle", "create", "edit", "delete", "reorder"}
        /\ calls[s].op = "create" => calls[s].id = NoId /\ <<"create", NoId>> \in busy
        /\ calls[s].op = "edit" => calls[s].id \in Ids /\ <<"edit", calls[s].id>> \in busy
    /\ \A s, t \in Slots :
        calls[s].op = calls[t].op /\ calls[s].op \in {"create", "edit"} => s = t
    /\ <<"create", NoId>> \in busy => form.creating

\* What the forms' ghosts tell.
FormsTell ==
    /\ ~form.crossed => (form.guard <=> form.creating \/ form.editing # NoId)
    /\ form.creating /\ form.editing # NoId => form.crossed
    /\ form.creating /\ Saving => form.crossed
    /\ \A s \in Slots : calls[s].op = "edit" /\ form.editing \notin {calls[s].id, NoId} => form.risky

DraftsTell == page = "drafts" => DraftCallsTell /\ FormsTell
DraftsInv == Shaped /\ DraftsTell

-----------------------------------------------------------------------------
\* A change the database has and the page does not know of yet.
Unheard(c) ==
    \/ c.op \in {"create", "delete", "flag", "reorder", "untag"} /\ c.step = "ok"
    \/ c.op = "tags"

\* The calls of the reloading pages: one load at a time, for the filter chosen.
LoadsTell ==
    /\ \A s, t \in Slots : calls[s].op = "load" /\ calls[t].op = "load" => s = t
    /\ \A s \in Slots : calls[s].op = "load" =>
        /\ calls[s].filter = query.filter
        /\ page = "users" => <<"load", NoId>> \in busy

\* Unless a change is unheard, the list on show is the database's or a load is
\* on its way that is not stale.
ListCurrent ==
    \/ \E s \in Slots : Unheard(calls[s])
    \/ /\ \A s \in Slots : calls[s].op = "load" /\ calls[s].step = "ok"
                             => calls[s].answer = Filtered(server, calls[s].filter)
       /\ \/ \E s \in Slots : calls[s].op = "load"
          \/ query.shown = query.filter /\ items = Filtered(server, query.filter)

ReloadOps == {"idle", "load", "tags", "create", "delete", "flag", "reorder", "untag"}
ReloadsTell ==
    page \in {"library", "users", "detail"} =>
        /\ \A s \in Slots : calls[s].op \in ReloadOps
        /\ ~lost /\ ~clash => LoadsTell /\ ListCurrent
ReloadInv == Shaped /\ ReloadsTell

-----------------------------------------------------------------------------
\* An update of one field of a call leaves a call with its other fields.
LEMMA StepShaped ==
    ASSUME NEW c, IsCall(c), NEW v
    PROVE  LET d == [c EXCEPT !.step = v] IN
             /\ IsCall(d) /\ d.step = v
             /\ d.op = c.op /\ d.id = c.id /\ d.value = c.value /\ d.order = c.order
             /\ d.base = c.base /\ d.filter = c.filter /\ d.answer = c.answer
  BY DEF IsCall

LEMMA AnswerShaped ==
    ASSUME NEW c, IsCall(c), NEW v
    PROVE  LET d == [c EXCEPT !.answer = v] IN
             /\ IsCall(d) /\ d.answer = v
             /\ d.op = c.op /\ d.id = c.id /\ d.value = c.value /\ d.order = c.order
             /\ d.base = c.base /\ d.filter = c.filter /\ d.step = c.step
  BY DEF IsCall

LEMMA FilterShaped ==
    ASSUME NEW c, IsCall(c), NEW v
    PROVE  LET d == [c EXCEPT !.filter = v] IN
             /\ IsCall(d) /\ d.filter = v
             /\ d.op = c.op /\ d.id = c.id /\ d.value = c.value /\ d.order = c.order
             /\ d.base = c.base /\ d.step = c.step /\ d.answer = c.answer
  BY DEF IsCall

LEMMA ValueShaped ==
    ASSUME NEW c, IsCall(c), NEW v
    PROVE  LET d == [c EXCEPT !.value = v] IN
             /\ IsCall(d) /\ d.value = v
             /\ d.op = c.op /\ d.id = c.id /\ d.order = c.order /\ d.base = c.base
             /\ d.filter = c.filter /\ d.step = c.step /\ d.answer = c.answer
  BY DEF IsCall

LEMMA OrderShaped ==
    ASSUME NEW c, IsCall(c), NEW v
    PROVE  LET d == [c EXCEPT !.order = v] IN
             /\ IsCall(d) /\ d.order = v
             /\ d.op = c.op /\ d.id = c.id /\ d.value = c.value /\ d.base = c.base
             /\ d.filter = c.filter /\ d.step = c.step /\ d.answer = c.answer
  BY DEF IsCall

LEMMA BaseShaped ==
    ASSUME NEW c, IsCall(c), NEW v
    PROVE  LET d == [c EXCEPT !.base = v] IN
             /\ IsCall(d) /\ d.base = v
             /\ d.op = c.op /\ d.id = c.id /\ d.value = c.value /\ d.order = c.order
             /\ d.filter = c.filter /\ d.step = c.step /\ d.answer = c.answer
  BY DEF IsCall

\* The calls the actions make.
LEMMA CallsMade ==
    ASSUME NEW op, NEW x
    PROVE  /\ IsCall(CallOf(op, x)) /\ CallOf(op, x).op = op /\ CallOf(op, x).id = x
           /\ CallOf(op, x).step = "sent"
  BY DEF IsCall, CallOf

LEMMA LoadsMade ==
    ASSUME NEW f
    PROVE  IsCall(LoadOf(f)) /\ LoadOf(f).op = "load" /\ LoadOf(f).id = NoId
           /\ LoadOf(f).filter = f /\ LoadOf(f).step = "sent"
  BY CallsMade, FilterShaped DEF LoadOf

LEMMA IdleMade == IsCall(Idle) /\ Idle.op = "idle"
  BY CallsMade DEF Idle

LEMMA InitShaped == Init => Shaped
  <1> SUFFICES ASSUME Init PROVE Shaped
    OBVIOUS
  <1>1. CallsShaped
    BY LoadsMade, IdleMade DEF Init, CallsShaped
  <1>2. form \in Forms
    BY DEF Init, NoForm, Forms
  <1>3. query = [filter |-> query.filter, shown |-> query.shown]
    BY DEF Init
  <1> QED
    BY <1>1, <1>2, <1>3 DEF Shaped

\* A step that replaces one call by a call keeps the calls' shape.
LEMMA OneCallShaped ==
    ASSUME CallsShaped, NEW s \in Slots, NEW c, IsCall(c), calls' = [calls EXCEPT ![s] = c]
    PROVE  /\ CallsShaped'
           /\ calls'[s] = c
           /\ \A x \in Slots \ {s} : calls'[x] = calls[x]
  <1>1. DOMAIN calls = Slots
    BY DEF CallsShaped
  <1>2. calls' = [x \in Slots |-> calls'[x]]
    BY <1>1
  <1>3. calls'[s] = c /\ \A x \in Slots \ {s} : calls'[x] = calls[x]
    BY <1>1
  <1>4. \A x \in Slots : IsCall(calls'[x])
    BY <1>3 DEF CallsShaped
  <1> QED
    BY <1>2, <1>3, <1>4 DEF CallsShaped, IsCall

\* A call served is the call, answered.
ServedBy(c, list) == [c EXCEPT !.step = "ok", !.answer = list]

LEMMA ServedShaped ==
    ASSUME NEW c, IsCall(c), NEW list
    PROVE  LET d == ServedBy(c, list) IN
             /\ IsCall(d) /\ d.step = "ok" /\ d.answer = list /\ d.op = c.op /\ d.id = c.id
             /\ d.value = c.value /\ d.order = c.order /\ d.base = c.base /\ d.filter = c.filter
  <1> DEFINE e == [c EXCEPT !.step = "ok"]
  <1>1. /\ IsCall(e) /\ e.step = "ok" /\ e.op = c.op /\ e.id = c.id
        /\ e.value = c.value /\ e.order = c.order /\ e.base = c.base /\ e.filter = c.filter
    BY StepShaped
  <1>2. ServedBy(c, list) = [e EXCEPT !.answer = list]
    BY DEF ServedBy
  <1> HIDE DEF e
  <1> QED
    BY <1>1, <1>2, AnswerShaped

\* The web process answers one call, and may change the list for one that is
\* about to be heard as done.
ServedCall(s) ==
    /\ CallsShaped' /\ UNCHANGED <<page, items, busy, made, clash, query, form>>
    /\ \A x \in Slots \ {s} : calls'[x] = calls[x]
    /\ calls'[s].op = calls[s].op /\ calls'[s].id = calls[s].id
    /\ calls'[s].filter = calls[s].filter /\ calls[s].op # "idle"
    /\ \/ /\ calls'[s].step = "refused" /\ server' = server
          /\ calls[s].step = "ok" => lost'
          /\ calls[s].step # "ok" => lost' = lost
       \/ /\ calls[s].step # "ok" /\ calls'[s].step = "ok" /\ lost' = lost
          /\ calls[s].op = "load" =>
               server' = server /\ calls'[s].answer = Filtered(server, calls[s].filter)
          /\ calls[s].op = "tags" => server' = server

LEMMA ServeServes ==
    ASSUME Shaped, NEW s \in Slots, Serve(s) \/ LoseAnswer(s)
    PROVE  ServedCall(s)
  <1>0. CallsShaped /\ IsCall(calls[s])
    BY DEF Shaped, CallsShaped
  <1>1. CASE LoseAnswer(s)
    <2> DEFINE c == [calls[s] EXCEPT !.step = "refused"]
    <2>1. calls' = [calls EXCEPT ![s] = c]
      BY <1>1 DEF LoseAnswer
    <2>2. IsCall(c) /\ c.op = calls[s].op /\ c.id = calls[s].id /\ c.filter = calls[s].filter
          /\ c.step = "refused"
      BY <1>0, StepShaped
    <2> HIDE DEF c
    <2> QED
      BY <1>0, <1>1, <2>1, <2>2, OneCallShaped DEF LoseAnswer, ServedCall
  <1>2. CASE Serve(s) /\ RefusesList(s)
    <2> DEFINE c == [calls[s] EXCEPT !.step = "refused"]
    <2>1. calls' = [calls EXCEPT ![s] = c]
      BY <1>2 DEF RefusesList
    <2>2. IsCall(c) /\ c.op = calls[s].op /\ c.id = calls[s].id /\ c.filter = calls[s].filter
          /\ c.step = "refused"
      BY <1>0, StepShaped
    <2> HIDE DEF c
    <2> QED
      BY <1>0, <1>2, <2>1, <2>2, OneCallShaped DEF RefusesList, Serve, ServedCall
  <1>3. CASE Serve(s) /\ ServesList(s)
    <2>1. PICK list : Answers(s, list) /\ (calls[s].op = "load" =>
                        server' = server /\ list = Filtered(server, calls[s].filter))
      BY <1>3 DEF ServesList
    <2> DEFINE c == ServedBy(calls[s], list)
    <2>2. calls' = [calls EXCEPT ![s] = c]
      BY <2>1 DEF Answers, ServedBy
    <2>3. IsCall(c) /\ c.op = calls[s].op /\ c.id = calls[s].id /\ c.filter = calls[s].filter
          /\ c.step = "ok" /\ c.answer = list
      BY <1>0, ServedShaped
    <2>4. /\ calls[s].op # "idle" /\ calls[s].step = "sent"
          /\ calls[s].op = "tags" => server' = server
          /\ UNCHANGED <<page, items, busy, made, lost, clash, query, form>>
      BY <1>3 DEF ServesList, Serve
    <2> HIDE DEF c
    <2> QED
      BY <1>0, <2>1, <2>2, <2>3, <2>4, OneCallShaped DEF ServedCall
  <1> QED
    BY <1>1, <1>2, <1>3 DEF Serve

\* A call started.
LEMMA StartsShaped ==
    ASSUME CallsShaped, NEW s \in Slots, NEW c, IsCall(c), NEW flags, Starts(s, c, flags)
    PROVE  /\ CallsShaped' /\ calls[s].op = "idle" /\ calls'[s] = c
           /\ \A x \in Slots \ {s} : calls'[x] = calls[x]
           /\ busy' = busy \cup flags /\ page' = page /\ server' = server /\ lost' = lost
           /\ clash => clash'
  BY OneCallShaped DEF Starts, Free

\* A call ended.
LEMMA EndsShaped ==
    ASSUME CallsShaped, NEW s \in Slots, NEW flags, Ends(s, flags)
    PROVE  /\ CallsShaped' /\ calls'[s] = Idle
           /\ \A x \in Slots \ {s} : calls'[x] = calls[x]
           /\ busy' = busy \ flags /\ page' = page /\ server' = server /\ clash' = clash
  BY IdleMade, OneCallShaped DEF Ends

\* Calls replaced together.
LEMMA CallsReplaced ==
    ASSUME NEW f, \A x \in Slots : IsCall(f[x]), f = [x \in Slots |-> f[x]], calls' = f
    PROVE  CallsShaped'
  BY DEF CallsShaped, IsCall

LEMMA ReloadsShaped ==
    ASSUME CallsShaped, NEW s \in Slots, NEW f, NEW flags, Reloads(s, f, flags)
    PROVE  /\ CallsShaped' /\ calls'[s] = LoadOf(f)
           /\ \A x \in Slots \ {s} : calls'[x] = IF x \in Cancelled THEN Idle ELSE calls[x]
           /\ page' = page /\ server' = server /\ items' = items /\ lost' = lost
  <1> DEFINE g == [x \in Slots |-> IF x = s THEN LoadOf(f)
                                   ELSE IF x \in Cancelled THEN Idle ELSE calls[x]]
  <1>1. \A x \in Slots : IsCall(g[x])
    BY LoadsMade, IdleMade DEF CallsShaped
  <1>2. g = [x \in Slots |-> g[x]]
    OBVIOUS
  <1>3. calls' = g
    BY DEF Reloads
  <1>4. CallsShaped'
    BY <1>1, <1>2, <1>3, CallsReplaced
  <1> QED
    BY <1>4, <1>3 DEF Reloads

-----------------------------------------------------------------------------
\* Steps of the topic page.
LEMMA TopicKeepsShape ==
    ASSUME Shaped, NEW s \in Slots, TopicSteps(s)
    PROVE  CallsShaped' /\ page = "topic" /\ page' = page /\ UNCHANGED <<form, query>>
  <1> USE DEF Shaped
  <1>1. CASE MoveQuestion(s)
    <2>1. PICK k \in 1 .. Len(items) - 1 :
            Starts(s, [CallOf("reorder", NoId) EXCEPT !.order = IdsOf(Swapped(items, k))], {})
      BY <1>1 DEF MoveQuestion
    <2>2. IsCall([CallOf("reorder", NoId) EXCEPT !.order = IdsOf(Swapped(items, k))])
      BY CallsMade, OrderShaped
    <2> QED
      BY <1>1, <2>1, <2>2, StartsShaped DEF MoveQuestion, onTopic
  <1>2. CASE ToggleDrafted(s)
    <2>1. PICK k \in 1 .. Len(items) : \E v :
            Starts(s, [CallOf("flag", items[k].id) EXCEPT !.value = v, !.base = <<items[k]>>], {})
      BY <1>2 DEF ToggleDrafted
    <2>2. PICK v :
            Starts(s, [CallOf("flag", items[k].id) EXCEPT !.value = v, !.base = <<items[k]>>], {})
      BY <2>1
    <2> DEFINE c == [CallOf("flag", items[k].id) EXCEPT !.value = v]
    <2>3. IsCall(c)
      BY CallsMade, ValueShaped
    <2> HIDE DEF c
    <2>4. IsCall([c EXCEPT !.base = <<items[k]>>])
      BY <2>3, BaseShaped
    <2>5. Starts(s, [c EXCEPT !.base = <<items[k]>>], {})
      BY <2>2 DEF c
    <2> QED
      BY <1>2, <2>4, <2>5, StartsShaped DEF ToggleDrafted, onTopic
  <1>3. CASE AddQuestion(s)
    BY <1>3, CallsMade, StartsShaped DEF AddQuestion, onTopic
  <1>4. CASE BulkAddQuestions(s)
    BY <1>4, CallsMade, StartsShaped DEF BulkAddQuestions, onTopic
  <1>5. CASE EditQuestion(s)
    <2>1. PICK k \in 1 .. Len(items) :
            Starts(s, [CallOf("edit", items[k].id) EXCEPT !.value = ~items[k].text],
                   {<<"edit", items[k].id>>})
      BY <1>5 DEF EditQuestion
    <2>2. IsCall([CallOf("edit", items[k].id) EXCEPT !.value = ~items[k].text])
      BY CallsMade, ValueShaped
    <2> QED
      BY <1>5, <2>1, <2>2, StartsShaped DEF EditQuestion, onTopic
  <1>6. CASE DeleteQuestion(s)
    BY <1>6, CallsMade, StartsShaped DEF DeleteQuestion, onTopic
  <1>7. CASE TopicAnswered(s)
    BY <1>7, EndsShaped DEF TopicAnswered, onTopic
  <1> QED
    BY <1>1, <1>2, <1>3, <1>4, <1>5, <1>6, <1>7 DEF TopicSteps

-----------------------------------------------------------------------------
\* The drafts panel.
LEMMA InitDrafts == Init => DraftsInv
  <1> SUFFICES ASSUME Init PROVE DraftsInv
    OBVIOUS
  <1>1. Shaped
    BY InitShaped
  <1>2. ASSUME page = "drafts" PROVE DraftCallsTell /\ FormsTell
    <2>1. /\ \A x \in Slots : calls[x].op = "idle"
          /\ busy = {} /\ form = NoForm
      BY <1>2, IdleMade DEF Init
    <2> QED
      BY <2>1 DEF DraftCallsTell, FormsTell, NoForm, Saving
  <1> QED
    BY <1>1, <1>2 DEF DraftsInv, DraftsTell

\* A form opened or closed.
LEMMA SettledForms ==
    ASSUME NEW f \in Forms
    PROVE  /\ Settle(f) \in Forms
           /\ Settle(f).creating = f.creating /\ Settle(f).editing = f.editing
           /\ Settle(f).guard = f.guard
           /\ f.creating \/ f.editing # NoId =>
                Settle(f).crossed = f.crossed /\ Settle(f).risky = f.risky
           /\ ~f.creating /\ f.editing = NoId => ~Settle(f).crossed
  BY DEF Settle, Forms

LEMMA ClosedCreateForms ==
    ASSUME form \in Forms
    PROVE  LET g == ClosedCreate(form) IN
             /\ g \in Forms /\ ~g.creating /\ g.editing = form.editing /\ ~g.guard
             /\ form.editing # NoId => g.crossed = form.crossed /\ g.risky = form.risky
             /\ form.editing = NoId => ~g.crossed
  <1> DEFINE f == [form EXCEPT !.creating = FALSE, !.guard = FALSE]
  <1>1. f \in Forms /\ ~f.creating /\ f.editing = form.editing /\ ~f.guard
        /\ f.crossed = form.crossed /\ f.risky = form.risky
    BY DEF Forms
  <1> HIDE DEF f
  <1>2. ClosedCreate(form) = Settle(f)
    BY DEF f, ClosedCreate
  <1> QED
    BY <1>1, <1>2, SettledForms

LEMMA ClosedEditForms ==
    ASSUME form \in Forms
    PROVE  LET g == ClosedEdit(form) IN
             /\ g \in Forms /\ g.creating = form.creating /\ g.editing = NoId /\ ~g.guard
             /\ form.creating => g.crossed = form.crossed /\ g.risky = form.risky
             /\ ~form.creating => ~g.crossed
  <1> DEFINE f == [form EXCEPT !.editing = NoId, !.guard = FALSE]
  <1>1. f \in Forms /\ f.creating = form.creating /\ f.editing = NoId /\ ~f.guard
        /\ f.crossed = form.crossed /\ f.risky = form.risky
    BY DEF Forms
  <1> HIDE DEF f
  <1>2. ClosedEdit(form) = Settle(f)
    BY DEF f, ClosedEdit
  <1> QED
    BY <1>1, <1>2, SettledForms

\* Opening and closing the forms.
LEMMA DraftStepsKeep ==
    ASSUME DraftsInv, DraftSteps
    PROVE  DraftsInv' /\ page' = page
  <1>1. /\ page = "drafts" /\ page' = page /\ UNCHANGED <<calls, busy, query>>
    BY DEF DraftSteps, StartCreate, CloseCreate, BeginEdit, CloseEdit, onDrafts, Quiet
  <1>2. Shaped /\ DraftCallsTell /\ FormsTell /\ form \in Forms
    BY <1>1 DEF DraftsInv, DraftsTell, Shaped
  <1>3. Saving' = Saving
    BY <1>1 DEF Saving
  <1>4. (<<"create", NoId>> \in busy => form'.creating) /\ FormsTell' /\ form' \in Forms
    <2>1. CASE StartCreate
      <3>1. /\ form' \in Forms /\ form'.creating /\ form'.guard /\ form'.editing = form.editing
            /\ form'.risky = form.risky
            /\ form'.crossed = (form.crossed \/ form.editing # NoId \/ Saving)
        BY <1>2, <2>1 DEF StartCreate, Forms, Saving
      <3> QED
        BY <1>1, <1>2, <1>3, <3>1 DEF FormsTell
    <2>2. CASE CloseCreate
      BY <1>1, <1>2, <1>3, <2>2, ClosedCreateForms DEF CloseCreate, FormsTell
    <2>3. CASE BeginEdit
      <3>1. PICK x \in Ids :
              form' = [form EXCEPT !.editing = x, !.guard = TRUE,
                         !.crossed = @ \/ form.creating \/ <<"delete", x>> \in busy,
                         !.risky = Saving]
        BY <2>3 DEF BeginEdit
      <3>2. /\ form'.editing = x /\ form'.guard /\ form'.creating = form.creating
            /\ form'.crossed = (form.crossed \/ form.creating \/ <<"delete", x>> \in busy)
            /\ form'.risky = Saving /\ form' \in Forms
        BY <1>2, <3>1 DEF Forms, Saving
      <3>3. \A s \in Slots : calls[s].op = "edit" => Saving
        BY <1>2 DEF DraftCallsTell, Saving
      <3> QED
        BY <1>1, <1>2, <1>3, <3>2, <3>3, PageAssumption DEF FormsTell, DraftCallsTell
    <2>4. CASE CloseEdit
      BY <1>1, <1>2, <1>3, <2>4, ClosedEditForms DEF CloseEdit, FormsTell, DraftCallsTell
    <2> QED
      BY <2>1, <2>2, <2>3, <2>4, <1>2 DEF DraftSteps, DraftCallsTell
  <1>5. DraftCallsTell'
    BY <1>1, <1>2, <1>4 DEF DraftCallsTell
  <1>6. Shaped'
    BY <1>1, <1>2, <1>4 DEF Shaped, CallsShaped, IsCall
  <1> QED
    BY <1>1, <1>4, <1>5, <1>6 DEF DraftsInv, DraftsTell

\* A call of the panel started, its flag raised: deletions and moves, ...
LEMMA OtherCallStarts ==
    ASSUME DraftsInv, page = "drafts", NEW s \in Slots, NEW c, IsCall(c),
           c.op \in {"delete", "reorder"}, Starts(s, c, {<<c.op, c.id>>}),
           UNCHANGED <<query, form>>
    PROVE  DraftsInv' /\ page' = page
  <1>1. Shaped /\ DraftCallsTell /\ FormsTell /\ CallsShaped
    BY DEF DraftsInv, DraftsTell, Shaped
  <1>2. /\ CallsShaped' /\ calls'[s] = c /\ calls[s].op = "idle"
        /\ \A x \in Slots \ {s} : calls'[x] = calls[x]
        /\ busy' = busy \cup {<<c.op, c.id>>} /\ page' = page
    BY <1>1, StartsShaped
  <1>3. Saving' = Saving /\ (<<"create", NoId>> \in busy' <=> <<"create", NoId>> \in busy)
    BY <1>2 DEF Saving
  <1>4. DraftCallsTell'
    BY <1>1, <1>2, <1>3 DEF DraftCallsTell
  <1>5. FormsTell'
    BY <1>1, <1>2, <1>3 DEF FormsTell
  <1> QED
    BY <1>1, <1>2, <1>4, <1>5 DEF DraftsInv, DraftsTell, Shaped

\* ... a creation, ...
LEMMA CreationStarts ==
    ASSUME DraftsInv, NEW s \in Slots, CreateDraft(s)
    PROVE  DraftsInv' /\ page' = page
  <1>0. page = "drafts" /\ UNCHANGED <<query, form>>
    BY DEF CreateDraft, onDrafts
  <1>1. Shaped /\ DraftCallsTell /\ FormsTell /\ CallsShaped
    BY <1>0 DEF DraftsInv, DraftsTell, Shaped
  <1>2. /\ CallsShaped' /\ calls'[s].op = "create" /\ calls'[s].id = NoId /\ calls[s].op = "idle"
        /\ \A x \in Slots \ {s} : calls'[x] = calls[x]
        /\ busy' = busy \cup {<<"create", NoId>>} /\ page' = page
        /\ form.creating /\ <<"create", NoId>> \notin busy
    BY <1>1, StartsShaped, CallsMade DEF CreateDraft
  <1>3. Saving' = Saving
    BY <1>2 DEF Saving
  <1>4. DraftCallsTell'
    BY <1>0, <1>1, <1>2, <1>3 DEF DraftCallsTell
  <1>5. FormsTell'
    BY <1>0, <1>1, <1>2, <1>3 DEF FormsTell
  <1> QED
    BY <1>0, <1>1, <1>2, <1>4, <1>5 DEF DraftsInv, DraftsTell, Shaped

\* ... and a save, of the draft being edited.
LEMMA SaveStarts ==
    ASSUME DraftsInv, NEW s \in Slots, SaveEdit(s)
    PROVE  DraftsInv' /\ page' = page
  <1>0. /\ page = "drafts" /\ UNCHANGED <<query, form>>
        /\ ~Saving /\ form.editing # NoId
    BY DEF SaveEdit, onDrafts
  <1>1. Shaped /\ DraftCallsTell /\ FormsTell /\ CallsShaped /\ form.editing \in Ids
    BY <1>0 DEF DraftsInv, DraftsTell, Shaped, Forms
  <1> DEFINE c == [CallOf("edit", form.editing) EXCEPT !.value = ~At(items, form.editing).text]
  <1>2. IsCall(c) /\ c.op = "edit" /\ c.id = form.editing
    BY CallsMade, ValueShaped
  <1>3. Starts(s, c, {<<"edit", form.editing>>})
    BY DEF SaveEdit
  <1> HIDE DEF c
  <1>4. /\ CallsShaped' /\ calls'[s].op = "edit" /\ calls'[s].id = form.editing
        /\ calls[s].op = "idle"
        /\ \A x \in Slots \ {s} : calls'[x] = calls[x]
        /\ busy' = busy \cup {<<"edit", form.editing>>} /\ page' = page
    BY <1>1, <1>2, <1>3, StartsShaped
  <1>5. \A x \in Slots : calls[x].op # "edit"
    BY <1>0, <1>1 DEF DraftCallsTell, Saving
  <1>6. DraftCallsTell'
    BY <1>0, <1>1, <1>4, <1>5 DEF DraftCallsTell
  <1>7. FormsTell'
    BY <1>0, <1>1, <1>4, <1>5 DEF FormsTell
  <1> QED
    BY <1>0, <1>1, <1>4, <1>6, <1>7 DEF DraftsInv, DraftsTell, Shaped

\* An answer: what it closes has been told apart by now.
LEMMA DraftAnswerKeeps ==
    ASSUME DraftsInv, NEW s \in Slots, DraftAnswered(s)
    PROVE  /\ DraftsInv' /\ page' = page
           /\ form'.editing # form.editing =>
                calls[s].op = "edit" /\ form'.editing = NoId
  <1>0. /\ page = "drafts" /\ query' = query /\ calls[s].op # "idle"
        /\ Ends(s, {<<calls[s].op, calls[s].id>>})
        /\ form' = FormAfter(calls[s]) \/ form' = form
    BY DEF DraftAnswered, onDrafts
  <1>1. Shaped /\ DraftCallsTell /\ FormsTell /\ CallsShaped /\ form \in Forms
    BY <1>0 DEF DraftsInv, DraftsTell, Shaped
  <1>2. /\ CallsShaped' /\ calls'[s].op = "idle"
        /\ \A x \in Slots \ {s} : calls'[x] = calls[x]
        /\ busy' = busy \ {<<calls[s].op, calls[s].id>>} /\ page' = page
    BY <1>0, <1>1, EndsShaped, IdleMade
  <1>3. Saving' => Saving
    BY <1>2 DEF Saving
  <1>4. /\ form' \in Forms /\ FormsTell'
        /\ <<"create", NoId>> \in busy' => form'.creating
        /\ form'.editing # form.editing => calls[s].op = "edit" /\ form'.editing = NoId
    <2>1. CASE form' = form
      BY <1>1, <1>2, <1>3, <2>1 DEF FormsTell, DraftCallsTell
    <2>2. CASE calls[s].op = "create" /\ form' = ClosedCreate(form)
      BY <1>1, <1>2, <1>3, <2>2, ClosedCreateForms DEF FormsTell, DraftCallsTell
    <2>3. CASE calls[s].op = "edit" /\ form' = ClosedEdit(form)
      <3>1. Saving
        BY <1>1, <2>3 DEF DraftCallsTell, Saving
      <3> QED
        BY <1>1, <1>2, <1>3, <2>3, <3>1, ClosedEditForms DEF FormsTell, DraftCallsTell
    <2> QED
      BY <1>0, <2>1, <2>2, <2>3 DEF FormAfter
  <1>5. DraftCallsTell'
    BY <1>1, <1>2, <1>4 DEF DraftCallsTell
  <1> QED
    BY <1>0, <1>1, <1>2, <1>4, <1>5 DEF DraftsInv, DraftsTell, Shaped

LEMMA DraftCallsKeep ==
    ASSUME DraftsInv, NEW s \in Slots, DraftCalls(s)
    PROVE  DraftsInv' /\ page' = page /\ page = "drafts"
  <1>0. page = "drafts" /\ CallsShaped
    BY DEF DraftCalls, CreateDraft, SaveEdit, RemoveDraft, MoveDraft, DraftAnswered, onDrafts,
           DraftsInv, Shaped
  <1>1. CASE RemoveDraft(s)
    <2>1. PICK x \in Ids : Starts(s, CallOf("delete", x), {<<"delete", x>>})
      BY <1>1 DEF RemoveDraft
    <2> DEFINE c == CallOf("delete", x)
    <2>2. IsCall(c) /\ c.op = "delete" /\ c.id = x
      BY CallsMade
    <2>3. Starts(s, c, {<<c.op, c.id>>})
      BY <2>1, <2>2
    <2>4. UNCHANGED <<query, form>>
      BY <1>1 DEF RemoveDraft, onDrafts
    <2> HIDE DEF c
    <2> QED
      BY <1>0, <2>2, <2>3, <2>4, OtherCallStarts
  <1>2. CASE MoveDraft(s)
    <2>1. PICK k \in 1 .. Len(items) - 1 :
            Starts(s, [CallOf("reorder", NoId) EXCEPT !.order = IdsOf(Swapped(items, k)),
                                                      !.base = items],
                   {<<"reorder", NoId>>})
      BY <1>2 DEF MoveDraft
    <2> DEFINE c == [CallOf("reorder", NoId) EXCEPT !.order = IdsOf(Swapped(items, k))]
    <2>2. IsCall(c) /\ c.op = "reorder" /\ c.id = NoId
      <3> DEFINE b == CallOf("reorder", NoId)
      <3>1. IsCall(b) /\ b.op = "reorder" /\ b.id = NoId
        BY CallsMade
      <3> DEFINE v == IdsOf(Swapped(items, k))
      <3>2. c = [b EXCEPT !.order = v]
        OBVIOUS
      <3> HIDE DEF b, v, c
      <3> QED
        BY <3>1, <3>2, OrderShaped
    <2> DEFINE d == [c EXCEPT !.base = items]
    <2>3. Starts(s, d, {<<"reorder", NoId>>})
      BY <2>1
    <2> HIDE DEF c
    <2>4. IsCall(d) /\ d.op = "reorder" /\ d.id = NoId
      BY <2>2, BaseShaped
    <2> HIDE DEF d
    <2> QED
      BY <1>0, <1>2, <2>3, <2>4, OtherCallStarts DEF MoveDraft, onDrafts
  <1> QED
    BY <1>0, <1>1, <1>2, CreationStarts, SaveStarts, DraftAnswerKeeps DEF DraftCalls

LEMMA ServeKeepsDrafts ==
    ASSUME DraftsInv, NEW s \in Slots, ServedCall(s)
    PROVE  DraftsInv'
  <1>1. Shaped' /\ page' = page /\ busy' = busy /\ form' = form
    BY DEF ServedCall, DraftsInv, Shaped
  <1>2. \A x \in Slots : calls'[x].op = calls[x].op /\ calls'[x].id = calls[x].id
    BY DEF ServedCall
  <1>3. ASSUME page = "drafts" PROVE DraftCallsTell' /\ FormsTell'
    <2>1. DraftCallsTell /\ FormsTell
      BY <1>3 DEF DraftsInv, DraftsTell
    <2>2. DraftCallsTell'
      BY <1>1, <1>2, <2>1 DEF DraftCallsTell
    <2>3. FormsTell'
      BY <1>1, <1>2, <2>1 DEF FormsTell, Saving
    <2> QED
      BY <2>2, <2>3
  <1> QED
    BY <1>1, <1>3 DEF DraftsInv, DraftsTell

-----------------------------------------------------------------------------
\* The reloading pages.
LEMMA InitReloads == Init => ReloadInv
  <1> SUFFICES ASSUME Init PROVE ReloadInv
    OBVIOUS
  <1>1. Shaped
    BY InitShaped
  <1>2. CASE page = "library"
    <2>1. PICK s \in Slots : calls = [x \in Slots |-> IF page = "library" /\ x = s
                                                      THEN LoadOf("all") ELSE Idle]
      BY DEF Init
    <2>2. /\ calls[s].op = "load" /\ calls[s].filter = "all" /\ calls[s].step = "sent"
          /\ \A x \in Slots \ {s} : calls[x].op = "idle"
          /\ query.filter = "all"
      BY <1>2, <2>1, LoadsMade, IdleMade DEF Init
    <2>3. LoadsTell /\ ListCurrent
      BY <1>2, <2>2 DEF LoadsTell, ListCurrent
    <2> QED
      BY <1>1, <2>2, <2>3 DEF ReloadInv, ReloadsTell, ReloadOps
  <1>3. CASE page # "library"
    <2>1. /\ \A x \in Slots : calls[x].op = "idle"
          /\ query.filter = "all" /\ query.shown = "all" /\ items = server
      BY <1>3, IdleMade DEF Init
    <2>2. LoadsTell /\ ListCurrent
      BY <1>3, <2>1 DEF LoadsTell, ListCurrent, Filtered
    <2> QED
      BY <1>1, <2>1, <2>2 DEF ReloadInv, ReloadsTell, ReloadOps
  <1> QED
    BY <1>2, <1>3

\* A change started has not reached the database yet.
LEMMA ChangeStarts ==
    ASSUME ReloadInv, page \in {"library", "users", "detail"}, NEW s \in Slots,
           NEW c, IsCall(c), c.step = "sent",
           c.op \in {"create", "delete", "flag", "reorder", "untag"},
           NEW flags, Starts(s, c, flags), UNCHANGED <<items, query, form>>
    PROVE  ReloadInv' /\ page' = page /\ form' = form
  <1>1. Shaped /\ CallsShaped
    BY DEF ReloadInv, Shaped
  <1>2. /\ CallsShaped' /\ calls[s].op = "idle" /\ calls'[s] = c
        /\ \A x \in Slots \ {s} : calls'[x] = calls[x]
        /\ busy' = busy \cup flags /\ page' = page /\ server' = server /\ lost' = lost
        /\ clash => clash'
    BY <1>1, StartsShaped
  <1>3. \A x \in Slots : calls'[x].op \in ReloadOps
    BY <1>2 DEF ReloadInv, ReloadsTell, ReloadOps
  <1>4. ASSUME ~lost', ~clash' PROVE LoadsTell' /\ ListCurrent'
    <2>1. LoadsTell /\ ListCurrent
      BY <1>2, <1>4 DEF ReloadInv, ReloadsTell
    <2>2. LoadsTell'
      BY <1>2, <2>1 DEF LoadsTell
    <2>3. CASE \E x \in Slots : Unheard(calls[x])
      <3>1. PICK x \in Slots : Unheard(calls[x])
        BY <2>3
      <3>2. x # s
        BY <1>2, <3>1 DEF Unheard
      <3>3. Unheard(calls'[x])
        BY <1>2, <3>1, <3>2
      <3> QED
        BY <2>2, <3>3 DEF ListCurrent
    <2>4. CASE ~ \E x \in Slots : Unheard(calls[x])
      <3>1. \A x \in Slots : calls'[x].op = "load" => calls'[x] = calls[x]
        BY <1>2
      <3>2. \A x \in Slots : calls[x].op = "load" => calls'[x] = calls[x]
        BY <1>2
      <3>3. server' = server /\ items' = items /\ query' = query
        BY <1>2
      <3> QED
        BY <2>1, <2>2, <2>4, <3>1, <3>2, <3>3 DEF ListCurrent
    <2> QED
      BY <2>2, <2>3, <2>4
  <1> QED
    BY <1>1, <1>2, <1>3, <1>4 DEF ReloadInv, ReloadsTell, Shaped

LEMMA ChangesStart ==
    ASSUME ReloadInv, NEW s \in Slots,
           \/ ReorderTopic(s) \/ RemoveTopic(s) \/ CreateRow(s) \/ RemoveTag(s) \/ Act(s)
    PROVE  ReloadInv' /\ page' = page /\ form' = form /\ page # "drafts"
  <1>0. CallsShaped
    BY DEF ReloadInv, Shaped
  <1>1. CASE ReorderTopic(s)
    <2>1. PICK k \in 1 .. Len(Shown) - 1 :
            Starts(s, [CallOf("reorder", NoId) EXCEPT !.order = IdsOf(Swapped(Shown, k))],
                   {<<"reorder", NoId>>})
      BY <1>1 DEF ReorderTopic
    <2> DEFINE b == CallOf("reorder", NoId)
               v == IdsOf(Swapped(Shown, k))
               c == [b EXCEPT !.order = v]
    <2>2. IsCall(b) /\ b.op = "reorder" /\ b.step = "sent"
      BY CallsMade
    <2>3. Starts(s, c, {<<"reorder", NoId>>})
      BY <2>1
    <2> HIDE DEF b, v
    <2>4. IsCall(c) /\ c.op = "reorder" /\ c.step = "sent"
      BY <2>2, OrderShaped
    <2> HIDE DEF c
    <2>5. page = "library" /\ items' = items /\ query' = query /\ form' = form
      BY <1>1 DEF ReorderTopic, onLibrary
    <2> QED
      BY <2>3, <2>4, <2>5, ChangeStarts
  <1>2. CASE RemoveTopic(s)
    <2>1. PICK x : Starts(s, CallOf("delete", x), {<<"delete", x>>})
      BY <1>2 DEF RemoveTopic
    <2>2. page = "library" /\ items' = items /\ query' = query /\ form' = form
      BY <1>2 DEF RemoveTopic, onLibrary
    <2> QED
      BY <2>1, <2>2, CallsMade, ChangeStarts
  <1>3. CASE CreateRow(s)
    <2>1. Starts(s, CallOf("create", NoId), {<<"create", NoId>>})
      BY <1>3 DEF CreateRow
    <2>2. page \in {"library", "users"} /\ items' = items /\ query' = query /\ form' = form
      BY <1>3 DEF CreateRow
    <2> QED
      BY <2>1, <2>2, CallsMade, ChangeStarts
  <1>4. CASE RemoveTag(s)
    <2>1. Starts(s, CallOf("untag", NoId), {})
      BY <1>4 DEF RemoveTag
    <2>2. page = "library" /\ items' = items /\ query' = query /\ form' = form
      BY <1>4 DEF RemoveTag, onLibrary
    <2> QED
      BY <2>1, <2>2, CallsMade, ChangeStarts
  <1>5. CASE Act(s)
    <2> DEFINE b == CallOf("flag", items[1].id)
               v == ~items[1].flag
               c == [b EXCEPT !.value = v]
    <2>1. IsCall(b) /\ b.op = "flag" /\ b.step = "sent"
      BY CallsMade
    <2>2. Starts(s, c, {<<"flag", items[1].id>>})
      BY <1>5 DEF Act
    <2> HIDE DEF b, v
    <2>3. IsCall(c) /\ c.op = "flag" /\ c.step = "sent"
      BY <2>1, ValueShaped
    <2> HIDE DEF c
    <2>4. page = "detail" /\ items' = items /\ query' = query /\ form' = form
      BY <1>5 DEF Act, onDetail
    <2> QED
      BY <2>2, <2>3, <2>4, ChangeStarts
  <1> QED
    BY <1>1, <1>2, <1>3, <1>4, <1>5

\* A search is off while a load runs, so it loads alone.
LEMMA SearchKeeps ==
    ASSUME ReloadInv, NEW s \in Slots, Search(s)
    PROVE  ReloadInv' /\ page' = page /\ form' = form /\ page # "drafts"
  <1>1. PICK f \in Filters : /\ query' = [query EXCEPT !.filter = f]
                             /\ Starts(s, LoadOf(f), {<<"load", NoId>>})
    BY DEF Search
  <1>2. /\ CallsShaped /\ form \in Forms /\ page = "users" /\ form' = form
        /\ <<"load", NoId>> \notin busy
        /\ query = [filter |-> query.filter, shown |-> query.shown]
    BY DEF ReloadInv, Shaped, Search, onUsers
  <1>3. /\ CallsShaped' /\ calls[s].op = "idle" /\ calls'[s] = LoadOf(f)
        /\ \A x \in Slots \ {s} : calls'[x] = calls[x]
        /\ busy' = busy \cup {<<"load", NoId>>} /\ page' = page /\ lost' = lost
        /\ clash => clash'
    BY <1>1, <1>2, LoadsMade, StartsShaped
  <1>4. query' = [filter |-> query'.filter, shown |-> query'.shown] /\ query'.filter = f
    BY <1>1, <1>2
  <1>5. \A x \in Slots : calls'[x].op \in ReloadOps
    BY <1>2, <1>3, LoadsMade DEF ReloadInv, ReloadsTell, ReloadOps
  <1>6. ASSUME ~lost', ~clash' PROVE LoadsTell' /\ ListCurrent'
    <2>1. LoadsTell
      BY <1>2, <1>3, <1>6 DEF ReloadInv, ReloadsTell
    <2>2. \A x \in Slots \ {s} : calls'[x].op # "load"
      BY <1>2, <1>3, <2>1 DEF LoadsTell
    <2> QED
      BY <1>3, <1>4, <2>2, LoadsMade DEF LoadsTell, ListCurrent
  <1> QED
    BY <1>2, <1>3, <1>4, <1>5, <1>6 DEF ReloadInv, ReloadsTell, Shaped

\* A new filter on the library page: the loads before it are heard no more.
LEMMA SetFilterKeeps ==
    ASSUME ReloadInv, NEW s \in Slots, SetFilter(s)
    PROVE  ReloadInv' /\ page' = page /\ form' = form /\ page # "drafts"
  <1>1. PICK f \in Filters :
          /\ query' = [query EXCEPT !.filter = f]
          /\ calls' = [x \in Slots |-> IF x = s THEN LoadOf(f)
                                       ELSE IF x \in Cancelled THEN Idle ELSE calls[x]]
    BY DEF SetFilter
  <1>2. /\ CallsShaped /\ form \in Forms /\ page = "library" /\ form' = form /\ page' = page
        /\ lost' = lost /\ clash' = clash /\ busy' = busy
        /\ query = [filter |-> query.filter, shown |-> query.shown]
    BY DEF ReloadInv, Shaped, SetFilter, onLibrary
  <1>3. CallsShaped'
    <2> DEFINE g == [x \in Slots |-> IF x = s THEN LoadOf(f)
                                     ELSE IF x \in Cancelled THEN Idle ELSE calls[x]]
    <2>1. \A x \in Slots : IsCall(g[x])
      BY <1>2, LoadsMade, IdleMade DEF CallsShaped
    <2>2. g = [x \in Slots |-> g[x]] /\ calls' = g
      BY <1>1
    <2> QED
      BY <2>1, <2>2, CallsReplaced
  <1>4. query' = [filter |-> query'.filter, shown |-> query'.shown] /\ query'.filter = f
    BY <1>1, <1>2
  <1>5. /\ calls'[s] = LoadOf(f)
        /\ \A x \in Slots \ {s} : calls'[x] = Idle \/ calls'[x] = calls[x]
        /\ \A x \in Slots \ {s} : calls'[x].op # "load"
    BY <1>1, <1>2, IdleMade DEF Cancelled
  <1>6. \A x \in Slots : calls'[x].op \in ReloadOps
    BY <1>2, <1>5, LoadsMade, IdleMade DEF ReloadInv, ReloadsTell, ReloadOps
  <1>7. LoadsTell' /\ ListCurrent'
    BY <1>2, <1>4, <1>5, LoadsMade DEF LoadsTell, ListCurrent
  <1> QED
    BY <1>2, <1>3, <1>4, <1>6, <1>7 DEF ReloadInv, ReloadsTell, Shaped

\* A change that was made ends in a load, of the filter chosen by now.
LEMMA ReloadsKeep ==
    ASSUME ReloadInv, page \in {"library", "users", "detail"}, NEW s \in Slots, NEW flags,
           calls[s].op \notin {"idle", "load"},
           Reloads(s, query.filter, flags), UNCHANGED <<form, query>>
    PROVE  ReloadInv' /\ page' = page /\ form' = form /\ page # "drafts"
  <1>1. CallsShaped /\ Shaped
    BY DEF ReloadInv, Shaped
  <1>2. /\ CallsShaped' /\ calls'[s] = LoadOf(query.filter)
        /\ \A x \in Slots \ {s} : calls'[x] = IF x \in Cancelled THEN Idle ELSE calls[x]
        /\ page' = page /\ lost' = lost
    BY <1>1, ReloadsShaped
  <1>3. \A x \in Slots : calls'[x].op \in ReloadOps
    BY <1>2, LoadsMade, IdleMade DEF ReloadInv, ReloadsTell, ReloadOps
  <1>4. ASSUME ~lost', ~clash' PROVE LoadsTell' /\ ListCurrent'
    <2>1. \A x \in Slots \ {s} : calls'[x].op # "load"
      BY <1>2, <1>4, IdleMade DEF Reloads, Cancelled
    <2>2. page = "users" => <<"load", NoId>> \in busy'
      BY DEF Reloads
    <2> QED
      BY <1>2, <2>1, <2>2, LoadsMade DEF LoadsTell, ListCurrent
  <1> QED
    BY <1>1, <1>2, <1>3, <1>4 DEF ReloadInv, ReloadsTell, Shaped

\* The tags are read between a tag's deletion and the load.
LEMMA TagRemovedKeeps ==
    ASSUME ReloadInv, NEW s \in Slots, TagRemoved(s)
    PROVE  ReloadInv' /\ page' = page /\ form' = form /\ page # "drafts"
  <1>1. /\ Shaped /\ CallsShaped /\ page = "library" /\ calls[s].op = "untag"
        /\ calls' = [calls EXCEPT ![s] = CallOf("tags", NoId)]
        /\ UNCHANGED <<page, server, items, busy, lost, clash, query, form>>
    BY DEF ReloadInv, Shaped, TagRemoved, onLibrary, Hears
  <1>2. /\ CallsShaped' /\ calls'[s].op = "tags"
        /\ \A x \in Slots \ {s} : calls'[x] = calls[x]
    <2> DEFINE c == CallOf("tags", NoId)
    <2>1. IsCall(c) /\ c.op = "tags"
      BY CallsMade
    <2>2. calls' = [calls EXCEPT ![s] = c]
      BY <1>1
    <2> HIDE DEF c
    <2> QED
      BY <1>1, <2>1, <2>2, OneCallShaped
  <1>3. \A x \in Slots : calls'[x].op \in ReloadOps
    BY <1>1, <1>2 DEF ReloadInv, ReloadsTell, ReloadOps
  <1>4. ASSUME ~lost', ~clash' PROVE LoadsTell' /\ ListCurrent'
    <2>1. LoadsTell
      BY <1>1, <1>4 DEF ReloadInv, ReloadsTell
    <2>2. LoadsTell'
      BY <1>1, <1>2, <2>1 DEF LoadsTell
    <2>3. ListCurrent'
      BY <1>2 DEF ListCurrent, Unheard
    <2> QED
      BY <2>2, <2>3
  <1> QED
    BY <1>1, <1>2, <1>3, <1>4 DEF ReloadInv, ReloadsTell, Shaped

\* A load that is heard was the only one.
LEMMA LoadedKeeps ==
    ASSUME ReloadInv, NEW s \in Slots, Loaded(s)
    PROVE  ReloadInv' /\ page' = page /\ form' = form /\ page # "drafts"
  <1>1. /\ Shaped /\ CallsShaped /\ page \in {"library", "users", "detail"}
        /\ calls[s].op = "load" /\ calls[s].step = "ok" /\ items' = calls[s].answer
        /\ query' = [query EXCEPT !.shown = calls[s].filter]
        /\ Ends(s, {<<"load", NoId>>}) /\ lost' = lost /\ form' = form
    BY DEF ReloadInv, Shaped, Loaded, reloading, Hears
  <1>2. /\ CallsShaped' /\ calls'[s].op = "idle"
        /\ \A x \in Slots \ {s} : calls'[x] = calls[x]
        /\ page' = page /\ server' = server /\ clash' = clash
    BY <1>1, EndsShaped, IdleMade
  <1>3. query' = [filter |-> query'.filter, shown |-> query'.shown]
        /\ query'.filter = query.filter /\ query'.shown = calls[s].filter
    BY <1>1 DEF Shaped
  <1>4. \A x \in Slots : calls'[x].op \in ReloadOps
    BY <1>1, <1>2 DEF ReloadInv, ReloadsTell, ReloadOps
  <1>5. ASSUME ~lost', ~clash' PROVE LoadsTell' /\ ListCurrent'
    <2>1. LoadsTell /\ ListCurrent
      BY <1>1, <1>2, <1>5 DEF ReloadInv, ReloadsTell
    <2>2. \A x \in Slots : calls'[x].op # "load"
      BY <1>1, <1>2, <2>1 DEF LoadsTell
    <2>3. CASE \E x \in Slots : Unheard(calls[x])
      <3>1. PICK x \in Slots : Unheard(calls[x])
        BY <2>3
      <3>2. Unheard(calls'[x])
        BY <1>1, <1>2, <3>1 DEF Unheard
      <3> QED
        BY <2>2, <3>2 DEF LoadsTell, ListCurrent
    <2>4. CASE ~ \E x \in Slots : Unheard(calls[x])
      <3>1. calls[s].filter = query.filter
            /\ calls[s].answer = Filtered(server, query.filter)
        BY <1>1, <2>1, <2>4 DEF LoadsTell, ListCurrent
      <3>2. items' = Filtered(server', query'.filter) /\ query'.shown = query'.filter
        BY <1>1, <1>2, <1>3, <3>1
      <3> QED
        BY <2>2, <3>2 DEF LoadsTell, ListCurrent
    <2> QED
      BY <2>3, <2>4
  <1> QED
    BY <1>1, <1>2, <1>3, <1>4, <1>5 DEF ReloadInv, ReloadsTell, Shaped

\* A failed load is remembered as lost; a failed change has changed nothing.
LEMMA FailureKeeps ==
    ASSUME ReloadInv, NEW s \in Slots, ReloadingFails(s)
    PROVE  ReloadInv' /\ page' = page /\ form' = form /\ page # "drafts"
  <1>1. /\ Shaped /\ CallsShaped /\ page \in {"library", "users", "detail"}
        /\ calls[s].step = "refused" /\ lost' = (lost \/ calls[s].op \in {"load", "tags"})
        /\ Ends(s, {<<calls[s].op, calls[s].id>>})
        /\ items' = items /\ query' = query /\ form' = form
    BY DEF ReloadInv, Shaped, ReloadingFails, reloading
  <1>2. /\ CallsShaped' /\ calls'[s].op = "idle"
        /\ \A x \in Slots \ {s} : calls'[x] = calls[x]
        /\ page' = page /\ server' = server /\ clash' = clash
        /\ busy' = busy \ {<<calls[s].op, calls[s].id>>}
    BY <1>1, EndsShaped, IdleMade
  <1>3. \A x \in Slots : calls'[x].op \in ReloadOps
    BY <1>1, <1>2 DEF ReloadInv, ReloadsTell, ReloadOps
  <1>4. ASSUME ~lost', ~clash' PROVE LoadsTell' /\ ListCurrent'
    <2>1. LoadsTell /\ ListCurrent /\ calls[s].op \notin {"load", "tags"}
      BY <1>1, <1>2, <1>4 DEF ReloadInv, ReloadsTell
    <2>2. LoadsTell'
      BY <1>1, <1>2, <2>1 DEF LoadsTell
    <2>3. CASE \E x \in Slots : Unheard(calls[x])
      <3>1. PICK x \in Slots : Unheard(calls[x])
        BY <2>3
      <3>2. Unheard(calls'[x])
        BY <1>1, <1>2, <2>1, <3>1 DEF Unheard
      <3> QED
        BY <2>2, <3>2 DEF ListCurrent
    <2>4. CASE ~ \E x \in Slots : Unheard(calls[x])
      <3>1. \A x \in Slots : calls'[x].op = "load" => calls'[x] = calls[x]
        BY <1>2
      <3>2. \A x \in Slots : calls[x].op = "load" => calls'[x] = calls[x]
        BY <1>2, <2>1
      <3> QED
        BY <1>1, <1>2, <2>1, <2>2, <2>4, <3>1, <3>2 DEF ListCurrent
    <2> QED
      BY <2>3, <2>4
  <1> QED
    BY <1>1, <1>2, <1>3, <1>4 DEF ReloadInv, ReloadsTell, Shaped

\* A row created: its page is opened, or the accounts are loaded.
LEMMA RowCreatedKeeps ==
    ASSUME ReloadInv, NEW s \in Slots, RowCreated(s)
    PROVE  ReloadInv' /\ page' # "drafts" /\ form' = form /\ page # "drafts"
  <1>1. calls[s].op = "create" /\ form' = form /\ query' = query
    BY DEF RowCreated, Hears
  <1>2. CASE page = "users" /\ Reloads(s, query.filter, {<<"create", NoId>>})
    <2>1. page \in {"library", "users", "detail"} /\ calls[s].op \notin {"idle", "load"}
          /\ UNCHANGED <<form, query>>
      BY <1>1, <1>2
    <2> QED
      BY <1>2, <2>1, ReloadsKeep
  <1>3. CASE page = "library" /\ page' = "left" /\ calls' = [x \in Slots |-> Idle]
    <2>1. CallsShaped'
      BY <1>3, IdleMade DEF CallsShaped
    <2> QED
      BY <1>1, <1>3, <2>1 DEF ReloadInv, ReloadsTell, Shaped
  <1> QED
    BY <1>2, <1>3 DEF RowCreated

LEMMA ReloadStepsKeep ==
    ASSUME ReloadInv, NEW s \in Slots, ReloadSteps(s)
    PROVE  ReloadInv' /\ page' # "drafts" /\ form' = form /\ page # "drafts"
  <1>1. CASE MutationDone(s)
    <2>1. \E flags : Reloads(s, query.filter, flags)
      BY <1>1 DEF MutationDone
    <2>2. page \in {"library", "users", "detail"} /\ calls[s].op \notin {"idle", "load"}
          /\ UNCHANGED <<form, query>>
      BY <1>1 DEF MutationDone, reloading
    <2> QED
      BY <2>1, <2>2, ReloadsKeep
  <1> QED
    BY <1>1, SetFilterKeeps, SearchKeeps, ChangesStart, TagRemovedKeeps, RowCreatedKeeps,
       LoadedKeeps, FailureKeeps DEF ReloadSteps

\* The web process makes a change unheard, or answers a load with the list as it is.
LEMMA ServeKeepsReloads ==
    ASSUME ReloadInv, NEW s \in Slots, ServedCall(s)
    PROVE  ReloadInv'
  <1>1. Shaped' /\ page' = page /\ busy' = busy /\ items' = items /\ query' = query
        /\ clash' = clash
    BY DEF ServedCall, ReloadInv, Shaped
  <1>2. \A x \in Slots : calls'[x].op = calls[x].op /\ calls'[x].filter = calls[x].filter
    BY DEF ServedCall
  <1>3. ASSUME page \in {"library", "users", "detail"}
        PROVE  \A x \in Slots : calls'[x].op \in ReloadOps
    BY <1>2, <1>3 DEF ReloadInv, ReloadsTell
  <1>4. ASSUME page \in {"library", "users", "detail"}, ~lost', ~clash'
        PROVE  LoadsTell' /\ ListCurrent'
    <2>1. ~lost /\ ~clash
      BY <1>1, <1>4 DEF ServedCall
    <2>2. LoadsTell /\ ListCurrent /\ calls[s].op \in ReloadOps
      BY <1>4, <2>1 DEF ReloadInv, ReloadsTell
    <2>3. LoadsTell'
      BY <1>1, <1>2, <2>2 DEF LoadsTell
    <2>4. CASE calls[s].op = "tags"
      <3>1. Unheard(calls'[s])
        BY <1>2, <2>4 DEF Unheard
      <3> QED
        BY <2>3, <3>1 DEF ListCurrent
    <2>5. CASE calls[s].op # "tags" /\ calls[s].op # "load" /\ calls'[s].step = "ok"
      <3>1. Unheard(calls'[s])
        BY <1>2, <2>2, <2>5 DEF Unheard, ReloadOps, ServedCall
      <3> QED
        BY <2>3, <3>1 DEF ListCurrent
    <2>6. CASE calls[s].op = "load" \/ calls'[s].step = "refused"
      <3>1. server' = server
        BY <2>6 DEF ServedCall
      <3>2. CASE \E x \in Slots : Unheard(calls[x])
        <4>1. PICK x \in Slots : Unheard(calls[x])
          BY <3>2
        <4>2. Unheard(calls'[x])
          BY <1>2, <1>4, <2>6, <4>1 DEF Unheard, ServedCall
        <4> QED
          BY <2>3, <4>2 DEF ListCurrent
      <3>3. CASE ~ \E x \in Slots : Unheard(calls[x])
        <4>1. \A x \in Slots : calls'[x].op = "load" /\ calls'[x].step = "ok"
                 => calls'[x].answer = Filtered(server, calls'[x].filter)
          <5> SUFFICES ASSUME NEW x \in Slots, calls'[x].op = "load", calls'[x].step = "ok"
                       PROVE  calls'[x].answer = Filtered(server, calls'[x].filter)
            OBVIOUS
          <5>1. CASE x = s
            BY <1>2, <5>1 DEF ServedCall
          <5>2. CASE x # s
            BY <2>2, <3>3, <5>2 DEF ServedCall, ListCurrent
          <5> QED
            BY <5>1, <5>2
        <4>2. \/ \E x \in Slots : calls'[x].op = "load"
              \/ query.shown = query.filter /\ items = Filtered(server, query.filter)
          BY <1>2, <2>2, <3>3 DEF ListCurrent
        <4> QED
          BY <1>1, <2>3, <3>1, <4>1, <4>2 DEF ListCurrent
      <3> QED
        BY <3>2, <3>3
    <2> QED
      BY <2>4, <2>5, <2>6 DEF ServedCall
  <1> QED
    BY <1>1, <1>3, <1>4 DEF ReloadInv, ReloadsTell

-----------------------------------------------------------------------------
\* Every step keeps both invariants.
PagesInv == DraftsInv /\ ReloadInv

LEMMA StepPages == PagesInv /\ [Next]_vars => PagesInv'
  <1> SUFFICES ASSUME PagesInv, [Next]_vars PROVE PagesInv'
    OBVIOUS
  <1> USE DEF PagesInv
  <1>1. CASE UNCHANGED vars
    BY <1>1
    DEF vars, core, DraftsInv, ReloadInv, Shaped, CallsShaped, IsCall, DraftsTell, DraftCallsTell,
        FormsTell, Saving, ReloadsTell, LoadsTell, ListCurrent, Unheard
  <1>2. CASE DraftSteps
    <2>1. DraftsInv' /\ page' = page /\ page = "drafts"
      BY <1>2, DraftStepsKeep
      DEF DraftSteps, StartCreate, CloseCreate, BeginEdit, CloseEdit, onDrafts
    <2> QED
      BY <2>1 DEF DraftsInv, ReloadInv, ReloadsTell
  <1>3. ASSUME NEW s \in Slots, TopicSteps(s) PROVE PagesInv'
    <2>1. CallsShaped' /\ page' = "topic" /\ UNCHANGED <<form, query>>
      BY <1>3, TopicKeepsShape DEF DraftsInv
    <2> QED
      BY <2>1 DEF DraftsInv, DraftsTell, ReloadInv, ReloadsTell, Shaped
  <1>4. ASSUME NEW s \in Slots, DraftCalls(s) PROVE PagesInv'
    <2>1. DraftsInv' /\ page' = "drafts"
      BY <1>4, DraftCallsKeep
    <2> QED
      BY <2>1 DEF DraftsInv, ReloadInv, ReloadsTell
  <1>5. ASSUME NEW s \in Slots, ReloadSteps(s) PROVE PagesInv'
    <2>1. ReloadInv' /\ page' # "drafts"
      BY <1>5, ReloadStepsKeep
    <2> QED
      BY <2>1 DEF DraftsInv, DraftsTell, ReloadInv
  <1>6. ASSUME NEW s \in Slots, Serve(s) \/ LoseAnswer(s) PROVE PagesInv'
    BY <1>6, ServeServes, ServeKeepsDrafts, ServeKeepsReloads DEF DraftsInv
  <1> QED
    BY <1>1, <1>2, <1>3, <1>4, <1>5, <1>6 DEF Next

\* The invariant holds of every reachable state.
LEMMA PagesKept == Spec => []PagesInv
  <1>1. Init => PagesInv
    BY InitDrafts, InitReloads DEF PagesInv
  <1> QED
    BY <1>1, StepPages, PTL DEF Spec

-----------------------------------------------------------------------------
\* The page warns before unload exactly while a draft form is open, unless the
\* forms overlapped, however many drafts and calls there are (drafts-panel.tsx:45).
THEOREM GuardIsTrue == Spec => []GuardMatchesForms
  <1>1. PagesInv => GuardMatchesForms
    BY DEF PagesInv, DraftsInv, DraftsTell, FormsTell, GuardMatchesForms
  <1> QED
    BY <1>1, PagesKept, PTL

\* A page that reloads ends with the database's list under its filter, in
\* whatever order the answers came (use-library-data.ts:13, users-admin-view.tsx).
THEOREM ReloadedIsCurrent == Spec => []ReloadedSettles
  <1>1. PagesInv => ReloadedSettles
    <2> SUFFICES ASSUME PagesInv, page \in {"library", "users", "detail"}, Settled, ~clash
                 PROVE  Shown = Filtered(server, query.filter)
      BY DEF ReloadedSettles
    <2>1. ListCurrent /\ \A s \in Slots : calls[s].op = "idle"
      BY DEF PagesInv, ReloadInv, ReloadsTell, Settled, InFlight
    <2> QED
      BY <2>1 DEF ListCurrent, Unheard, Shown
  <1> QED
    BY <1>1, PagesKept, PTL

\* An answer closes a form being edited only if it is about that draft, or the
\* form was opened while another save ran (drafts-panel.tsx:112-131).
THEOREM EditSurvives == Spec => EditOutlivesAnswers
  <1> DEFINE Closing ==
        form.editing # NoId /\ form'.editing # form.editing /\ calls' # calls
          => \/ form.risky
             \/ \E s \in Slots : calls[s].op = "edit" /\ calls[s].id = form.editing
  <1>1. ASSUME PagesInv, Next PROVE Closing
    <2> SUFFICES ASSUME form.editing # NoId, form'.editing # form.editing, calls' # calls
                 PROVE  \/ form.risky
                        \/ \E s \in Slots : calls[s].op = "edit" /\ calls[s].id = form.editing
      OBVIOUS
    <2>1. CASE DraftSteps
      BY <2>1 DEF DraftSteps, StartCreate, CloseCreate, BeginEdit, CloseEdit, Quiet
    <2>2. ASSUME NEW s \in Slots, DraftCalls(s)
          PROVE  form.risky \/ (calls[s].op = "edit" /\ calls[s].id = form.editing)
      <3>1. DraftAnswered(s)
        BY <2>2 DEF DraftCalls, CreateDraft, SaveEdit, RemoveDraft, MoveDraft
      <3>2. calls[s].op = "edit"
        BY <1>1, <3>1, DraftAnswerKeeps DEF PagesInv
      <3>3. page = "drafts"
        BY <3>1 DEF DraftAnswered, onDrafts
      <3> QED
        BY <1>1, <3>2, <3>3 DEF PagesInv, DraftsInv, DraftsTell, FormsTell
    <2>3. ASSUME NEW s \in Slots, TopicSteps(s) PROVE FALSE
      BY <1>1, <2>3, TopicKeepsShape DEF PagesInv, DraftsInv
    <2>4. ASSUME NEW s \in Slots, ReloadSteps(s) PROVE FALSE
      BY <1>1, <2>4, ReloadStepsKeep DEF PagesInv
    <2>5. ASSUME NEW s \in Slots, Serve(s) \/ LoseAnswer(s) PROVE FALSE
      BY <2>5 DEF Serve, LoseAnswer
    <2> QED
      BY <1>1, <2>1, <2>2, <2>3, <2>4, <2>5 DEF Next
  <1>2. PagesInv /\ [Next]_vars => [Closing]_vars
    BY <1>1
  <1> QED
    BY <1>2, PagesKept, PTL DEF Spec, EditOutlivesAnswers

-----------------------------------------------------------------------------
\* Induction over the naturals, and over sequences, for a set.
LEMMA NaturalsAll ==
    ASSUME NEW P, 0 \in P, \A n \in Nat : n \in P => n + 1 \in P
    PROVE  Nat \subseteq P
  <1> DEFINE T == Nat \ P
             F == {0 .. x : x \in T}
             R == StrictSubsetOrdering(Nat)
  <1>1. IsWellFoundedOn(R, FiniteSubsetsOf(Nat))
    BY FS_StrictSubsetOrderingWellFounded
  <1>2. F \subseteq FiniteSubsetsOf(Nat)
    <2>1. \A x \in Nat : 0 .. x \in SUBSET Nat /\ IsFiniteSet(0 .. x)
      BY FS_Interval
    <2> QED
      BY <2>1 DEF FiniteSubsetsOf
  <1> SUFFICES ASSUME T # {} PROVE FALSE
    OBVIOUS
  <1>3. PICK A \in F : \A B \in F : ~ (<<B, A>> \in R)
    <2>1. F # {}
      OBVIOUS
    <2> HIDE DEF F, R
    <2> QED
      BY <1>1, <1>2, <2>1, WFMin
  <1>4. PICK x \in T : A = 0 .. x
    OBVIOUS
  <1>5. x # 0 /\ x - 1 \in Nat /\ (x - 1) + 1 = x
    BY <1>4
  <1>6. x - 1 \in T
    BY <1>4, <1>5
  <1>7. 0 .. (x - 1) \in SUBSET Nat /\ 0 .. x \in SUBSET Nat
        /\ 0 .. (x - 1) \subseteq 0 .. x /\ 0 .. (x - 1) # 0 .. x
    BY <1>4, <1>5
  <1>8. <<0 .. (x - 1), 0 .. x>> \in R
    BY <1>7 DEF StrictSubsetOrdering
  <1> QED
    BY <1>3, <1>4, <1>6, <1>8

LEMMA SequencesAll ==
    ASSUME NEW S, NEW P, <<>> \in P,
           \A s \in Seq(S), e \in S : s \in P => Append(s, e) \in P
    PROVE  Seq(S) \subseteq P
  <1> DEFINE Q == {n \in Nat : \A s \in Seq(S) : Len(s) = n => s \in P}
  <1>1. 0 \in Q
    BY EmptySeq
  <1>2. \A n \in Nat : n \in Q => n + 1 \in Q
    <2> SUFFICES ASSUME NEW n \in Nat, n \in Q, NEW s \in Seq(S), Len(s) = n + 1
                 PROVE  s \in P
      OBVIOUS
    <2> DEFINE t == [k \in 1 .. n |-> s[k]]
    <2>1. t \in Seq(S) /\ Len(t) = n /\ s[n + 1] \in S
      <3>1. \A k \in 1 .. n + 1 : s[k] \in S
        BY ElementOfSeq
      <3> QED
        BY <3>1
    <2>2. s = Append(t, s[n + 1])
      <3>1. Len(Append(t, s[n + 1])) = n + 1 /\ Append(t, s[n + 1]) \in Seq(S)
        BY <2>1
      <3>2. \A k \in 1 .. n + 1 : Append(t, s[n + 1])[k] = s[k]
        BY <2>1
      <3> HIDE DEF t
      <3> QED
        BY <3>1, <3>2, SeqEqual
    <2> QED
      BY <2>1, <2>2
  <1> HIDE DEF Q
  <1>3. Nat \subseteq Q
    BY <1>1, <1>2, NaturalsAll
  <1> QED
    BY <1>3, LenProperties DEF Q
-----------------------------------------------------------------------------
\* What Kept computes: nothing of an empty list, and one row more or none of a
\* list with one row more.
KeptBy(list, S, f) ==
    f = [n \in 0 .. Len(list) |->
           IF n = 0 THEN <<>>
           ELSE IF list[n] \in S THEN Append(f[n - 1], list[n]) ELSE f[n - 1]]
KeptFun(list, S) == CHOOSE f : KeptBy(list, S, f)

LEMMA KeptIs == \A list, S : Kept(list, S) = KeptFun(list, S)[Len(list)]
  BY DEF Kept, KeptFun, KeptBy

LEMMA KeptByUnique ==
    ASSUME NEW l \in Seq(Item), NEW S, NEW f, NEW g, NEW m \in Nat,
           NEW h \in Seq(Item), m <= Len(l), m <= Len(h), \A k \in 1 .. m : h[k] = l[k],
           KeptBy(l, S, f), KeptBy(h, S, g)
    PROVE  f[m] = g[m]
  <1> DEFINE Q == {n \in Nat : n <= m => f[n] = g[n]}
  <1>0. Len(l) \in Nat /\ Len(h) \in Nat
    OBVIOUS
  <1>1. 0 \in Q
    <2>1. 0 \in 0 .. Len(l) /\ 0 \in 0 .. Len(h)
      BY <1>0
    <2>2. f[0] = <<>> /\ g[0] = <<>>
      BY <2>1 DEF KeptBy
    <2> QED
      BY <2>2
  <1>2. \A n \in Nat : n \in Q => n + 1 \in Q
    <2> SUFFICES ASSUME NEW n \in Nat, n + 1 <= m, f[n] = g[n] PROVE f[n + 1] = g[n + 1]
      OBVIOUS
    <2>1. /\ n + 1 \in 0 .. Len(l) /\ n + 1 \in 0 .. Len(h) /\ n + 1 # 0
          /\ (n + 1) - 1 = n /\ h[n + 1] = l[n + 1]
      BY <1>0
    <2>2. f[n + 1] = IF l[n + 1] \in S THEN Append(f[n], l[n + 1]) ELSE f[n]
      BY <2>1 DEF KeptBy
    <2>3. g[n + 1] = IF h[n + 1] \in S THEN Append(g[n], h[n + 1]) ELSE g[n]
      BY <2>1 DEF KeptBy
    <2> QED
      BY <2>1, <2>2, <2>3
  <1> HIDE DEF Q
  <1>3. Nat \subseteq Q
    BY <1>1, <1>2, NaturalsAll
  <1> QED
    BY <1>3 DEF Q

\* There is such a function, for every list.
LEMMA KeptExists ==
    ASSUME NEW S
    PROVE  \A l \in Seq(Item) : \E f : KeptBy(l, S, f)
  <1> DEFINE P == {l \in Seq(Item) : \E f : KeptBy(l, S, f)}
  <1>1. <<>> \in P
    <2> DEFINE f == [n \in 0 .. 0 |-> <<>>]
    <2>1. Len(<<>>) = 0 /\ \A n \in 0 .. 0 : n = 0
      OBVIOUS
    <2>2. KeptBy(<<>>, S, f)
      BY <2>1 DEF KeptBy
    <2> QED
      BY <2>2
  <1>2. \A l \in Seq(Item), r \in Item : l \in P => Append(l, r) \in P
    <2> SUFFICES ASSUME NEW l \in Seq(Item), NEW r \in Item, NEW f, KeptBy(l, S, f)
                 PROVE  \E g : KeptBy(Append(l, r), S, g)
      OBVIOUS
    <2> DEFINE m == Len(l)
               h == Append(l, r)
               g == [n \in 0 .. m + 1 |-> IF n <= m THEN f[n]
                                         ELSE IF r \in S THEN Append(f[m], r) ELSE f[m]]
    <2>1. /\ m \in Nat /\ Len(h) = m + 1 /\ h[m + 1] = r
          /\ \A k \in 1 .. m : h[k] = l[k]
      OBVIOUS
    <2> HIDE DEF h, m
    <2>2. \A n \in 0 .. m + 1 :
            g[n] = IF n = 0 THEN <<>>
                   ELSE IF h[n] \in S THEN Append(g[n - 1], h[n]) ELSE g[n - 1]
      <3> SUFFICES ASSUME NEW n \in 0 .. m + 1
                   PROVE  g[n] = IF n = 0 THEN <<>>
                                 ELSE IF h[n] \in S THEN Append(g[n - 1], h[n]) ELSE g[n - 1]
        OBVIOUS
      <3>1. CASE n = 0
        BY <2>1, <3>1 DEF KeptBy, m
      <3>2. CASE n # 0 /\ n <= m
        <4>1. n \in 0 .. Len(l) /\ n - 1 \in 0 .. m /\ n \in 1 .. m /\ n - 1 <= m
              /\ n - 1 \in 0 .. m + 1
          BY <2>1, <3>2 DEF m
        <4>2. f[n] = IF l[n] \in S THEN Append(f[n - 1], l[n]) ELSE f[n - 1]
          BY <3>2, <4>1 DEF KeptBy
        <4>3. g[n] = f[n] /\ g[n - 1] = f[n - 1]
          BY <3>2, <4>1
        <4> QED
          BY <2>1, <3>2, <4>1, <4>2, <4>3
      <3>3. CASE n = m + 1
        <4>1. n - 1 = m /\ m \in 0 .. m + 1 /\ ~(n <= m) /\ n # 0 /\ m <= m
          BY <2>1, <3>3
        <4>2. g[n - 1] = f[m] /\ g[n] = IF r \in S THEN Append(f[m], r) ELSE f[m]
          BY <4>1
        <4> QED
          BY <2>1, <3>3, <4>1, <4>2
      <3> QED
        BY <2>1, <3>1, <3>2, <3>3
    <2>3. g = [n \in 0 .. m + 1 |-> g[n]]
      OBVIOUS
    <2> HIDE DEF g
    <2>4. KeptBy(h, S, g)
      BY <2>1, <2>2, <2>3 DEF KeptBy
    <2> QED
      BY <2>4 DEF h
  <1> HIDE DEF P
  <1>3. Seq(Item) \subseteq P
    BY <1>1, <1>2, SequencesAll
  <1> QED
    BY <1>3 DEF P

LEMMA KeptFunIs ==
    ASSUME NEW l \in Seq(Item), NEW S
    PROVE  KeptBy(l, S, KeptFun(l, S))
  BY KeptExists DEF KeptFun

LEMMA KeptEmpty == \A S : Kept(<<>>, S) = <<>>
  <1> SUFFICES ASSUME NEW S PROVE Kept(<<>>, S) = <<>>
    OBVIOUS
  <1> DEFINE f == KeptFun(<<>>, S)
  <1>1. KeptBy(<<>>, S, f)
    BY KeptFunIs, EmptySeq
  <1> HIDE DEF f
  <1>2. Len(<<>>) = 0 /\ 0 \in 0 .. Len(<<>>)
    OBVIOUS
  <1>3. f[0] = <<>>
    BY <1>1, <1>2 DEF KeptBy
  <1> QED
    BY <1>2, <1>3, KeptIs DEF f

LEMMA KeptAppend ==
    ASSUME NEW l \in Seq(Item), NEW r \in Item, NEW S
    PROVE  Kept(Append(l, r), S) = IF r \in S THEN Append(Kept(l, S), r) ELSE Kept(l, S)
  <1> DEFINE h == Append(l, r)
             f == KeptFun(l, S)
             g == KeptFun(h, S)
             m == Len(l)
  <1>1. /\ h \in Seq(Item) /\ Len(h) = m + 1 /\ h[m + 1] = r /\ m \in Nat
        /\ \A k \in 1 .. m : h[k] = l[k]
    OBVIOUS
  <1>2. KeptBy(l, S, f) /\ KeptBy(h, S, g)
    <2> HIDE DEF h
    <2> QED
      BY <1>1, KeptFunIs
  <1>3. Kept(h, S) = g[m + 1] /\ Kept(l, S) = f[m]
    BY <1>1, KeptIs
  <1> HIDE DEF h, f, g
  <1>4. f[m] = g[m]
    <2>1. m <= Len(l) /\ m <= Len(h) /\ m \in Nat /\ \A k \in 1 .. m : h[k] = l[k]
      BY <1>1
    <2> HIDE DEF m
    <2> QED
      BY <1>1, <1>2, <2>1, KeptByUnique
  <1>5. g[m + 1] = IF h[m + 1] \in S THEN Append(g[m], h[m + 1]) ELSE g[m]
    <2>1. m + 1 \in 0 .. Len(h) /\ m + 1 # 0 /\ (m + 1) - 1 = m
      BY <1>1
    <2> HIDE DEF m
    <2> QED
      BY <1>2, <2>1 DEF KeptBy
  <1> QED
    BY <1>1, <1>3, <1>4, <1>5 DEF h

-----------------------------------------------------------------------------
\* A property of all lists of rows, by induction on the list.
LEMMA ListsAll ==
    ASSUME NEW P, <<>> \in P,
           \A l \in Seq(Item), r \in Item : l \in P => Append(l, r) \in P
    PROVE  \A l \in Seq(Item) : l \in P
  <1>1. Seq(Item) \subseteq P
    BY SequencesAll
  <1> QED
    BY <1>1

LEMMA AppendedRows ==
    ASSUME NEW l \in Seq(Item), NEW r \in Item
    PROVE  Append(l, r) \in Seq(Item) /\ Range(Append(l, r)) = Range(l) \cup {r}
  <1>1. /\ Append(l, r) \in Seq(Item) /\ Len(l) \in Nat
        /\ DOMAIN l = 1 .. Len(l) /\ DOMAIN Append(l, r) = 1 .. Len(l) + 1
        /\ \A k \in 1 .. Len(l) : Append(l, r)[k] = l[k]
        /\ Append(l, r)[Len(l) + 1] = r
    OBVIOUS
  <1>2. 1 .. Len(l) + 1 = (1 .. Len(l)) \cup {Len(l) + 1}
    BY <1>1
  <1> DEFINE h == Append(l, r)
             m == Len(l)
  <1> HIDE DEF h, m
  <1>3. \A q : q \in Range(h) <=> q \in Range(l) \cup {r}
    BY <1>1, <1>2 DEF Range, h, m
  <1> QED
    BY <1>1, <1>3 DEF h

\* What Kept returns is a list of rows: those of the list that are in the set.
LEMMA KeptRows ==
    ASSUME NEW S
    PROVE  \A l \in Seq(Item) :
             Kept(l, S) \in Seq(Item) /\ Range(Kept(l, S)) = Range(l) \cap S
  <1> DEFINE P == {l \in Seq(Item) :
                     Kept(l, S) \in Seq(Item) /\ Range(Kept(l, S)) = Range(l) \cap S}
  <1>1. <<>> \in P
    <2>1. Range(<<>>) = {} /\ <<>> \in Seq(Item)
      BY DEF Range
    <2> QED
      BY <2>1, KeptEmpty
  <1>2. \A l \in Seq(Item), r \in Item : l \in P => Append(l, r) \in P
    <2> SUFFICES ASSUME NEW l \in Seq(Item), NEW r \in Item, Kept(l, S) \in Seq(Item),
                        Range(Kept(l, S)) = Range(l) \cap S
                 PROVE  Append(l, r) \in P
      OBVIOUS
    <2>1. \A q \in Seq(Item) : Append(q, r) \in Seq(Item)
                               /\ Range(Append(q, r)) = Range(q) \cup {r}
      BY AppendedRows
    <2>2. Kept(Append(l, r), S) = IF r \in S THEN Append(Kept(l, S), r) ELSE Kept(l, S)
      BY KeptAppend
    <2> QED
      BY <2>1, <2>2
  <1> HIDE DEF P
  <1>3. \A l \in Seq(Item) : l \in P
    BY <1>1, <1>2, ListsAll
  <1> QED
    BY <1>3 DEF P

\* The whole list is kept if all its rows are.
LEMMA KeptWhole ==
    ASSUME NEW S
    PROVE  \A l \in Seq(Item) : Range(l) \subseteq S => Kept(l, S) = l
  <1> DEFINE P == {l \in Seq(Item) : Range(l) \subseteq S => Kept(l, S) = l}
  <1>1. <<>> \in P
    BY KeptEmpty, EmptySeq
  <1>2. \A l \in Seq(Item), r \in Item : l \in P => Append(l, r) \in P
    BY KeptAppend, AppendedRows
  <1> HIDE DEF P
  <1>3. \A l \in Seq(Item) : l \in P
    BY <1>1, <1>2, ListsAll
  <1> QED
    BY <1>3 DEF P

\* Keeping twice.
LEMMA KeptTwice ==
    ASSUME NEW S, NEW T
    PROVE  \A l \in Seq(Item) : Kept(Kept(l, S), T) = Kept(l, S \cap T)
  <1> DEFINE P == {l \in Seq(Item) : Kept(Kept(l, S), T) = Kept(l, S \cap T)}
  <1>1. <<>> \in P
    BY KeptEmpty, EmptySeq
  <1>2. \A l \in Seq(Item), r \in Item : l \in P => Append(l, r) \in P
    <2> SUFFICES ASSUME NEW l \in Seq(Item), NEW r \in Item,
                        Kept(Kept(l, S), T) = Kept(l, S \cap T)
                 PROVE  Append(l, r) \in P
      OBVIOUS
    <2> DEFINE h == Append(l, r)
               b == Kept(l, S)
               c == Kept(l, S \cap T)
    <2>1. b \in Seq(Item) /\ h \in Seq(Item)
      BY KeptRows, AppendedRows
    <2>2. Kept(h, S) = IF r \in S THEN Append(b, r) ELSE b
      BY KeptAppend
    <2>3. Kept(h, S \cap T) = IF r \in S \cap T THEN Append(c, r) ELSE c
      BY KeptAppend
    <2>4. Kept(b, T) = c
      OBVIOUS
    <2> HIDE DEF h, b, c
    <2>5. Kept(Append(b, r), T) = IF r \in T THEN Append(c, r) ELSE c
      BY <2>1, <2>4, KeptAppend
    <2>6. Kept(Kept(h, S), T) = Kept(h, S \cap T)
      BY <2>2, <2>3, <2>4, <2>5
    <2> QED
      BY <2>1, <2>6 DEF h
  <1> HIDE DEF P
  <1>3. \A l \in Seq(Item) : l \in P
    BY <1>1, <1>2, ListsAll
  <1> QED
    BY <1>3 DEF P

\* No row twice.
OnceEach(l) == \A j, k \in 1 .. Len(l) : l[j].id = l[k].id => j = k

LEMMA OnceAppend ==
    ASSUME NEW l \in Seq(Item), NEW r \in Item
    PROVE  OnceEach(Append(l, r)) <=> OnceEach(l) /\ \A q \in Range(l) : q.id # r.id
  <1>1. /\ Len(l) \in Nat /\ Len(Append(l, r)) = Len(l) + 1 /\ Append(l, r)[Len(l) + 1] = r
        /\ \A k \in 1 .. Len(l) : Append(l, r)[k] = l[k] /\ l[k] \in Range(l)
        /\ \A q \in Range(l) : \E k \in 1 .. Len(l) : l[k] = q
    BY DEF Range
  <1> DEFINE h == Append(l, r)
             m == Len(l)
  <1> HIDE DEF h, m
  <1>2. m \in Nat /\ \A k \in 1 .. m + 1 : k \in 1 .. m \/ k = m + 1
    BY <1>1 DEF m
  <1>3. \A k \in 1 .. m : k # m + 1 /\ k \in 1 .. m + 1
    BY <1>2
  <1> QED
    BY <1>1, <1>2, <1>3 DEF OnceEach, h, m

LEMMA KeptOnce ==
    ASSUME NEW S
    PROVE  \A l \in Seq(Item) : OnceEach(l) => OnceEach(Kept(l, S))
  <1> DEFINE P == {l \in Seq(Item) : OnceEach(l) => OnceEach(Kept(l, S))}
  <1>1. <<>> \in P
    BY KeptEmpty, EmptySeq
  <1>2. \A l \in Seq(Item), r \in Item : l \in P => Append(l, r) \in P
    <2> SUFFICES ASSUME NEW l \in Seq(Item), NEW r \in Item, OnceEach(l) => OnceEach(Kept(l, S)),
                        OnceEach(Append(l, r))
                 PROVE  OnceEach(Kept(Append(l, r), S))
      BY AppendedRows
    <2>1. OnceEach(l) /\ \A q \in Range(l) : q.id # r.id
      BY OnceAppend
    <2>2. Kept(l, S) \in Seq(Item) /\ Range(Kept(l, S)) \subseteq Range(l)
      BY KeptRows
    <2>3. OnceEach(Append(Kept(l, S), r))
      BY <2>1, <2>2, OnceAppend
    <2> QED
      BY <2>1, <2>3, KeptAppend
  <1> HIDE DEF P
  <1>3. \A l \in Seq(Item) : l \in P
    BY <1>1, <1>2, ListsAll
  <1> QED
    BY <1>3 DEF P

\* A list with every row mapped; With is one.
Mapped(l, g) == [k \in 1 .. Len(l) |-> g[l[k]]]

LEMMA MappedList ==
    ASSUME NEW l \in Seq(Item), NEW g \in [Item -> Item]
    PROVE  /\ Mapped(l, g) \in Seq(Item) /\ Len(Mapped(l, g)) = Len(l)
           /\ \A k \in 1 .. Len(l) : l[k] \in Item /\ Mapped(l, g)[k] = g[l[k]]
  BY DEF Mapped

LEMMA MappedAppend ==
    ASSUME NEW l \in Seq(Item), NEW r \in Item, NEW g \in [Item -> Item]
    PROVE  Mapped(Append(l, r), g) = Append(Mapped(l, g), g[r])
  <1> DEFINE a == Mapped(Append(l, r), g)
             b == Append(Mapped(l, g), g[r])
  <1>1. Append(l, r) \in Seq(Item) /\ g[r] \in Item /\ Mapped(l, g) \in Seq(Item)
    BY MappedList
  <1>2. a \in Seq(Item) /\ b \in Seq(Item) /\ Len(a) = Len(l) + 1 /\ Len(b) = Len(l) + 1
        /\ Len(l) \in Nat /\ Len(Append(l, r)) = Len(l) + 1
    <2>1. Len(l) \in Nat /\ Len(Append(l, r)) = Len(l) + 1
      OBVIOUS
    <2>2. a \in Seq(Item) /\ Len(a) = Len(l) + 1
      BY <1>1, <2>1, MappedList
    <2>3. Len(Mapped(l, g)) = Len(l)
      BY MappedList
    <2>4. b \in Seq(Item) /\ Len(b) = Len(l) + 1
      BY <1>1, <2>3
    <2> QED
      BY <2>1, <2>2, <2>4
  <1>3. \A k \in 1 .. Len(l) + 1 : a[k] = b[k]
    <2> SUFFICES ASSUME NEW k \in 1 .. Len(l) + 1 PROVE a[k] = b[k]
      OBVIOUS
    <2>1. a[k] = g[Append(l, r)[k]]
      BY <1>1, <1>2, MappedList
    <2>2. CASE k \in 1 .. Len(l)
      <3>1. Append(l, r)[k] = l[k] /\ b[k] = Mapped(l, g)[k]
        BY <1>1, <2>2, MappedList
      <3> QED
        BY <2>1, <2>2, <3>1, MappedList
    <2>3. CASE k = Len(l) + 1
      <3>1. Append(l, r)[k] = r /\ b[k] = g[r]
        BY <1>1, <2>3, MappedList
      <3> QED
        BY <2>1, <3>1
    <2> QED
      BY <1>2, <2>2, <2>3
  <1> HIDE DEF a, b
  <1>4. a = b
    BY <1>2, <1>3, SeqEqual
  <1> QED
    BY <1>4 DEF a, b

LEMMA KeptMapped ==
    ASSUME NEW S, NEW g \in [Item -> Item], \A r \in Item : r \in S <=> g[r] \in S
    PROVE  \A l \in Seq(Item) : Kept(Mapped(l, g), S) = Mapped(Kept(l, S), g)
  <1> DEFINE P == {l \in Seq(Item) : Kept(Mapped(l, g), S) = Mapped(Kept(l, S), g)}
  <1>1. <<>> \in P
    <2>1. Mapped(<<>>, g) = <<>>
      BY MappedList, EmptySeq
    <2> QED
      BY <2>1, KeptEmpty, EmptySeq
  <1>2. \A l \in Seq(Item), r \in Item : l \in P => Append(l, r) \in P
    <2> SUFFICES ASSUME NEW l \in Seq(Item), NEW r \in Item,
                        Kept(Mapped(l, g), S) = Mapped(Kept(l, S), g)
                 PROVE  Append(l, r) \in P
      OBVIOUS
    <2>1. Mapped(l, g) \in Seq(Item) /\ g[r] \in Item /\ Kept(l, S) \in Seq(Item)
          /\ Append(l, r) \in Seq(Item)
      BY MappedList, KeptRows, AppendedRows
    <2>2. Kept(Mapped(Append(l, r), g), S) = Kept(Append(Mapped(l, g), g[r]), S)
      BY MappedAppend
    <2>3. @ = IF g[r] \in S THEN Append(Kept(Mapped(l, g), S), g[r]) ELSE Kept(Mapped(l, g), S)
      BY <2>1, KeptAppend
    <2>4. @ = Mapped(Kept(Append(l, r), S), g)
      <3>1. CASE r \in S
        <4>1. Kept(Append(l, r), S) = Append(Kept(l, S), r)
          BY <3>1, KeptAppend
        <4>2. Mapped(Append(Kept(l, S), r), g) = Append(Mapped(Kept(l, S), g), g[r])
          BY <2>1, MappedAppend
        <4> QED
          BY <3>1, <4>1, <4>2
      <3>2. CASE r \notin S
        BY <3>2, KeptAppend
      <3> QED
        BY <3>1, <3>2
    <2> QED
      BY <2>1, <2>2, <2>3, <2>4
  <1> HIDE DEF P
  <1>3. \A l \in Seq(Item) : l \in P
    BY <1>1, <1>2, ListsAll
  <1> QED
    BY <1>3 DEF P

-----------------------------------------------------------------------------
\* Lists with one row replaced, two rows swapped, and their ids.
LEMMA WithList ==
    ASSUME NEW l \in Seq(Item), NEW n \in Item
    PROVE  /\ With(l, n) \in Seq(Item) /\ Len(With(l, n)) = Len(l)
           /\ \A k \in 1 .. Len(l) : With(l, n)[k] = IF l[k].id = n.id THEN n ELSE l[k]
  BY DEF With

LEMMA AtList ==
    ASSUME NEW l \in Seq(Item), NEW x, Has(l, x)
    PROVE  At(l, x) \in Item /\ At(l, x).id = x /\ At(l, x) \in Range(l)
  <1>1. \E k \in 1 .. Len(l) : l[k].id = x
    BY DEF Has
  <1> DEFINE j == CHOOSE k \in 1 .. Len(l) : l[k].id = x
  <1>2. j \in 1 .. Len(l) /\ l[j].id = x
    BY <1>1
  <1>3. At(l, x) = l[j]
    BY DEF At
  <1> HIDE DEF j
  <1>4. DOMAIN l = 1 .. Len(l) /\ l[j] \in Item
    BY <1>2
  <1> QED
    BY <1>2, <1>3, <1>4 DEF Range

LEMMA IdsList ==
    ASSUME NEW l \in Seq(Item)
    PROVE  /\ IdsOf(l) \in Seq(Ids) /\ Len(IdsOf(l)) = Len(l)
           /\ \A k \in 1 .. Len(l) : IdsOf(l)[k] = l[k].id
  <1>1. Len(l) \in Nat /\ \A k \in 1 .. Len(l) : l[k].id \in Ids
    <2>1. \A r \in Item : r.id \in Ids
      BY DEF Item
    <2> QED
      BY <2>1, ElementOfSeq
  <1> DEFINE m == Len(l)
             h == IdsOf(l)
  <1>2. h = [k \in 1 .. m |-> l[k].id]
    BY DEF IdsOf
  <1>3. h \in [1 .. m -> Ids] /\ \A k \in 1 .. m : h[k] = l[k].id
    BY <1>1, <1>2
  <1> HIDE DEF m, h
  <1>4. h \in Seq(Ids) /\ Len(h) = m
    BY <1>1, <1>3 DEF m
  <1> QED
    BY <1>3, <1>4 DEF m, h

LEMMA SwappedList ==
    ASSUME NEW l \in Seq(Item), NEW k \in 1 .. Len(l) - 1
    PROVE  Swapped(l, k) \in Seq(Item)
  <1>1. k \in 1 .. Len(l) /\ k + 1 \in 1 .. Len(l) /\ l[k] \in Item /\ l[k + 1] \in Item
    OBVIOUS
  <1> DEFINE a == [l EXCEPT ![k] = l[k + 1]]
  <1>2. a \in Seq(Item) /\ Len(a) = Len(l)
    BY <1>1, ExceptSeq
  <1>3. Swapped(l, k) = [a EXCEPT ![k + 1] = l[k]]
    BY DEF Swapped
  <1> HIDE DEF a
  <1> QED
    BY <1>1, <1>2, <1>3, ExceptSeq

LEMMA FilteredList ==
    ASSUME NEW l \in Seq(Item), NEW f
    PROVE  Filtered(l, f) \in Seq(Item)
  BY KeptRows DEF Filtered

LEMMA WithoutList ==
    ASSUME NEW l \in Seq(Item), NEW x
    PROVE  Without(l, x) \in Seq(Item) /\ Range(Without(l, x)) = {r \in Range(l) : r.id # x}
  <1>1. Range(l) \subseteq Item
    BY DEF Range
  <1> QED
    BY <1>1, KeptRows DEF Without

\* The order a reorder call is served with names every row.
LEMMA OrderedList ==
    ASSUME NEW l \in Seq(Item), NEW o \in Seq(Ids), Range(o) = Range(IdsOf(l))
    PROVE  LET h == [k \in 1 .. Len(o) |-> At(l, o[k])] IN
             /\ h \in Seq(Item) /\ Len(h) = Len(o)
             /\ \A k \in 1 .. Len(o) : h[k].id = o[k]
  <1>1. \A k \in 1 .. Len(o) : Has(l, o[k])
    <2> SUFFICES ASSUME NEW k \in 1 .. Len(o) PROVE Has(l, o[k])
      OBVIOUS
    <2>1. o[k] \in Range(IdsOf(l))
      <3>1. k \in DOMAIN o
        OBVIOUS
      <3>2. o[k] \in Range(o)
        BY <3>1 DEF Range
      <3> QED
        BY <3>2
    <2>2. PICK j \in DOMAIN IdsOf(l) : o[k] = IdsOf(l)[j]
      BY <2>1 DEF Range
    <2>3. j \in 1 .. Len(l) /\ o[k] = l[j].id
      BY <2>2 DEF IdsOf
    <2> QED
      BY <2>3 DEF Has
  <1>2. \A k \in 1 .. Len(o) : At(l, o[k]) \in Item /\ At(l, o[k]).id = o[k]
    BY <1>1, AtList
  <1>3. Len(o) \in Nat
    OBVIOUS
  <1> QED
    BY <1>2, <1>3

-----------------------------------------------------------------------------
\* Calls of the type they have.
LEMMA CallTyped ==
    ASSUME NEW c
    PROVE  c \in Calls <=>
             /\ IsCall(c) /\ c.op \in Ops /\ c.id \in Ids \cup {NoId} /\ c.value \in BOOLEAN
             /\ c.order \in Seq(Ids) /\ c.base \in Seq(Item) /\ c.filter \in Filters
             /\ c.step \in {"sent", "ok", "refused"} /\ c.answer \in Seq(Item)
  BY DEF IsCall, Calls

LEMMA CallOfTyped ==
    ASSUME NEW op \in Ops, NEW x \in Ids \cup {NoId}
    PROVE  CallOf(op, x) \in Calls
  BY DEF CallOf, Calls, Filters

LEMMA IdleTyped == Idle \in Calls
  BY CallOfTyped DEF Idle, Ops

LEMMA LoadTyped == \A f \in Filters : LoadOf(f) \in Calls
  <1> SUFFICES ASSUME NEW f \in Filters PROVE LoadOf(f) \in Calls
    OBVIOUS
  <1> DEFINE c == CallOf("load", NoId)
  <1>1. c \in Calls
    BY CallOfTyped DEF Ops
  <1>2. LoadOf(f) = [c EXCEPT !.filter = f]
    BY DEF LoadOf
  <1> HIDE DEF c
  <1>3. IsCall(c)
    BY <1>1, CallTyped
  <1> DEFINE d == [c EXCEPT !.filter = f]
  <1>4. /\ IsCall(d) /\ d.filter = f
        /\ d.op = c.op /\ d.id = c.id /\ d.value = c.value /\ d.order = c.order
        /\ d.base = c.base /\ d.step = c.step /\ d.answer = c.answer
    BY <1>3, FilterShaped
  <1> HIDE DEF d
  <1>5. d \in Calls
    BY <1>1, <1>4, CallTyped
  <1> QED
    BY <1>2, <1>5 DEF d

\* What a call in flight tells of the rows it is about.
CallTells(c) ==
    /\ c.op = "create" => c.id = NoId /\ (c.step = "ok" => \E y \in Ids : c.answer = <<New(y)>>)
    /\ c.op \in {"edit", "flag", "delete"} => c.id \in Ids
    /\ c.op = "edit" /\ c.step = "ok" => \E q \in Item : q.id = c.id /\ c.answer = <<q>>
    /\ c.op = "flag" /\ page = "topic" => \E b \in Item : b.id = c.id /\ c.base = <<b>>
    /\ page = "topic" => c.op \in {"idle", "create", "edit", "flag", "delete", "reorder", "bulk"}
    /\ page = "drafts" => c.op \in {"idle", "create", "edit", "delete", "reorder"}
CallsTell == \A s \in Slots : CallTells(calls[s])

Flags == Ops \X (Ids \cup {NoId})
TypeInv == TypeOK /\ CallsTell

LEMMA IdleTells == CallTells(Idle)
  BY IdleMade DEF CallTells

LEMMA InitTypes == Init => TypeInv
  <1> SUFFICES ASSUME Init PROVE TypeInv
    OBVIOUS
  <1>1. PICK list \in [1 .. IF page = "detail" THEN 1 ELSE 2 ->
                         [id : Ids, flag : BOOLEAN, text : {FALSE}]] :
          server = list /\ items = (IF page = "library" THEN <<>> ELSE list)
          /\ used = Range(IdsOf(list))
    BY DEF Init
  <1>2. list \in Seq(Item)
    <2>1. \E n \in Nat : list \in [1 .. n -> Item]
      BY DEF Item
    <2> QED
      BY <2>1, SeqDef
  <1>3. used \subseteq Ids
    <2>1. IdsOf(list) \in Seq(Ids)
      BY <1>2, IdsList
    <2> QED
      BY <1>1, <2>1 DEF Range
  <1>4. server \in Seq(Item) /\ items \in Seq(Item)
    BY <1>1, <1>2
  <1>5. calls \in [Slots -> Calls] /\ CallsTell
    <2>1. PICK s \in Slots :
            calls = [x \in Slots |-> IF page = "library" /\ x = s THEN LoadOf("all") ELSE Idle]
      BY DEF Init
    <2>2. LoadOf("all") \in Calls
      BY LoadTyped DEF Filters
    <2>3. page = "library" => CallTells(LoadOf("all"))
      BY LoadsMade DEF CallTells
    <2> QED
      BY <2>1, <2>2, <2>3, IdleTyped, IdleTells DEF CallsTell
  <1>6. /\ page \in Pages \cup {"left"} /\ busy \subseteq Flags /\ query \in Queries /\ form \in Forms
        /\ made \in 0 .. MaxCalls /\ lost \in BOOLEAN /\ clash \in BOOLEAN
    <2>1. form \in Forms /\ query \in Queries
      <3>1. form \in Forms
        BY InitShaped DEF Shaped
      <3>2. query = [filter |-> "all", shown |-> IF page = "library" THEN "none" ELSE "all"]
        BY DEF Init
      <3> QED
        BY <3>1, <3>2 DEF Queries, Filters
    <2>2. /\ page \in Pages \cup {"left"} /\ busy \subseteq Flags
          /\ made \in 0 .. MaxCalls /\ lost \in BOOLEAN /\ clash \in BOOLEAN
      <3>1. page \in Pages /\ busy = {} /\ made = 0 /\ lost = FALSE /\ clash = FALSE
        BY DEF Init
      <3>2. 0 \in 0 .. MaxCalls
        BY PageAssumption
      <3> QED
        BY <3>1, <3>2
    <2> QED
      BY <2>1, <2>2
  <1> QED
    BY <1>3, <1>4, <1>5, <1>6 DEF TypeInv, TypeOK, Flags

\* A call started, ended, or replaced by a load.
Settles == page' \in Pages \cup {"left"} /\ used' \subseteq Ids /\ made' \in 0 .. MaxCalls
           /\ lost' \in BOOLEAN /\ clash' \in BOOLEAN /\ busy' \subseteq Flags

LEMMA StartsTyped ==
    ASSUME TypeInv, NEW s \in Slots, NEW c \in Calls, CallTells(c), NEW flags \in SUBSET Flags,
           Starts(s, c, flags)
    PROVE  Settles /\ calls' \in [Slots -> Calls] /\ CallsTell' /\ server' \in Seq(Item)
  <1>1. calls' = [calls EXCEPT ![s] = c] /\ calls \in [Slots -> Calls] /\ page' = page
    BY DEF Starts, TypeInv, TypeOK
  <1>2. calls' \in [Slots -> Calls] /\ calls'[s] = c /\ \A x \in Slots \ {s} : calls'[x] = calls[x]
    BY <1>1
  <1>3. CallsTell'
    BY <1>1, <1>2 DEF CallsTell, CallTells, TypeInv
  <1>4. made' \in 0 .. MaxCalls
    BY PageAssumption DEF Starts, Free, TypeInv, TypeOK
  <1>5. clash' \in BOOLEAN
    BY DEF Starts, Clashes, TypeInv, TypeOK
  <1> QED
    BY <1>2, <1>3, <1>4, <1>5 DEF Starts, TypeInv, TypeOK, Flags, Settles

LEMMA EndsTyped ==
    ASSUME TypeInv, NEW s \in Slots, NEW flags, Ends(s, flags), lost' \in BOOLEAN
    PROVE  Settles /\ calls' \in [Slots -> Calls] /\ CallsTell' /\ server' \in Seq(Item)
  <1>1. calls' = [calls EXCEPT ![s] = Idle] /\ calls \in [Slots -> Calls] /\ page' = page
    BY DEF Ends, TypeInv, TypeOK
  <1>2. /\ calls' \in [Slots -> Calls] /\ calls'[s] = Idle
        /\ \A x \in Slots \ {s} : calls'[x] = calls[x]
    BY <1>1, IdleTyped
  <1>3. CallsTell'
    BY <1>1, <1>2, IdleTells DEF CallsTell, CallTells, TypeInv
  <1> QED
    BY <1>2, <1>3 DEF Ends, TypeInv, TypeOK, Flags, Settles

LEMMA ReplacedTyped ==
    ASSUME TypeInv, NEW s \in Slots, NEW f \in Filters, page' = page,
           page \notin {"topic", "drafts"},
           calls' = [x \in Slots |-> IF x = s THEN LoadOf(f)
                                     ELSE IF x \in Cancelled THEN Idle ELSE calls[x]]
    PROVE  calls' \in [Slots -> Calls] /\ CallsTell'
  <1>1. calls \in [Slots -> Calls] /\ CallsTell
    BY DEF TypeInv, TypeOK
  <1>2. LoadOf(f) \in Calls /\ CallTells(LoadOf(f))
    BY LoadTyped, LoadsMade DEF CallTells
  <1>3. calls' \in [Slots -> Calls]
    BY <1>1, <1>2, IdleTyped
  <1>4. \A x \in Slots : calls'[x] \in {LoadOf(f), Idle, calls[x]}
    BY <1>1
  <1>5. \A x \in Slots : CallTells(calls'[x])
    BY <1>1, <1>2, <1>4, IdleTells DEF CallsTell
  <1> QED
    BY <1>3, <1>5 DEF CallsTell, CallTells

\* What is left of the type once calls and list are typed.
LEMMA TypesMet ==
    ASSUME Settles, calls' \in [Slots -> Calls], CallsTell', server' \in Seq(Item),
           items' \in Seq(Item), query' \in Queries, form' \in Forms
    PROVE  TypeInv'
  BY DEF Settles, TypeInv, TypeOK, Flags

LEMMA FlagIn ==
    ASSUME NEW op \in Ops, NEW x \in Ids \cup {NoId}
    PROVE  {<<op, x>>} \in SUBSET Flags
  BY DEF Flags

LEMMA RowIs ==
    ASSUME NEW l \in Seq(Item), NEW k \in 1 .. Len(l)
    PROVE  l[k] \in Item /\ l[k].id \in Ids /\ l[k].flag \in BOOLEAN /\ l[k].text \in BOOLEAN
           /\ l[k] \in Range(l)
  <1>1. l[k] \in Item /\ k \in DOMAIN l
    OBVIOUS
  <1>2. \A r \in Item : r.id \in Ids /\ r.flag \in BOOLEAN /\ r.text \in BOOLEAN
    BY DEF Item
  <1> QED
    BY <1>1, <1>2 DEF Range

LEMMA RowSet ==
    ASSUME NEW r \in Item, NEW v \in BOOLEAN
    PROVE  /\ [r EXCEPT !.flag = v] \in Item /\ [r EXCEPT !.text = v] \in Item
           /\ [r EXCEPT !.flag = v].id = r.id /\ [r EXCEPT !.text = v].id = r.id
           /\ [r EXCEPT !.flag = v].flag = v
           /\ [r EXCEPT !.flag = v].text = r.text /\ [r EXCEPT !.text = v].flag = r.flag
  BY DEF Item

\* A move, and an edit, as the calls they make.
MoveCall(list, k) == [CallOf("reorder", NoId) EXCEPT !.order = IdsOf(Swapped(list, k))]
EditCall(x, v) == [CallOf("edit", x) EXCEPT !.value = v]
FlagCall(x, v) == [CallOf("flag", x) EXCEPT !.value = v]
BasedOn(c, list) == [c EXCEPT !.base = list]

LEMMA MoveTyped ==
    ASSUME NEW l \in Seq(Item), NEW k \in 1 .. Len(l) - 1
    PROVE  LET d == MoveCall(l, k) IN
             /\ d \in Calls /\ d.op = "reorder" /\ d.id = NoId /\ d.step = "sent"
             /\ d.order = IdsOf(Swapped(l, k))
  <1> DEFINE c == CallOf("reorder", NoId)
             o == IdsOf(Swapped(l, k))
             d == [c EXCEPT !.order = o]
  <1>1. c \in Calls /\ IsCall(c) /\ c.op = "reorder" /\ c.id = NoId /\ c.step = "sent"
    BY CallOfTyped, CallsMade DEF Ops, Wide
  <1>2. o \in Seq(Ids)
    BY SwappedList, IdsList
  <1>3. MoveCall(l, k) = d
    BY DEF MoveCall
  <1> HIDE DEF c, o
  <1>4. /\ IsCall(d) /\ d.order = o
        /\ d.op = c.op /\ d.id = c.id /\ d.value = c.value /\ d.base = c.base
        /\ d.filter = c.filter /\ d.step = c.step /\ d.answer = c.answer
    BY <1>1, OrderShaped
  <1> HIDE DEF d
  <1>5. d \in Calls
    BY <1>1, <1>2, <1>4, CallTyped
  <1> QED
    BY <1>1, <1>3, <1>4, <1>5 DEF o

LEMMA ValuedTyped ==
    ASSUME NEW x \in Ids, NEW v \in BOOLEAN
    PROVE  /\ EditCall(x, v) \in Calls /\ EditCall(x, v).op = "edit" /\ EditCall(x, v).id = x
           /\ EditCall(x, v).step = "sent"
           /\ FlagCall(x, v) \in Calls /\ FlagCall(x, v).op = "flag" /\ FlagCall(x, v).id = x
           /\ FlagCall(x, v).step = "sent" /\ FlagCall(x, v).value = v
  <1>1. ASSUME NEW op \in {"edit", "flag"}
        PROVE  LET d == [CallOf(op, x) EXCEPT !.value = v] IN
                 d \in Calls /\ d.op = op /\ d.id = x /\ d.step = "sent" /\ d.value = v
    <2> DEFINE c == CallOf(op, x)
               d == [c EXCEPT !.value = v]
    <2>1. c \in Calls /\ IsCall(c) /\ c.op = op /\ c.id = x /\ c.step = "sent"
      BY CallOfTyped, CallsMade DEF Ops
    <2> HIDE DEF c
    <2>2. /\ IsCall(d) /\ d.value = v
          /\ d.op = c.op /\ d.id = c.id /\ d.order = c.order /\ d.base = c.base
          /\ d.filter = c.filter /\ d.step = c.step /\ d.answer = c.answer
      BY <2>1, ValueShaped
    <2>3. [CallOf(op, x) EXCEPT !.value = v] = d
      BY DEF c
    <2> HIDE DEF d
    <2>4. d \in Calls
      BY <2>1, <2>2, CallTyped
    <2> QED
      BY <2>1, <2>2, <2>3, <2>4
  <1> QED
    BY <1>1 DEF EditCall, FlagCall

LEMMA BasedTyped ==
    ASSUME NEW c \in Calls, NEW l \in Seq(Item)
    PROVE  LET d == BasedOn(c, l) IN
             /\ d \in Calls /\ d.op = c.op /\ d.id = c.id /\ d.value = c.value
             /\ d.order = c.order /\ d.step = c.step /\ d.answer = c.answer /\ d.base = l
  <1> DEFINE d == [c EXCEPT !.base = l]
  <1>1. /\ IsCall(d) /\ d.base = l
        /\ d.op = c.op /\ d.id = c.id /\ d.value = c.value /\ d.order = c.order
        /\ d.filter = c.filter /\ d.step = c.step /\ d.answer = c.answer
    BY CallTyped, BaseShaped
  <1>2. BasedOn(c, l) = d
    BY DEF BasedOn
  <1> HIDE DEF d
  <1>3. d \in Calls
    BY <1>1, CallTyped
  <1> QED
    BY <1>1, <1>2, <1>3

-----------------------------------------------------------------------------
\* What the topic page makes of its list is a list of rows.
LEMMA PatchedTyped ==
    ASSUME TypeInv, page = "topic", NEW s \in Slots, calls[s].step = "ok"
    PROVE  Patched(items, calls[s]) \in Seq(Item)
  <1> DEFINE c == calls[s]
  <1>1. items \in Seq(Item) /\ c \in Calls /\ CallTells(c)
    BY DEF TypeInv, TypeOK, CallsTell
  <1>2. c.answer \in Seq(Item) /\ c.step = "ok"
    BY <1>1, CallTyped
  <1> SUFFICES Patched(items, c) \in Seq(Item)
    OBVIOUS
  <1> HIDE DEF c
  <1>3. CASE c.op \in {"reorder", "bulk"}
    BY <1>2, <1>3 DEF Patched
  <1>4. CASE c.op = "create"
    <2>1. Patched(items, c) = items \o c.answer
      BY <1>4 DEF Patched
    <2> QED
      BY <1>1, <1>2, <2>1, ConcatProperties
  <1>5. CASE c.op = "edit"
    <2>1. PICK q \in Item : c.answer = <<q>>
      BY <1>1, <1>2, <1>5 DEF CallTells
    <2>2. Patched(items, c) = With(items, q)
      BY <1>5, <2>1 DEF Patched
    <2> QED
      BY <1>1, <2>2, WithList
  <1>6. CASE c.op = "delete"
    <2>1. Patched(items, c) = Without(items, c.id)
      BY <1>6 DEF Patched
    <2> QED
      BY <1>1, <2>1, WithoutList
  <1>7. CASE c.op \notin {"reorder", "bulk", "create", "edit", "delete"}
    <2>1. Patched(items, c) = items
      BY <1>7 DEF Patched
    <2> QED
      BY <1>1, <2>1
  <1> QED
    BY <1>3, <1>4, <1>5, <1>6, <1>7

LEMMA RevertedTyped ==
    ASSUME TypeInv, page = "topic", NEW s \in Slots
    PROVE  Reverted(items, calls[s]) \in Seq(Item)
  <1> DEFINE c == calls[s]
  <1>1. items \in Seq(Item) /\ CallTells(c)
    BY DEF TypeInv, TypeOK, CallsTell
  <1> SUFFICES Reverted(items, c) \in Seq(Item)
    OBVIOUS
  <1> HIDE DEF c
  <1>2. CASE c.op = "flag" /\ Has(items, c.id)
    <2>1. PICK b \in Item : c.base = <<b>>
      BY <1>1, <1>2 DEF CallTells
    <2> DEFINE r == At(items, c.id)
    <2>2. r \in Item
      BY <1>1, <1>2, AtList
    <2>3. Reverted(items, c) = With(items, [r EXCEPT !.flag = b.flag])
      BY <1>2, <2>1 DEF Reverted
    <2> HIDE DEF r
    <2>4. [r EXCEPT !.flag = b.flag] \in Item
      <3>1. b.flag \in BOOLEAN
        BY DEF Item
      <3> QED
        BY <2>2, <3>1, RowSet
    <2> QED
      BY <1>1, <2>3, <2>4, WithList
  <1>3. CASE ~(c.op = "flag" /\ Has(items, c.id))
    <2>1. Reverted(items, c) = items
      BY <1>3 DEF Reverted
    <2> QED
      BY <1>1, <2>1
  <1> QED
    BY <1>2, <1>3

\* A call of the topic page started.
LEMMA TopicStartTyped ==
    ASSUME TypeInv, page = "topic", NEW s \in Slots, NEW c \in Calls, CallTells(c),
           NEW flags \in SUBSET Flags, Starts(s, c, flags), items' \in Seq(Item),
           query' = query, form' = form
    PROVE  TypeInv'
  <1>1. query' \in Queries /\ form' \in Forms
    BY DEF TypeInv, TypeOK
  <1> QED
    BY <1>1, StartsTyped, TypesMet

LEMMA TopicTyped ==
    ASSUME TypeInv, NEW s \in Slots, TopicSteps(s)
    PROVE  TypeInv'
  <1>1. /\ page = "topic" /\ query' = query /\ form' = form
        /\ items \in Seq(Item) /\ query \in Queries /\ form \in Forms
    BY DEF TypeInv, TypeOK, TopicSteps, MoveQuestion, ToggleDrafted, AddQuestion,
           BulkAddQuestions, EditQuestion, DeleteQuestion, TopicAnswered, onTopic
  <1>2. {} \in SUBSET Flags /\ {<<"create", NoId>>} \in SUBSET Flags
        /\ {<<"bulk", NoId>>} \in SUBSET Flags
        /\ \A x \in Ids : {<<"edit", x>>} \in SUBSET Flags /\ {<<"delete", x>>} \in SUBSET Flags
    BY FlagIn DEF Ops, Wide
  <1>3. ASSUME NEW op \in {"create", "bulk"}
        PROVE  CallOf(op, NoId) \in Calls /\ CallTells(CallOf(op, NoId))
    <2> DEFINE c == CallOf(op, NoId)
    <2>1. c \in Calls /\ c.op = op /\ c.id = NoId /\ c.step = "sent"
      BY CallOfTyped, CallsMade DEF Ops, Wide
    <2> HIDE DEF c
    <2>2. CallTells(c)
      BY <1>1, <2>1 DEF CallTells
    <2> QED
      BY <2>1, <2>2 DEF c
  <1>4. CASE MoveQuestion(s)
    <2>1. PICK k \in 1 .. Len(items) - 1 : Starts(s, MoveCall(items, k), {})
      BY <1>4 DEF MoveQuestion, MoveCall
    <2>2. MoveCall(items, k) \in Calls /\ CallTells(MoveCall(items, k))
      BY <1>1, MoveTyped DEF CallTells
    <2>3. items' \in Seq(Item)
      BY <1>1, <1>4 DEF MoveQuestion
    <2> QED
      BY <1>1, <1>2, <2>1, <2>2, <2>3, TopicStartTyped
  <1>5. CASE ToggleDrafted(s)
    <2>1. PICK k \in 1 .. Len(items) :
            /\ Starts(s, BasedOn(FlagCall(items[k].id, [items[k] EXCEPT !.flag = ~@].flag),
                                 <<items[k]>>), {})
            /\ items' = With(items, [items[k] EXCEPT !.flag = ~@])
      BY <1>5 DEF ToggleDrafted, BasedOn, FlagCall
    <2> DEFINE old == items[k]
               new == [old EXCEPT !.flag = ~@]
               c == BasedOn(FlagCall(old.id, new.flag), <<old>>)
    <2>2. old \in Item /\ old.id \in Ids /\ old.flag \in BOOLEAN
      BY <1>1, RowIs
    <2>4. Starts(s, c, {}) /\ items' = With(items, new)
      BY <2>1
    <2> HIDE DEF old
    <2>3. new \in Item /\ new.flag \in BOOLEAN
      <3> DEFINE v == ~old.flag
      <3>1. new = [old EXCEPT !.flag = v] /\ v \in BOOLEAN
        OBVIOUS
      <3> HIDE DEF v, new
      <3> QED
        BY <2>2, <3>1, RowSet
    <2> HIDE DEF new
    <2>5. c \in Calls /\ c.op = "flag" /\ c.id = old.id /\ c.base = <<old>>
      <3>1. <<old>> \in Seq(Item)
        BY <2>2
      <3>2. FlagCall(old.id, new.flag) \in Calls /\ FlagCall(old.id, new.flag).op = "flag"
            /\ FlagCall(old.id, new.flag).id = old.id
        BY <2>2, <2>3, ValuedTyped
      <3> QED
        BY <3>1, <3>2, BasedTyped
    <2> HIDE DEF c
    <2>6. CallTells(c)
      BY <1>1, <2>2, <2>5 DEF CallTells
    <2>7. items' \in Seq(Item)
      BY <1>1, <2>3, <2>4, WithList
    <2> QED
      BY <1>1, <1>2, <2>4, <2>5, <2>6, <2>7, TopicStartTyped
  <1>6. CASE AddQuestion(s) \/ BulkAddQuestions(s)
    <2>1. items' \in Seq(Item)
      BY <1>1, <1>6 DEF AddQuestion, BulkAddQuestions
    <2> QED
      BY <1>1, <1>2, <1>3, <1>6, <2>1, TopicStartTyped DEF AddQuestion, BulkAddQuestions
  <1>7. CASE EditQuestion(s)
    <2>1. PICK k \in 1 .. Len(items) :
            Starts(s, EditCall(items[k].id, ~items[k].text), {<<"edit", items[k].id>>})
      BY <1>7 DEF EditQuestion, EditCall
    <2>2. items[k].id \in Ids
      BY <1>1, RowIs
    <2> DEFINE c == EditCall(items[k].id, ~items[k].text)
    <2>3. c \in Calls /\ c.op = "edit" /\ c.id = items[k].id /\ c.step = "sent"
      BY <2>2, ValuedTyped
    <2>4. Starts(s, c, {<<"edit", items[k].id>>})
      BY <2>1
    <2> HIDE DEF c
    <2>5. CallTells(c)
      BY <1>1, <2>2, <2>3 DEF CallTells
    <2>6. items' \in Seq(Item)
      BY <1>1, <1>7 DEF EditQuestion
    <2> QED
      BY <1>1, <1>2, <2>2, <2>3, <2>4, <2>5, <2>6, TopicStartTyped
  <1>8. CASE DeleteQuestion(s)
    <2>1. PICK k \in 1 .. Len(items) :
            Starts(s, CallOf("delete", items[k].id), {<<"delete", items[k].id>>})
      BY <1>8 DEF DeleteQuestion
    <2>2. items[k].id \in Ids
      BY <1>1, RowIs
    <2> DEFINE c == CallOf("delete", items[k].id)
    <2>3. c \in Calls /\ c.op = "delete" /\ c.id = items[k].id
      BY <2>2, CallOfTyped, CallsMade DEF Ops
    <2>4. Starts(s, c, {<<"delete", items[k].id>>})
      BY <2>1
    <2> HIDE DEF c
    <2>5. CallTells(c)
      BY <1>1, <2>2, <2>3 DEF CallTells
    <2>6. items' \in Seq(Item)
      BY <1>1, <1>8 DEF DeleteQuestion
    <2> QED
      BY <1>1, <1>2, <2>2, <2>3, <2>4, <2>5, <2>6, TopicStartTyped
  <1>9. CASE TopicAnswered(s)
    <2>1. /\ items' = IF calls[s].step = "ok" THEN Patched(items, calls[s])
                      ELSE Reverted(items, calls[s])
          /\ Ends(s, {<<calls[s].op, calls[s].id>>}) /\ lost' = lost
      BY <1>9 DEF TopicAnswered
    <2>2. items' \in Seq(Item)
      BY <1>1, <2>1, PatchedTyped, RevertedTyped
    <2>3. lost' \in BOOLEAN
      BY <2>1 DEF TypeInv, TypeOK
    <2> QED
      BY <1>1, <2>1, <2>2, <2>3, EndsTyped, TypesMet
  <1> QED
    BY <1>4, <1>5, <1>6, <1>7, <1>8, <1>9 DEF TopicSteps

-----------------------------------------------------------------------------
\* The drafts panel; its forms are typed with its other invariant.
LEMMA DraftStepsTyped ==
    ASSUME TypeInv, form' \in Forms, DraftSteps
    PROVE  TypeInv'
  <1>1. UNCHANGED <<page, server, items, busy, calls, query, used, made, lost, clash>>
    BY DEF DraftSteps, StartCreate, CloseCreate, BeginEdit, CloseEdit, onDrafts, Quiet
  <1> QED
    BY <1>1 DEF TypeInv, TypeOK, CallsTell, CallTells

LEMMA DraftCallsTyped ==
    ASSUME TypeInv, form' \in Forms, NEW s \in Slots, DraftCalls(s)
    PROVE  TypeInv'
  <1>1. /\ page = "drafts" /\ query' = query
        /\ items \in Seq(Item) /\ query \in Queries /\ form \in Forms
    BY DEF TypeInv, TypeOK, DraftCalls, CreateDraft, SaveEdit, RemoveDraft, MoveDraft,
           DraftAnswered, onDrafts
  <1>2. {<<"create", NoId>>} \in SUBSET Flags /\ {<<"reorder", NoId>>} \in SUBSET Flags
        /\ \A x \in Ids : {<<"edit", x>>} \in SUBSET Flags /\ {<<"delete", x>>} \in SUBSET Flags
    BY FlagIn DEF Ops, Wide
  <1>3. ASSUME NEW c \in Calls, CallTells(c), NEW flags \in SUBSET Flags, Starts(s, c, flags),
               items' \in Seq(Item)
        PROVE  TypeInv'
    BY <1>1, <1>3, StartsTyped, TypesMet
  <1>4. CASE CreateDraft(s)
    <2> DEFINE c == CallOf("create", NoId)
    <2>1. c \in Calls /\ c.op = "create" /\ c.id = NoId /\ c.step = "sent"
      BY CallOfTyped, CallsMade DEF Ops
    <2>2. Starts(s, c, {<<"create", NoId>>}) /\ items' \in Seq(Item)
      BY <1>1, <1>4 DEF CreateDraft
    <2> HIDE DEF c
    <2>3. CallTells(c)
      BY <1>1, <2>1 DEF CallTells
    <2> QED
      BY <1>2, <1>3, <2>1, <2>2, <2>3
  <1>5. CASE SaveEdit(s)
    <2>1. /\ form.editing # NoId /\ items' = items /\ Has(items, form.editing)
          /\ Starts(s, EditCall(form.editing, ~At(items, form.editing).text),
                    {<<"edit", form.editing>>})
      BY <1>5 DEF SaveEdit, EditCall
    <2> DEFINE c == EditCall(form.editing, ~At(items, form.editing).text)
    <2>2. form.editing \in Ids
      BY <1>1, <2>1 DEF Forms
    <2>3. c \in Calls /\ c.op = "edit" /\ c.id = form.editing /\ c.step = "sent"
      BY <2>2, ValuedTyped
    <2>4. Starts(s, c, {<<"edit", form.editing>>})
      BY <2>1
    <2> HIDE DEF c
    <2>5. CallTells(c)
      BY <1>1, <2>2, <2>3 DEF CallTells
    <2> QED
      BY <1>1, <1>2, <1>3, <2>1, <2>2, <2>3, <2>4, <2>5
  <1>6. CASE RemoveDraft(s)
    <2>1. PICK x \in Ids : Starts(s, CallOf("delete", x), {<<"delete", x>>})
      BY <1>6 DEF RemoveDraft
    <2> DEFINE c == CallOf("delete", x)
    <2>2. c \in Calls /\ c.op = "delete" /\ c.id = x
      BY CallOfTyped, CallsMade DEF Ops
    <2>3. Starts(s, c, {<<"delete", x>>}) /\ items' \in Seq(Item)
      BY <1>1, <1>6, <2>1 DEF RemoveDraft
    <2> HIDE DEF c
    <2>4. CallTells(c)
      BY <1>1, <2>2 DEF CallTells
    <2> QED
      BY <1>2, <1>3, <2>2, <2>3, <2>4
  <1>7. CASE MoveDraft(s)
    <2>1. PICK k \in 1 .. Len(items) - 1 :
            /\ Starts(s, BasedOn(MoveCall(items, k), items), {<<"reorder", NoId>>})
            /\ items' = Swapped(items, k)
      BY <1>7 DEF MoveDraft, MoveCall, BasedOn
    <2> DEFINE c == BasedOn(MoveCall(items, k), items)
    <2>2. c \in Calls /\ c.op = "reorder"
      BY <1>1, MoveTyped, BasedTyped
    <2>3. Starts(s, c, {<<"reorder", NoId>>}) /\ items' \in Seq(Item)
      BY <1>1, <2>1, SwappedList
    <2> HIDE DEF c
    <2>4. CallTells(c)
      BY <1>1, <2>2 DEF CallTells
    <2> QED
      BY <1>2, <1>3, <2>2, <2>3, <2>4
  <1>8. CASE DraftAnswered(s)
    <2> DEFINE c == calls[s]
    <2>1. /\ c.op \in {"create", "edit", "delete", "reorder"}
          /\ c \in Calls /\ CallTells(c) /\ lost' = lost /\ lost \in BOOLEAN
          /\ c.base \in Seq(Item) /\ c.answer \in Seq(Item)
      BY <1>1, <1>8, CallTyped DEF DraftAnswered, TypeInv, TypeOK, CallsTell, CallTells
    <2>2. /\ \/ c.step = "ok" /\ items' = CASE c.op = "reorder" -> c.answer
                                            [] c.op = "create" -> items \o c.answer
                                            [] c.op = "edit" -> With(items, c.answer[1])
                                            [] c.op = "delete" -> Without(items, c.id)
             \/ items' = MoveReverted(c)
          /\ Ends(s, {<<c.op, c.id>>})
      BY <1>8 DEF DraftAnswered
    <2> HIDE DEF c
    <2>3. CASE c.step = "ok" /\ c.op = "reorder" /\ items' = c.answer
      BY <2>1, <2>2, <2>3, EndsTyped, TypesMet, <1>1
    <2>4. CASE c.step = "ok" /\ c.op = "create" /\ items' = items \o c.answer
      <3>1. items' \in Seq(Item)
        BY <1>1, <2>1, <2>4, ConcatProperties
      <3> QED
        BY <1>1, <2>1, <2>2, <3>1, EndsTyped, TypesMet
    <2>5. CASE c.step = "ok" /\ c.op = "edit" /\ items' = With(items, c.answer[1])
      <3>1. PICK q \in Item : c.answer = <<q>>
        BY <2>1, <2>5 DEF CallTells
      <3>2. items' = With(items, q)
        BY <2>5, <3>1
      <3>3. items' \in Seq(Item)
        BY <1>1, <3>2, WithList
      <3> QED
        BY <1>1, <2>1, <2>2, <3>3, EndsTyped, TypesMet
    <2>6. CASE c.step = "ok" /\ c.op = "delete" /\ items' = Without(items, c.id)
      <3>1. items' \in Seq(Item)
        BY <1>1, <2>6, WithoutList
      <3> QED
        BY <1>1, <2>1, <2>2, <3>1, EndsTyped, TypesMet
    <2>7. CASE items' = MoveReverted(c)
      <3>1. items' \in Seq(Item)
        BY <1>1, <2>1, <2>7 DEF MoveReverted
      <3> QED
        BY <1>1, <2>1, <2>2, <3>1, EndsTyped, TypesMet
    <2> QED
      BY <2>1, <2>2, <2>3, <2>4, <2>5, <2>6, <2>7
  <1> QED
    BY <1>4, <1>5, <1>6, <1>7, <1>8 DEF DraftCalls

-----------------------------------------------------------------------------
\* The reloading pages.
LEMMA ReloadStartTyped ==
    ASSUME TypeInv, page \notin {"topic", "drafts"}, NEW s \in Slots, NEW c \in Calls,
           c.step = "sent", c.op \in {"create", "load", "untag"} => c.id = NoId,
           c.op \in {"edit", "flag", "delete"} => c.id \in Ids,
           NEW flags \in SUBSET Flags, Starts(s, c, flags),
           items' = items, query' \in Queries, form' = form
    PROVE  TypeInv'
  <1>1. items' \in Seq(Item) /\ form' \in Forms
    BY DEF TypeInv, TypeOK
  <1>2. CallTells(c)
    BY DEF CallTells
  <1> QED
    BY <1>1, <1>2, StartsTyped, TypesMet

LEMMA ReloadsTyped ==
    ASSUME TypeInv, page \notin {"topic", "drafts"}, NEW s \in Slots, NEW flags,
           Reloads(s, query.filter, flags), query' = query, form' = form
    PROVE  TypeInv'
  <1>1. /\ query \in Queries /\ form \in Forms /\ items \in Seq(Item) /\ server \in Seq(Item)
        /\ query.filter \in Filters
    BY DEF TypeInv, TypeOK, Queries
  <1>2. calls' \in [Slots -> Calls] /\ CallsTell'
    BY <1>1, ReplacedTyped DEF Reloads
  <1>3. Settles
    <2>1. {<<"load", NoId>>} \in SUBSET Flags
      BY FlagIn DEF Ops
    <2>2. busy' \subseteq Flags
      BY <2>1 DEF Reloads, TypeInv, TypeOK, Flags
    <2> QED
      BY <2>2 DEF Reloads, TypeInv, TypeOK, Settles
  <1> QED
    BY <1>1, <1>2, <1>3, TypesMet DEF Reloads

LEMMA ReloadStepsTyped ==
    ASSUME TypeInv, NEW s \in Slots, ReloadSteps(s)
    PROVE  TypeInv'
  <1>1. /\ query \in Queries /\ form \in Forms /\ items \in Seq(Item) /\ server \in Seq(Item)
        /\ query.filter \in Filters /\ calls \in [Slots -> Calls]
    BY DEF TypeInv, TypeOK, Queries
  <1>2. page \notin {"topic", "drafts"} /\ form' = form
    BY DEF ReloadSteps, SetFilter, Search, ReorderTopic, RemoveTopic, CreateRow, RemoveTag, Act,
           MutationDone, TagRemoved, RowCreated, Loaded, ReloadingFails,
           reloading, onLibrary, onUsers, onDetail
  <1>3. {} \in SUBSET Flags /\ {<<"create", NoId>>} \in SUBSET Flags
        /\ {<<"load", NoId>>} \in SUBSET Flags /\ {<<"reorder", NoId>>} \in SUBSET Flags
        /\ \A x \in Ids : {<<"delete", x>>} \in SUBSET Flags /\ {<<"flag", x>>} \in SUBSET Flags
    BY FlagIn DEF Ops, Wide
  <1>4. Shown \in Seq(Item)
    BY <1>1 DEF Shown
  <1>5. CASE SetFilter(s)
    <2>1. PICK f \in Filters :
            /\ query' = [query EXCEPT !.filter = f]
            /\ calls' = [x \in Slots |-> IF x = s THEN LoadOf(f)
                                         ELSE IF x \in Cancelled THEN Idle ELSE calls[x]]
      BY <1>5 DEF SetFilter
    <2>2. made' \in 0 .. MaxCalls /\ UNCHANGED <<page, server, items, busy, used, lost, clash>>
      BY <1>5, PageAssumption DEF SetFilter, Free, TypeInv, TypeOK
    <2>3. query' \in Queries
      BY <1>1, <2>1 DEF Queries
    <2>4. calls' \in [Slots -> Calls] /\ CallsTell'
      BY <1>2, <2>1, <2>2, ReplacedTyped
    <2>5. Settles
      BY <2>2 DEF TypeInv, TypeOK, Settles, Flags
    <2> QED
      BY <1>1, <1>2, <2>2, <2>3, <2>4, <2>5, TypesMet
  <1>6. CASE Search(s)
    <2>1. PICK f \in Filters :
            query' = [query EXCEPT !.filter = f] /\ Starts(s, LoadOf(f), {<<"load", NoId>>})
      BY <1>6 DEF Search
    <2>2. query' \in Queries /\ items' = items
      BY <1>1, <1>6, <2>1 DEF Queries, Search
    <2>3. LoadOf(f) \in Calls /\ LoadOf(f).op = "load" /\ LoadOf(f).id = NoId
          /\ LoadOf(f).step = "sent"
      BY LoadTyped, LoadsMade
    <2> QED
      BY <1>2, <1>3, <2>1, <2>2, <2>3, ReloadStartTyped
  <1>7. CASE ReorderTopic(s)
    <2>1. PICK k \in 1 .. Len(Shown) - 1 :
            Starts(s, MoveCall(Shown, k), {<<"reorder", NoId>>})
      BY <1>7 DEF ReorderTopic, MoveCall
    <2>2. MoveCall(Shown, k) \in Calls /\ MoveCall(Shown, k).op = "reorder"
          /\ MoveCall(Shown, k).step = "sent"
      BY <1>4, MoveTyped
    <2>3. items' = items /\ query' = query
      BY <1>7 DEF ReorderTopic
    <2> QED
      BY <1>1, <1>2, <1>3, <2>1, <2>2, <2>3, ReloadStartTyped
  <1>8. CASE RemoveTopic(s)
    <2>1. PICK k \in 1 .. Len(Shown) :
            Starts(s, CallOf("delete", Shown[k].id), {<<"delete", Shown[k].id>>})
      BY <1>8 DEF RemoveTopic
    <2>2. Shown[k].id \in Ids
      BY <1>4, RowIs
    <2> DEFINE c == CallOf("delete", Shown[k].id)
    <2>3. c \in Calls /\ c.op = "delete" /\ c.id = Shown[k].id /\ c.step = "sent"
      BY <2>2, CallOfTyped, CallsMade DEF Ops
    <2>4. Starts(s, c, {<<"delete", Shown[k].id>>})
      BY <2>1
    <2>5. items' = items /\ query' = query
      BY <1>8 DEF RemoveTopic
    <2> HIDE DEF c
    <2> QED
      BY <1>1, <1>2, <1>3, <2>2, <2>3, <2>4, <2>5, ReloadStartTyped
  <1>9. CASE CreateRow(s) \/ RemoveTag(s)
    <2>1. /\ items' = items /\ query' = query
          /\ \E op \in {"create", "untag"}, flags \in {{}, {<<"create", NoId>>}} :
               Starts(s, CallOf(op, NoId), flags)
      BY <1>9 DEF CreateRow, RemoveTag
    <2>2. PICK op \in {"create", "untag"}, flags \in {{}, {<<"create", NoId>>}} :
            Starts(s, CallOf(op, NoId), flags)
      BY <2>1
    <2> DEFINE c == CallOf(op, NoId)
    <2>3. c \in Calls /\ c.op = op /\ c.id = NoId /\ c.step = "sent"
      BY CallOfTyped, CallsMade DEF Ops, Wide
    <2>4. Starts(s, c, flags) /\ flags \in SUBSET Flags
      BY <1>3, <2>2
    <2> HIDE DEF c
    <2> QED
      BY <1>1, <1>2, <2>1, <2>3, <2>4, ReloadStartTyped
  <1>10. CASE Act(s)
    <2>1. /\ Starts(s, FlagCall(items[1].id, ~items[1].flag), {<<"flag", items[1].id>>})
          /\ Len(items) = 1 /\ items' = items /\ query' = query
      BY <1>10 DEF Act, FlagCall
    <2>2. items[1].id \in Ids
      BY <1>1, <2>1, RowIs
    <2> DEFINE c == FlagCall(items[1].id, ~items[1].flag)
    <2>3. c \in Calls /\ c.op = "flag" /\ c.id = items[1].id /\ c.step = "sent"
      BY <2>2, ValuedTyped
    <2>4. Starts(s, c, {<<"flag", items[1].id>>})
      BY <2>1
    <2> HIDE DEF c
    <2> QED
      BY <1>1, <1>2, <1>3, <2>1, <2>2, <2>3, <2>4, ReloadStartTyped
  <1>11. CASE MutationDone(s)
    <2>1. query' = query /\ \E flags : Reloads(s, query.filter, flags)
      BY <1>11 DEF MutationDone
    <2> QED
      BY <1>2, <2>1, ReloadsTyped
  <1>12. CASE TagRemoved(s)
    <2> DEFINE c == CallOf("tags", NoId)
    <2>1. c \in Calls /\ c.op = "tags" /\ c.id = NoId
      BY CallOfTyped, CallsMade DEF Ops
    <2>2. /\ calls' = [calls EXCEPT ![s] = c]
          /\ UNCHANGED <<page, server, items, busy, used, made, lost, clash, query>>
      BY <1>12 DEF TagRemoved
    <2> HIDE DEF c
    <2>3. CallTells(c)
      BY <1>2, <2>1 DEF CallTells
    <2>4. calls' \in [Slots -> Calls] /\ calls'[s] = c /\ \A x \in Slots \ {s} : calls'[x] = calls[x]
      BY <1>1, <2>1, <2>2
    <2>5. CallsTell'
      BY <2>2, <2>3, <2>4 DEF CallsTell, CallTells, TypeInv
    <2>6. Settles
      BY <2>2 DEF TypeInv, TypeOK, Settles, Flags
    <2> QED
      BY <1>1, <1>2, <2>2, <2>4, <2>5, <2>6, TypesMet
  <1>13. CASE RowCreated(s)
    <2>1. CASE page = "users" /\ Reloads(s, query.filter, {<<"create", NoId>>}) /\ query' = query
      BY <1>2, <2>1, ReloadsTyped
    <2>2. CASE /\ page' = "left" /\ calls' = [x \in Slots |-> Idle] /\ busy' = {}
               /\ UNCHANGED <<server, items, used, made, lost, clash, query>>
      <3>1. calls' \in [Slots -> Calls] /\ \A x \in Slots : calls'[x] = Idle
        BY <2>2, IdleTyped
      <3>2. CallsTell'
        BY <2>2, <3>1, IdleMade DEF CallsTell, CallTells
      <3>3. Settles
        BY <2>2 DEF TypeInv, TypeOK, Settles
      <3> QED
        BY <1>1, <1>2, <2>2, <3>1, <3>2, <3>3, TypesMet
    <2> QED
      BY <1>13, <2>1, <2>2 DEF RowCreated
  <1>14. CASE Loaded(s)
    <2>1. /\ items' = calls[s].answer /\ query' = [query EXCEPT !.shown = calls[s].filter]
          /\ Ends(s, {<<"load", NoId>>}) /\ lost' = lost
      BY <1>14 DEF Loaded
    <2>2. calls[s].answer \in Seq(Item) /\ calls[s].filter \in Filters
      BY <1>1, CallTyped
    <2>3. query' \in Queries
      BY <1>1, <2>1, <2>2 DEF Queries
    <2>4. lost' \in BOOLEAN
      BY <2>1 DEF TypeInv, TypeOK
    <2> QED
      BY <1>1, <1>2, <2>1, <2>2, <2>3, <2>4, EndsTyped, TypesMet
  <1>15. CASE ReloadingFails(s)
    <2>1. /\ Ends(s, {<<calls[s].op, calls[s].id>>}) /\ items' = items /\ query' = query
          /\ lost' \in BOOLEAN
      BY <1>15 DEF ReloadingFails, TypeInv, TypeOK
    <2> QED
      BY <1>1, <1>2, <2>1, EndsTyped, TypesMet
  <1> QED
    BY <1>5, <1>6, <1>7, <1>8, <1>9, <1>10, <1>11, <1>12, <1>13, <1>14, <1>15 DEF ReloadSteps

-----------------------------------------------------------------------------
\* The web process: what it answers, and the list it leaves.
LEMMA AnsweredTyped ==
    ASSUME TypeInv, NEW s \in Slots, NEW list \in Seq(Item), Answers(s, list), page' = page,
           calls[s].op = "create" => \E y \in Ids : list = <<New(y)>>,
           calls[s].op = "edit" => \E q \in Item : q.id = calls[s].id /\ list = <<q>>
    PROVE  calls' \in [Slots -> Calls] /\ CallsTell'
  <1> DEFINE c == calls[s]
             d == ServedBy(c, list)
  <1>1. c \in Calls /\ IsCall(c) /\ CallTells(c) /\ calls \in [Slots -> Calls] /\ CallsTell
    BY CallTyped DEF TypeInv, TypeOK, CallsTell
  <1>2. calls' = [calls EXCEPT ![s] = d]
    BY DEF Answers, ServedBy
  <1>3. c.op = "create" => \E y \in Ids : list = <<New(y)>>
    OBVIOUS
  <1>4. c.op = "edit" => \E q \in Item : q.id = c.id /\ list = <<q>>
    OBVIOUS
  <1> HIDE DEF c, d
  <1>5. /\ IsCall(d) /\ d.step = "ok" /\ d.answer = list /\ d.op = c.op /\ d.id = c.id
        /\ d.value = c.value /\ d.order = c.order /\ d.base = c.base /\ d.filter = c.filter
    BY <1>1, ServedShaped DEF d
  <1>6. d \in Calls
    BY <1>1, <1>5, CallTyped
  <1>7. CallTells(d)
    BY <1>1, <1>3, <1>4, <1>5 DEF CallTells
  <1>8. calls' \in [Slots -> Calls] /\ calls'[s] = d /\ \A x \in Slots \ {s} : calls'[x] = calls[x]
    BY <1>1, <1>2, <1>6
  <1>9. \A x \in Slots : CallTells(calls'[x])
    BY <1>1, <1>7, <1>8 DEF CallsTell
  <1> QED
    BY <1>8, <1>9 DEF CallsTell, CallTells

LEMMA RefusedTyped ==
    ASSUME TypeInv, NEW s \in Slots, calls' = [calls EXCEPT ![s].step = "refused"], page' = page
    PROVE  calls' \in [Slots -> Calls] /\ CallsTell'
  <1> DEFINE c == calls[s]
             d == [c EXCEPT !.step = "refused"]
  <1>1. c \in Calls /\ IsCall(c) /\ CallTells(c) /\ calls \in [Slots -> Calls] /\ CallsTell
    BY CallTyped DEF TypeInv, TypeOK, CallsTell
  <1>2. calls' = [calls EXCEPT ![s] = d]
    OBVIOUS
  <1> HIDE DEF c
  <1>3. /\ IsCall(d) /\ d.step = "refused"
        /\ d.op = c.op /\ d.id = c.id /\ d.value = c.value /\ d.order = c.order
        /\ d.base = c.base /\ d.filter = c.filter /\ d.answer = c.answer
    BY <1>1, StepShaped
  <1> HIDE DEF d
  <1>4. d \in Calls
    BY <1>1, <1>3, CallTyped
  <1>5. CallTells(d)
    BY <1>1, <1>3 DEF CallTells
  <1>6. calls' \in [Slots -> Calls] /\ calls'[s] = d /\ \A x \in Slots \ {s} : calls'[x] = calls[x]
    BY <1>1, <1>2, <1>4
  <1>7. \A x \in Slots : CallTells(calls'[x])
    BY <1>1, <1>5, <1>6 DEF CallsTell
  <1> QED
    BY <1>6, <1>7 DEF CallsTell, CallTells

LEMMA NewTyped == \A x \in Ids : New(x) \in Item /\ New(x).id = x
  BY DEF New, Item

LEMMA ServesTyped ==
    ASSUME TypeInv, NEW s \in Slots, ServesList(s), page' = page
    PROVE  /\ calls' \in [Slots -> Calls] /\ CallsTell' /\ server' \in Seq(Item) /\ used' \subseteq Ids
  <1>1. /\ server \in Seq(Item) /\ used \subseteq Ids /\ <<>> \in Seq(Item)
        /\ calls[s] \in Calls /\ CallTells(calls[s])
    BY DEF TypeInv, TypeOK, CallsTell
  <1> DEFINE c == calls[s]
  <1>2. CASE /\ c.op = "load" /\ Answers(s, Filtered(server, c.filter)) /\ UNCHANGED <<server, used>>
    BY <1>1, <1>2, FilteredList, AnsweredTyped
  <1>3. CASE c.op = "tags" /\ Answers(s, <<>>) /\ UNCHANGED <<server, used>>
    BY <1>1, <1>3, AnsweredTyped
  <1>4. ASSUME c.op \in {"create", "bulk"}, NEW x \in Ids \ used,
               server' = Append(server, New(x)), used' = used \cup {x},
               Answers(s, IF c.op = "bulk" THEN server' ELSE <<New(x)>>)
        PROVE  /\ calls' \in [Slots -> Calls] /\ CallsTell' /\ server' \in Seq(Item)
               /\ used' \subseteq Ids
    <2>1. New(x) \in Item
      BY NewTyped
    <2>2. server' \in Seq(Item) /\ <<New(x)>> \in Seq(Item)
      BY <1>1, <1>4, <2>1
    <2> DEFINE list == IF c.op = "bulk" THEN server' ELSE <<New(x)>>
    <2>3. list \in Seq(Item) /\ Answers(s, list) /\ (c.op = "create" => list = <<New(x)>>)
      BY <1>4, <2>2
    <2> HIDE DEF list
    <2> QED
      BY <1>1, <1>4, <2>2, <2>3, AnsweredTyped
  <1>5. ASSUME c.op \in {"edit", "flag"}, Has(server, c.id), used' = used,
               NEW old, old = At(server, c.id),
               NEW new, new = (IF c.op = "edit" THEN [old EXCEPT !.text = c.value]
                                                ELSE [old EXCEPT !.flag = c.value]),
               server' = With(server, new), Answers(s, <<new>>)
        PROVE  /\ calls' \in [Slots -> Calls] /\ CallsTell' /\ server' \in Seq(Item)
               /\ used' \subseteq Ids
    <2>1. old \in Item /\ old.id = c.id
      BY <1>1, <1>5, AtList
    <2>2. c.value \in BOOLEAN
      BY <1>1, CallTyped
    <2>3. new \in Item /\ new.id = c.id
      BY <1>5, <2>1, <2>2, RowSet
    <2>4. server' \in Seq(Item) /\ <<new>> \in Seq(Item)
      BY <1>1, <1>5, <2>3, WithList
    <2> QED
      BY <1>1, <1>5, <2>3, <2>4, AnsweredTyped
  <1>6. CASE /\ c.op = "delete" /\ server' = Without(server, c.id) /\ Answers(s, <<>>)
             /\ used' = used
    <2>1. server' \in Seq(Item)
      BY <1>1, <1>6, WithoutList
    <2> QED
      BY <1>1, <1>6, <2>1, AnsweredTyped
  <1>7. CASE /\ c.op = "reorder" /\ Range(c.order) = Range(IdsOf(server))
             /\ server' = [k \in 1 .. Len(c.order) |-> At(server, c.order[k])]
             /\ Answers(s, server') /\ used' = used
    <2>1. c.order \in Seq(Ids)
      BY <1>1, CallTyped
    <2> DEFINE o == c.order
    <2>2. [k \in 1 .. Len(o) |-> At(server, o[k])] \in Seq(Item)
      BY <1>1, <1>7, <2>1, OrderedList
    <2>3. server' \in Seq(Item)
      BY <1>7, <2>2
    <2> QED
      BY <1>1, <1>7, <2>3, AnsweredTyped
  <1>8. CASE /\ c.op = "untag" /\ server' = [k \in 1 .. Len(server) |-> [server[k] EXCEPT !.flag = FALSE]]
             /\ Answers(s, <<>>) /\ used' = used
    <2>1. \A k \in 1 .. Len(server) : [server[k] EXCEPT !.flag = FALSE] \in Item
      <3>1. \A r \in Item : [r EXCEPT !.flag = FALSE] \in Item
        BY DEF Item
      <3> QED
        BY <1>1, <3>1
    <2>2. server' \in Seq(Item)
      <3> DEFINE g == [k \in 1 .. Len(server) |-> [server[k] EXCEPT !.flag = FALSE]]
      <3>1. g \in [1 .. Len(server) -> Item] /\ Len(server) \in Nat
        BY <1>1, <2>1
      <3>2. server' = g
        BY <1>8
      <3> HIDE DEF g
      <3> QED
        BY <3>1, <3>2, SeqDef
    <2> QED
      BY <1>1, <1>8, <2>2, AnsweredTyped
  <1> QED
    BY <1>2, <1>3, <1>4, <1>5, <1>6, <1>7, <1>8 DEF ServesList

LEMMA ServeTyped ==
    ASSUME TypeInv, NEW s \in Slots, Serve(s) \/ LoseAnswer(s)
    PROVE  TypeInv'
  <1>1. /\ query \in Queries /\ form \in Forms /\ items \in Seq(Item) /\ server \in Seq(Item)
        /\ UNCHANGED <<page, items, query, form, busy, made, clash>>
    BY DEF TypeInv, TypeOK, Serve, LoseAnswer
  <1>2. /\ calls' \in [Slots -> Calls] /\ CallsTell' /\ server' \in Seq(Item)
        /\ used' \subseteq Ids /\ lost' \in BOOLEAN
    <2>1. CASE Serve(s) /\ ServesList(s)
      BY <1>1, <2>1, ServesTyped DEF Serve, TypeInv, TypeOK
    <2>2. CASE Serve(s) /\ RefusesList(s)
      BY <1>1, <2>2, RefusedTyped DEF Serve, RefusesList, TypeInv, TypeOK
    <2>3. CASE LoseAnswer(s)
      BY <1>1, <2>3, RefusedTyped DEF LoseAnswer, TypeInv, TypeOK
    <2> QED
      BY <2>1, <2>2, <2>3 DEF Serve
  <1>3. Settles
    BY <1>1, <1>2 DEF Settles, TypeInv, TypeOK, Flags
  <1> QED
    BY <1>1, <1>2, <1>3, TypesMet

\* Every step keeps the types; the forms' come with the drafts panel's invariant.
LEMMA StepTypes == TypeInv /\ PagesInv' /\ [Next]_vars => TypeInv'
  <1> SUFFICES ASSUME TypeInv, PagesInv', [Next]_vars PROVE TypeInv'
    OBVIOUS
  <1>1. form' \in Forms
    BY DEF PagesInv, DraftsInv, Shaped
  <1>2. CASE UNCHANGED vars
    BY <1>2 DEF vars, core, TypeInv, TypeOK, CallsTell, CallTells
  <1>3. CASE Next
    BY <1>1, <1>3, DraftStepsTyped, TopicTyped, DraftCallsTyped, ReloadStepsTyped, ServeTyped
    DEF Next
  <1> QED
    BY <1>2, <1>3

LEMMA TypesKept == Spec => []TypeInv
  <1>1. Init => TypeInv
    BY InitTypes
  <1> QED
    BY <1>1, StepTypes, PagesKept, PTL DEF Spec

\* Every variable keeps its type: a page never asks for a row that is not there.
THEOREM PagesTypeCorrect == Spec => []TypeOK
  <1>1. TypeInv => TypeOK
    BY DEF TypeInv
  <1> QED
    BY <1>1, TypesKept, PTL

-----------------------------------------------------------------------------
\* Rows of a list, by their ids.
LEMMA RowsOf ==
    ASSUME NEW l \in Seq(Item)
    PROVE  /\ Range(l) \subseteq Item
           /\ \A r : r \in Range(l) <=> \E k \in 1 .. Len(l) : l[k] = r
           /\ \A x : Has(l, x) <=> \E r \in Range(l) : r.id = x
  <1>1. DOMAIN l = 1 .. Len(l) /\ \A k \in 1 .. Len(l) : l[k] \in Item
    OBVIOUS
  <1>2. Range(l) = {l[k] : k \in 1 .. Len(l)}
    BY <1>1 DEF Range
  <1> QED
    BY <1>1, <1>2 DEF Has

LEMMA OneRow ==
    ASSUME NEW l \in Seq(Item), OnceEach(l), NEW r \in Range(l)
    PROVE  /\ At(l, r.id) = r
           /\ \A q \in Range(l) : q.id = r.id => q = r
  <1>1. \A q \in Range(l) : q.id = r.id => q = r
    BY RowsOf DEF OnceEach
  <1>2. Has(l, r.id)
    BY RowsOf
  <1> QED
    BY <1>1, <1>2, AtList

LEMMA MappedRows ==
    ASSUME NEW l \in Seq(Item), NEW g \in [Item -> Item]
    PROVE  Range(Mapped(l, g)) = {g[r] : r \in Range(l)}
  <1>1. /\ Mapped(l, g) \in Seq(Item) /\ Len(Mapped(l, g)) = Len(l)
        /\ \A k \in 1 .. Len(l) : Mapped(l, g)[k] = g[l[k]]
    BY MappedList
  <1>2. \A q : q \in Range(Mapped(l, g)) <=> \E k \in 1 .. Len(l) : g[l[k]] = q
    BY <1>1, RowsOf
  <1>3. \A r : r \in Range(l) <=> \E k \in 1 .. Len(l) : l[k] = r
    BY RowsOf
  <1> QED
    BY <1>2, <1>3

LEMMA MappedOnce ==
    ASSUME NEW l \in Seq(Item), NEW g \in [Item -> Item], \A r \in Item : g[r].id = r.id,
           OnceEach(l)
    PROVE  OnceEach(Mapped(l, g))
  BY MappedList DEF OnceEach

LEMMA MappedSame ==
    ASSUME NEW l \in Seq(Item), NEW g \in [Item -> Item], NEW h \in [Item -> Item],
           \A r \in Range(l) : g[r] = h[r]
    PROVE  Mapped(l, g) = Mapped(l, h)
  <1>1. \A k \in 1 .. Len(l) : g[l[k]] = h[l[k]]
    BY RowsOf
  <1> QED
    BY <1>1 DEF Mapped

LEMMA MappedNone ==
    ASSUME NEW l \in Seq(Item), NEW g \in [Item -> Item], \A r \in Range(l) : g[r] = r
    PROVE  Mapped(l, g) = l
  <1>1. \A k \in 1 .. Len(l) : Mapped(l, g)[k] = l[k]
    BY MappedList, RowsOf
  <1>2. Mapped(l, g) \in Seq(Item) /\ Len(Mapped(l, g)) = Len(l)
    BY MappedList
  <1> HIDE DEF Mapped
  <1> QED
    BY <1>1, <1>2, SeqEqual

LEMMA MappedTwice ==
    ASSUME NEW l \in Seq(Item), NEW g \in [Item -> Item], NEW h \in [Item -> Item],
           NEW f \in [Item -> Item], \A r \in Range(l) : f[r] = h[g[r]]
    PROVE  Mapped(Mapped(l, g), h) = Mapped(l, f)
  <1>1. /\ Mapped(l, g) \in Seq(Item) /\ Len(Mapped(l, g)) = Len(l)
        /\ \A k \in 1 .. Len(l) : Mapped(l, g)[k] = g[l[k]]
    BY MappedList
  <1>2. /\ Mapped(Mapped(l, g), h) \in Seq(Item) /\ Len(Mapped(Mapped(l, g), h)) = Len(l)
        /\ \A k \in 1 .. Len(l) : Mapped(Mapped(l, g), h)[k] = h[g[l[k]]]
    BY <1>1, MappedList
  <1>3. /\ Mapped(l, f) \in Seq(Item) /\ Len(Mapped(l, f)) = Len(l)
        /\ \A k \in 1 .. Len(l) : Mapped(l, f)[k] = f[l[k]] /\ l[k] \in Range(l)
    BY MappedList, RowsOf
  <1> QED
    BY <1>2, <1>3, SeqEqual

\* A row put in its place.
Put(n) == [r \in Item |-> IF r.id = n.id THEN n ELSE r]

LEMMA PutIs ==
    ASSUME NEW n \in Item
    PROVE  /\ Put(n) \in [Item -> Item] /\ \A r \in Item : Put(n)[r].id = r.id
           /\ \A r \in Item : Put(n)[r] = IF r.id = n.id THEN n ELSE r
           /\ \A l \in Seq(Item) : With(l, n) = Mapped(l, Put(n))
  <1>1. /\ Put(n) \in [Item -> Item]
        /\ \A r \in Item : Put(n)[r] = IF r.id = n.id THEN n ELSE r
    BY DEF Put
  <1>2. ASSUME NEW l \in Seq(Item) PROVE With(l, n) = Mapped(l, Put(n))
    <2>1. /\ With(l, n) \in Seq(Item) /\ Len(With(l, n)) = Len(l)
          /\ \A k \in 1 .. Len(l) : With(l, n)[k] = IF l[k].id = n.id THEN n ELSE l[k]
      BY WithList
    <2>2. /\ Mapped(l, Put(n)) \in Seq(Item) /\ Len(Mapped(l, Put(n))) = Len(l)
          /\ \A k \in 1 .. Len(l) : l[k] \in Item /\ Mapped(l, Put(n))[k] = Put(n)[l[k]]
      BY <1>1, MappedList
    <2>3. \A k \in 1 .. Len(l) : With(l, n)[k] = Mapped(l, Put(n))[k]
      BY <1>1, <2>1, <2>2
    <2> QED
      BY <2>1, <2>2, <2>3, SeqEqual
  <1> QED
    BY <1>1, <1>2

\* Putting a row keeps the ids.
LEMMA WithRows ==
    ASSUME NEW l \in Seq(Item), NEW n \in Item
    PROVE  /\ \A x : Has(With(l, n), x) <=> Has(l, x)
           /\ \A r \in Range(With(l, n)) : (r.id = n.id => r = n) /\ (r.id # n.id => r \in Range(l))
           /\ \A r \in Range(l) : r.id # n.id => r \in Range(With(l, n))
           /\ OnceEach(l) => OnceEach(With(l, n))
  <1>1. /\ Put(n) \in [Item -> Item] /\ \A r \in Item : Put(n)[r].id = r.id
        /\ \A r \in Item : Put(n)[r] = IF r.id = n.id THEN n ELSE r
        /\ With(l, n) = Mapped(l, Put(n)) /\ With(l, n) \in Seq(Item)
    BY PutIs, WithList
  <1>2. Range(With(l, n)) = {Put(n)[r] : r \in Range(l)} /\ Range(l) \subseteq Item
    BY <1>1, MappedRows, RowsOf
  <1>3. \A x : Has(With(l, n), x) <=> Has(l, x)
    BY <1>1, <1>2, RowsOf
  <1>4. OnceEach(l) => OnceEach(With(l, n))
    BY <1>1, MappedOnce
  <1> QED
    BY <1>1, <1>2, <1>3, <1>4

-----------------------------------------------------------------------------
\* The pages that patch their list: how the list on show differs from the
\* database's while calls are in flight.
RowOps == {"edit", "flag", "delete"}
WideOps == {"reorder", "bulk"}

\* Rows the database has lost and the page still shows, and calls that gave the
\* database a row the page does not show yet.
Deleted == {x \in Ids : \E s \in Slots :
              calls[s].op = "delete" /\ calls[s].step = "ok" /\ calls[s].id = x}
Stays == {r \in Item : r.id \notin Deleted}
Created == {s \in Slots : calls[s].op = "create" /\ calls[s].step = "ok"}

\* A call for which the page's row is not the database's, and the row the
\* database has instead: an edit made and unheard, or a toggle shown and not made.
Differs(c) == (c.op = "edit" /\ c.step = "ok") \/ (c.op = "flag" /\ c.step # "ok")
Told(c, r) == IF c.op = "edit" THEN c.answer[1] ELSE [r EXCEPT !.flag = c.base[1].flag]
AsServed(r, q) ==
    /\ q.id = r.id
    /\ \A s \in Slots : Differs(calls[s]) /\ calls[s].id = r.id => q = Told(calls[s], r)
    /\ (\A s \in Slots : Differs(calls[s]) => calls[s].id # r.id) => q = r

\* The database's list is the page's, each row as the database has it, without
\* the rows deleted and with the row created after them.
Overlays(g) ==
    /\ g \in [Item -> Item] /\ \A r \in Item : g[r].id = r.id
    /\ \A r \in Range(items) : AsServed(r, g[r])
    /\ Created = {} => server = Mapped(Kept(items, Stays), g)
    /\ \A s \in Created : server = Append(Mapped(Kept(items, Stays), g), calls[s].answer[1])
Overlay == \E g : Overlays(g)

-----------------------------------------------------------------------------
\* The row the database has is one.
LEMMA OneServed ==
    ASSUME NEW r, NEW p, NEW q, AsServed(r, p), AsServed(r, q)
    PROVE  p = q
  BY DEF AsServed

\* Calls that tell the same of a row.
SameTold(c, d) ==
    /\ Differs(d) <=> Differs(c)
    /\ Differs(c) => d.id = c.id /\ d.op = c.op /\ d.answer = c.answer /\ d.base = c.base
Elsewhere(c, r) == Differs(c) => c.id # r.id

LEMMA ServedKept ==
    ASSUME NEW r, NEW q, AsServed(r, q), NEW s \in Slots,
           \A x \in Slots \ {s} : calls'[x] = calls[x],
           SameTold(calls[s], calls'[s]) \/ (Elsewhere(calls[s], r) /\ Elsewhere(calls'[s], r))
    PROVE  AsServed(r, q)'
  <1>1. \A x \in Slots : SameTold(calls[x], calls'[x])
                         \/ (Elsewhere(calls[x], r) /\ Elsewhere(calls'[x], r))
    BY DEF SameTold
  <1>2. q.id = r.id
    BY DEF AsServed
  <1>3. ASSUME NEW x \in Slots, Differs(calls'[x]), calls'[x].id = r.id
        PROVE  q = Told(calls'[x], r)
    <2>1. SameTold(calls[x], calls'[x])
      BY <1>1, <1>3 DEF Elsewhere
    <2> QED
      BY <1>3, <2>1 DEF SameTold, AsServed, Told
  <1>4. ASSUME \A x \in Slots : Differs(calls'[x]) => calls'[x].id # r.id
        PROVE  q = r
    <2>1. \A x \in Slots : Differs(calls[x]) => calls[x].id # r.id
      BY <1>1, <1>4 DEF SameTold, Elsewhere
    <2> QED
      BY <2>1 DEF AsServed
  <1> QED
    BY <1>2, <1>3, <1>4 DEF AsServed

\* Nothing the page and the database tell apart has changed.
LEMMA OverlayKept ==
    ASSUME Overlay, items' = items, server' = server, NEW s \in Slots,
           \A x \in Slots \ {s} : calls'[x] = calls[x],
           SameTold(calls[s], calls'[s]), Deleted' = Deleted, Created' = Created,
           calls[s].op = "create" /\ calls[s].step = "ok" => calls'[s].answer = calls[s].answer
    PROVE  Overlay'
  <1>1. PICK g : Overlays(g)
    BY DEF Overlay
  <1>2. \A r \in Range(items) : AsServed(r, g[r])'
    BY <1>1, ServedKept DEF Overlays
  <1>3. Stays' = Stays
    BY DEF Stays
  <1>4. \A x \in Created : calls'[x].answer = calls[x].answer
    BY DEF Created
  <1>5. Overlays(g)'
    BY <1>1, <1>2, <1>3, <1>4 DEF Overlays
  <1> QED
    BY <1>5 DEF Overlay

\* The page at rest with the database's list, and back.
LEMMA OverlayStarts ==
    ASSUME items \in Seq(Item), \A s \in Slots : calls[s].op = "idle", items = server
    PROVE  Overlay
  <1> DEFINE g == [r \in Item |-> r]
  <1>1. Deleted = {} /\ Created = {} /\ \A s \in Slots : ~Differs(calls[s])
    BY DEF Deleted, Created, Differs
  <1>2. Range(items) \subseteq Item /\ Range(items) \subseteq Stays
    BY <1>1, RowsOf DEF Stays
  <1>3. Kept(items, Stays) = items
    BY <1>2, KeptWhole
  <1>4. g \in [Item -> Item] /\ \A r \in Item : g[r] = r
    OBVIOUS
  <1> HIDE DEF g
  <1>5. Mapped(items, g) = items
    BY <1>2, <1>4, MappedNone
  <1>6. \A r \in Range(items) : AsServed(r, g[r])
    BY <1>1, <1>2, <1>4 DEF AsServed
  <1>7. Overlays(g)
    BY <1>1, <1>3, <1>4, <1>5, <1>6 DEF Overlays
  <1> QED
    BY <1>7 DEF Overlay

LEMMA OverlayEnds ==
    ASSUME items \in Seq(Item), Overlay, \A s \in Slots : calls[s].op = "idle"
    PROVE  items = server
  <1>1. PICK g : Overlays(g)
    BY DEF Overlay
  <1>2. Deleted = {} /\ Created = {} /\ \A s \in Slots : ~Differs(calls[s])
    BY DEF Deleted, Created, Differs
  <1>3. Range(items) \subseteq Stays
    BY <1>2, RowsOf DEF Stays
  <1>4. Kept(items, Stays) = items
    BY <1>3, KeptWhole
  <1>5. \A r \in Range(items) : g[r] = r
    BY <1>1, <1>2 DEF Overlays, AsServed
  <1>6. Mapped(items, g) = items
    BY <1>1, <1>5, MappedNone DEF Overlays
  <1> QED
    BY <1>1, <1>2, <1>4, <1>6 DEF Overlays

\* The rows of the list that stay.
LEMMA StayingRows ==
    ASSUME items \in Seq(Item)
    PROVE  /\ Kept(items, Stays) \in Seq(Item)
           /\ Range(Kept(items, Stays)) = {r \in Range(items) : r.id \notin Deleted}
  BY KeptRows, RowsOf DEF Stays

\* The page puts a row: the database's row stays what it was.
LEMMA ItemPut ==
    ASSUME items \in Seq(Item), OnceEach(items), Overlay, NEW n \in Item, NEW q \in Item, q.id = n.id,
           items' = With(items, n), server' = server, NEW s \in Slots,
           \A x \in Slots \ {s} : calls'[x] = calls[x],
           Deleted' = Deleted, Created' = Created, s \notin Created,
           \A r \in Item : r.id # n.id => Elsewhere(calls[s], r) /\ Elsewhere(calls'[s], r),
           \A r \in Range(items) : r.id = n.id => AsServed(r, q),
           AsServed(n, q)'
    PROVE  Overlay'
  <1>1. PICK g : Overlays(g)
    BY DEF Overlay
  <1> DEFINE h == [r \in Item |-> IF r.id = n.id THEN q ELSE g[r]]
             K == Kept(items, Stays)
  <1>2. g \in [Item -> Item] /\ \A r \in Item : g[r].id = r.id
    BY <1>1 DEF Overlays
  <1>3. /\ h \in [Item -> Item] /\ \A r \in Item : h[r].id = r.id
        /\ \A r \in Item : h[r] = IF r.id = n.id THEN q ELSE g[r]
    BY <1>2
  <1> HIDE DEF h
  <1>4. /\ Put(n) \in [Item -> Item] /\ \A r \in Item : Put(n)[r].id = r.id
        /\ \A r \in Item : Put(n)[r] = IF r.id = n.id THEN n ELSE r
        /\ items' = Mapped(items, Put(n)) /\ items' \in Seq(Item)
    BY PutIs, WithList
  <1>5. Stays' = Stays /\ \A r \in Item : r \in Stays <=> Put(n)[r] \in Stays
    BY <1>4 DEF Stays
  <1>6. Kept(items', Stays) = Mapped(K, Put(n))
    BY <1>4, <1>5, KeptMapped
  <1>7. K \in Seq(Item) /\ Range(K) \subseteq Range(items) /\ Range(items) \subseteq Item
    BY StayingRows, RowsOf
  <1>8. \A r \in Range(items) : r.id = n.id => g[r] = q
    BY <1>1, OneServed DEF Overlays
  <1>9. \A r \in Range(K) : g[r] = h[Put(n)[r]]
    BY <1>3, <1>4, <1>7, <1>8
  <1> HIDE DEF K
  <1>10. Mapped(Kept(items', Stays'), h) = Mapped(K, g)
    <2>1. /\ K \in Seq(Item) /\ Put(n) \in [Item -> Item] /\ h \in [Item -> Item]
          /\ g \in [Item -> Item]
      BY <1>2, <1>3, <1>4, <1>7
    <2>2. Mapped(Mapped(K, Put(n)), h) = Mapped(K, g)
      <3> DEFINE p == Put(n)
      <3>1. p \in [Item -> Item] /\ \A r \in Range(K) : g[r] = h[p[r]]
        BY <2>1, <1>9
      <3> HIDE DEF p
      <3>2. Mapped(Mapped(K, p), h) = Mapped(K, g)
        BY <2>1, <3>1, MappedTwice
      <3> QED
        BY <3>2 DEF p
    <2> QED
      BY <1>5, <1>6, <2>2
  <1>11. \A r \in Range(items') : AsServed(r, h[r])'
    <2> SUFFICES ASSUME NEW r \in Range(items') PROVE AsServed(r, h[r])'
      OBVIOUS
    <2>1. CASE r.id = n.id
      <3>1. r = n /\ h[r] = q
        BY <1>3, <2>1, WithRows
      <3> QED
        BY <3>1
    <2>2. CASE r.id # n.id
      <3>1. r \in Range(items) /\ r \in Item /\ h[r] = g[r]
        BY <1>3, <1>7, <2>2, WithRows
      <3>2. AsServed(r, g[r])
        BY <1>1, <3>1 DEF Overlays
      <3>3. AsServed(r, g[r])'
        BY <2>2, <3>1, <3>2, ServedKept
      <3> QED
        BY <3>1, <3>3
    <2> QED
      BY <2>1, <2>2
  <1>12. \A x \in Created : calls'[x] = calls[x]
    BY DEF Created
  <1>13. Overlays(h)'
    <2>1. Created = {} => server = Mapped(K, g)
      BY <1>1 DEF Overlays, K
    <2>2. \A x \in Created : server = Append(Mapped(K, g), calls[x].answer[1])
      BY <1>1 DEF Overlays, K
    <2> QED
      BY <1>3, <1>10, <1>11, <1>12, <2>1, <2>2 DEF Overlays
  <1> QED
    BY <1>13 DEF Overlay

\* The database puts a row: the page's stays what it was.
LEMMA ServerPut ==
    ASSUME items \in Seq(Item), Overlay, NEW n \in Item,
           items' = items, server' = With(server, n), NEW s \in Slots,
           \A x \in Slots \ {s} : calls'[x] = calls[x],
           Deleted' = Deleted, Created' = Created, s \notin Created,
           \A x \in Created : calls[x].answer[1] \in Item /\ calls[x].answer[1].id # n.id,
           \A r \in Item : r.id # n.id => Elsewhere(calls[s], r) /\ Elsewhere(calls'[s], r),
           \A r \in Range(items) : r.id = n.id => AsServed(r, n)'
    PROVE  Overlay'
  <1>1. PICK g : Overlays(g)
    BY DEF Overlay
  <1> DEFINE h == [r \in Item |-> IF r.id = n.id THEN n ELSE g[r]]
             K == Kept(items, Stays)
  <1>2. g \in [Item -> Item] /\ \A r \in Item : g[r].id = r.id
    BY <1>1 DEF Overlays
  <1>3. /\ h \in [Item -> Item] /\ \A r \in Item : h[r].id = r.id
        /\ \A r \in Item : h[r] = IF r.id = n.id THEN n ELSE g[r]
    BY <1>2
  <1> HIDE DEF h
  <1>4. /\ Put(n) \in [Item -> Item]
        /\ \A r \in Item : Put(n)[r] = IF r.id = n.id THEN n ELSE r
        /\ \A l \in Seq(Item) : With(l, n) = Mapped(l, Put(n))
    BY PutIs
  <1>5. K \in Seq(Item) /\ Range(K) \subseteq Item /\ Range(items) \subseteq Item
    BY StayingRows, RowsOf
  <1>6. Kept(items', Stays') = K
    BY DEF Stays
  <1>7. Mapped(K, g) \in Seq(Item)
    BY <1>2, <1>5, MappedList
  <1> HIDE DEF K
  <1>8. With(Mapped(K, g), n) = Mapped(K, h)
    <2>1. \A r \in Range(K) : h[r] = Put(n)[g[r]]
      BY <1>2, <1>3, <1>4, <1>5
    <2>2. /\ K \in Seq(Item) /\ Put(n) \in [Item -> Item] /\ h \in [Item -> Item]
          /\ g \in [Item -> Item]
      BY <1>2, <1>3, <1>4, <1>5
    <2>3. Mapped(Mapped(K, g), Put(n)) = Mapped(K, h)
      BY <2>1, <2>2, MappedTwice
    <2> QED
      BY <1>4, <1>7, <2>3
  <1>9. Created = {} => server' = Mapped(K, h)
    BY <1>1, <1>8 DEF Overlays, K
  <1>10. ASSUME NEW x \in Created PROVE server' = Append(Mapped(K, h), calls'[x].answer[1])
    <2> DEFINE y == calls[x].answer[1]
    <2>1. y \in Item /\ y.id # n.id
      BY <1>10
    <2>2. server = Append(Mapped(K, g), y)
      BY <1>1, <1>10 DEF Overlays, K
    <2>3. calls'[x] = calls[x]
      BY <1>10 DEF Created
    <2> HIDE DEF y
    <2>4. Append(Mapped(K, g), y) \in Seq(Item)
      BY <1>7, <2>1
    <2>5. server' = Mapped(Append(Mapped(K, g), y), Put(n))
      BY <1>4, <2>2, <2>4
    <2>6. server' = Append(Mapped(Mapped(K, g), Put(n)), Put(n)[y])
      BY <1>4, <1>7, <2>1, <2>5, MappedAppend
    <2>7. server' = Append(Mapped(K, h), y)
      BY <1>4, <1>7, <1>8, <2>1, <2>6
    <2> QED
      BY <2>3, <2>7 DEF y
  <1>11. \A r \in Range(items') : AsServed(r, h[r])'
    <2> SUFFICES ASSUME NEW r \in Range(items) PROVE AsServed(r, h[r])'
      OBVIOUS
    <2>1. CASE r.id = n.id
      BY <1>3, <1>5, <2>1
    <2>2. CASE r.id # n.id
      <3>1. r \in Item /\ h[r] = g[r] /\ AsServed(r, g[r])
        BY <1>1, <1>3, <1>5, <2>2 DEF Overlays
      <3>2. AsServed(r, g[r])'
        BY <2>2, <3>1, ServedKept
      <3> QED
        BY <3>1, <3>2
    <2> QED
      BY <2>1, <2>2
  <1>12. Overlays(h)'
    BY <1>3, <1>6, <1>9, <1>10, <1>11 DEF Overlays
  <1> QED
    BY <1>12 DEF Overlay

\* The database loses a row, which the page shows still.
LEMMA ServerWithout ==
    ASSUME items \in Seq(Item), Overlay, NEW z \in Ids, items' = items,
           server' = Without(server, z), NEW s \in Slots,
           \A x \in Slots \ {s} : calls'[x] = calls[x],
           SameTold(calls[s], calls'[s]), Deleted' = Deleted \cup {z}, Created' = Created,
           s \notin Created,
           \A x \in Created : calls[x].answer[1] \in Item /\ calls[x].answer[1].id # z
    PROVE  Overlay'
  <1>1. PICK g : Overlays(g)
    BY DEF Overlay
  <1> DEFINE K == Kept(items, Stays)
             N == {r \in Item : r.id # z}
             M == Mapped(K, g)
  <1>2. g \in [Item -> Item] /\ \A r \in Item : g[r].id = r.id
    BY <1>1 DEF Overlays
  <1>3. K \in Seq(Item) /\ M \in Seq(Item)
    BY <1>2, StayingRows, MappedList
  <1>4. Stays' = Stays \cap N
    BY DEF Stays
  <1>5. Kept(items', Stays') = Kept(K, N)
    BY <1>4, KeptTwice
  <1>6. Kept(M, N) = Mapped(Kept(K, N), g)
    <2>1. \A r \in Item : r \in N <=> g[r] \in N
      BY <1>2
    <2> HIDE DEF N, K
    <2> QED
      BY <1>2, <1>3, <2>1, KeptMapped
  <1>7. server' = Kept(server, N)
    BY DEF Without
  <1>8. Created = {} => server' = Mapped(Kept(items', Stays'), g)
    BY <1>1, <1>5, <1>6, <1>7 DEF Overlays
  <1>9. ASSUME NEW x \in Created
        PROVE  server' = Append(Mapped(Kept(items', Stays'), g), calls'[x].answer[1])
    <2> DEFINE y == calls[x].answer[1]
    <2>1. y \in Item /\ y \in N
      BY <1>9
    <2>2. server = Append(M, y)
      BY <1>1, <1>9 DEF Overlays
    <2>3. calls'[x] = calls[x]
      BY <1>9 DEF Created
    <2> HIDE DEF y, M, N, K
    <2>4. Kept(Append(M, y), N) = Append(Kept(M, N), y)
      BY <1>3, <2>1, KeptAppend
    <2>5. server' = Append(Mapped(Kept(K, N), g), y)
      BY <1>6, <1>7, <2>2, <2>4
    <2> QED
      BY <1>5, <2>3, <2>5 DEF y
  <1>10. \A r \in Range(items') : AsServed(r, g[r])'
    BY <1>1, ServedKept DEF Overlays
  <1>11. Overlays(g)'
    <2> HIDE DEF K, M, N
    <2> QED
      BY <1>2, <1>8, <1>9, <1>10 DEF Overlays
  <1> QED
    BY <1>11 DEF Overlay

\* The page drops the row the database lost.
LEMMA ItemWithout ==
    ASSUME items \in Seq(Item), Overlay, NEW z \in Deleted,
           items' = Without(items, z), server' = server, NEW s \in Slots,
           \A x \in Slots \ {s} : calls'[x] = calls[x],
           SameTold(calls[s], calls'[s]), Deleted' = Deleted \ {z}, Created' = Created,
           s \notin Created
    PROVE  Overlay'
  <1>1. PICK g : Overlays(g)
    BY DEF Overlay
  <1> DEFINE N == {r \in Item : r.id # z}
  <1>2. N \cap Stays' = Stays
    BY DEF Stays
  <1>3. items' = Kept(items, N)
    BY DEF Without
  <1> HIDE DEF N
  <1>4. Kept(items', Stays') = Kept(items, Stays)
    BY <1>2, <1>3, KeptTwice
  <1>5. Range(items') \subseteq Range(items)
    BY WithoutList
  <1>6. \A r \in Range(items') : AsServed(r, g[r])'
    BY <1>1, <1>5, ServedKept DEF Overlays
  <1>7. \A x \in Created : calls'[x] = calls[x]
    BY DEF Created
  <1>8. Overlays(g)'
    BY <1>1, <1>4, <1>6, <1>7 DEF Overlays
  <1> QED
    BY <1>8 DEF Overlay

\* The database has a row more; ...
LEMMA ServerAppend ==
    ASSUME Overlay, items' = items, NEW s \in Slots, NEW y,
           server' = Append(server, y), \A x \in Slots \ {s} : calls'[x] = calls[x],
           SameTold(calls[s], calls'[s]), Deleted' = Deleted, Created = {}, Created' = {s},
           calls'[s].answer[1] = y
    PROVE  Overlay'
  <1>1. PICK g : Overlays(g)
    BY DEF Overlay
  <1>2. \A r \in Range(items') : AsServed(r, g[r])'
    BY <1>1, ServedKept DEF Overlays
  <1>3. Stays' = Stays
    BY DEF Stays
  <1>4. Overlays(g)'
    BY <1>1, <1>2, <1>3 DEF Overlays
  <1> QED
    BY <1>4 DEF Overlay

\* ... and the page adds it.
LEMMA ItemAppend ==
    ASSUME items \in Seq(Item), Overlay, NEW y \in Item, ~Has(items, y.id),
           items' = Append(items, y), server' = server, NEW s \in Slots,
           \A x \in Slots \ {s} : calls'[x] = calls[x],
           SameTold(calls[s], calls'[s]), Deleted' = Deleted, Created = {s}, Created' = {},
           calls[s].answer[1] = y, y.id \notin Deleted,
           \A x \in Slots : Elsewhere(calls'[x], y)
    PROVE  Overlay'
  <1>1. PICK g : Overlays(g)
    BY DEF Overlay
  <1> DEFINE h == [r \in Item |-> IF r.id = y.id THEN y ELSE g[r]]
             K == Kept(items, Stays)
  <1>2. g \in [Item -> Item] /\ \A r \in Item : g[r].id = r.id
    BY <1>1 DEF Overlays
  <1>3. /\ h \in [Item -> Item] /\ \A r \in Item : h[r].id = r.id
        /\ \A r \in Item : h[r] = IF r.id = y.id THEN y ELSE g[r]
    BY <1>2
  <1> HIDE DEF h
  <1>4. Stays' = Stays /\ y \in Stays
    BY DEF Stays
  <1>5. Kept(items', Stays') = Append(K, y)
    BY <1>4, KeptAppend
  <1>6. K \in Seq(Item) /\ Range(K) \subseteq Range(items) /\ Range(items) \subseteq Item
        /\ \A r \in Range(items) : r.id # y.id
    BY StayingRows, RowsOf
  <1> HIDE DEF K
  <1>7. Mapped(K, h) = Mapped(K, g)
    <2>1. \A r \in Range(K) : h[r] = g[r]
      BY <1>3, <1>6
    <2>2. K \in Seq(Item) /\ h \in [Item -> Item] /\ g \in [Item -> Item]
      BY <1>2, <1>3, <1>6
    <2> QED
      BY <2>1, <2>2, MappedSame
  <1>8. Mapped(Append(K, y), h) = Append(Mapped(K, h), y)
    BY <1>3, <1>6, MappedAppend
  <1>9. server' = Mapped(Kept(items', Stays'), h)
    <2>1. server = Append(Mapped(K, g), y)
      BY <1>1 DEF Overlays, K
    <2> QED
      BY <1>5, <1>7, <1>8, <2>1
  <1>10. \A r \in Range(items') : AsServed(r, h[r])'
    <2> SUFFICES ASSUME NEW r \in Range(items') PROVE AsServed(r, h[r])'
      OBVIOUS
    <2>1. r \in Range(items) \/ r = y
      BY AppendedRows
    <2>2. CASE r = y
      <3>1. h[r] = r
        BY <1>3, <2>2
      <3>2. \A x \in Slots : Differs(calls'[x]) => calls'[x].id # r.id
        BY <2>2 DEF Elsewhere
      <3> QED
        BY <3>1, <3>2 DEF AsServed
    <2>3. CASE r \in Range(items)
      <3>1. h[r] = g[r] /\ AsServed(r, g[r])
        BY <1>1, <1>3, <1>6, <2>3 DEF Overlays
      <3>2. AsServed(r, g[r])'
        BY <3>1, ServedKept
      <3> QED
        BY <3>1, <3>2
    <2> QED
      BY <2>1, <2>2, <2>3
  <1>11. Overlays(h)'
    BY <1>3, <1>9, <1>10 DEF Overlays
  <1> QED
    BY <1>11 DEF Overlay

-----------------------------------------------------------------------------
\* What a call in flight tells of the list on show.
CallFits(c) ==
    /\ c.op \in RowOps => Has(items, c.id)
    /\ c.op = "flag" => \A r \in Range(items) : r.id = c.id => r.flag = c.value
    /\ c.op = "create" => /\ <<"create", NoId>> \in busy
                          /\ c.step = "ok" => ~Has(items, c.answer[1].id) /\ c.answer[1].id \in used
CallsFit == \A s \in Slots : calls[s].op \notin WideOps /\ CallFits(calls[s])

\* No two calls in flight are about one row, nor two of them creations.
Apart ==
    \A s, t \in Slots :
        \/ calls[s].op \in RowOps /\ calls[t].op \in RowOps /\ calls[s].id = calls[t].id
        \/ calls[s].op = "create" /\ calls[t].op = "create"
        => s = t

\* The rows there are were created, each once.
Fits(list) == OnceEach(list) /\ \A r \in Range(list) : r.id \in used

\* Either the calls in flight are about rows of their own, or one call is about
\* the list and is alone.
Narrow == CallsFit /\ Apart /\ Overlay /\ Fits(items)
WideAt(s) ==
    /\ calls[s].op \in WideOps /\ \A t \in Slots \ {s} : calls[t].op = "idle"
    /\ calls[s].step = "ok" => server = calls[s].answer
    /\ calls[s].step # "ok" => server = IF page = "topic" THEN items ELSE calls[s].base
Patches == page \in {"topic", "drafts"} /\ ~clash /\ ~lost
PatchInv == Patches => Fits(server) /\ (Narrow \/ \E s \in Slots : WideAt(s))

-----------------------------------------------------------------------------
\* A step that changes one call.
OneCall(s) == \A x \in Slots \ {s} : calls'[x] = calls[x]
Gone(c) == c.op = "delete" /\ c.step = "ok"
Added(c) == c.op = "create" /\ c.step = "ok"

LEMMA GoneKept ==
    ASSUME NEW s \in Slots, OneCall(s),
           Gone(calls'[s]) <=> Gone(calls[s]), Gone(calls[s]) => calls'[s].id = calls[s].id
    PROVE  Deleted' = Deleted
  BY DEF Deleted, Gone, OneCall

LEMMA AddedKept ==
    ASSUME NEW s \in Slots, OneCall(s), Added(calls'[s]) <=> Added(calls[s])
    PROVE  Created' = Created
  BY DEF Created, Added, OneCall

LEMMA ApartKept ==
    ASSUME Apart, NEW s \in Slots, OneCall(s),
           calls'[s].op \in {"idle", calls[s].op}, calls'[s].op \in RowOps => calls'[s].id = calls[s].id
    PROVE  Apart'
  BY DEF Apart, OneCall, RowOps

LEMMA StartIs ==
    ASSUME TypeInv, NEW s \in Slots, NEW c, NEW flags, Starts(s, c, flags)
    PROVE  /\ calls[s].op = "idle" /\ calls'[s] = c /\ OneCall(s)
           /\ busy' = busy \cup flags /\ page' = page /\ server' = server /\ used' = used
           /\ lost' = lost /\ clash' = (clash \/ Clashes(c))
  <1>1. calls \in [Slots -> Calls]
    BY DEF TypeInv, TypeOK
  <1> QED
    BY <1>1 DEF Starts, Free, OneCall

\* Calls of the pages that patch.
LEMMA PatchOps ==
    ASSUME TypeInv, page \in {"topic", "drafts"}
    PROVE  \A s \in Slots :
             /\ calls[s].op \in {"idle", "create"} \cup RowOps \cup WideOps
             /\ calls[s].op \in RowOps => calls[s].id \in Ids
             /\ page = "drafts" => calls[s].op \notin {"flag", "bulk"}
  <1> SUFFICES ASSUME NEW s \in Slots
               PROVE  /\ calls[s].op \in {"idle", "create"} \cup RowOps \cup WideOps
                      /\ calls[s].op \in RowOps => calls[s].id \in Ids
                      /\ page = "drafts" => calls[s].op \notin {"flag", "bulk"}
    OBVIOUS
  <1>1. CallTells(calls[s])
    BY DEF TypeInv, CallsTell
  <1> QED
    BY <1>1 DEF CallTells, RowOps, WideOps

\* What a start that does not overlap another call says of the calls in flight.
LEMMA NoClash ==
    ASSUME TypeInv, page \in {"topic", "drafts"}, NEW c, c.op # "load", ~Clashes(c)
    PROVE  /\ \A x \in Slots : calls[x].op \notin WideOps
           /\ c.op \in WideOps => \A x \in Slots : calls[x].op = "idle"
           /\ c.id # NoId => \A x \in Slots : calls[x].op \in RowOps => calls[x].id # c.id
  <1>1. \A x \in Slots : calls[x].op \in {"idle", "create"} \cup RowOps \cup WideOps
    BY PatchOps
  <1>2. \A x \in Slots : calls[x].op # "idle" =>
          /\ c.op \notin Wide /\ calls[x].op \notin Wide /\ ~(c.id # NoId /\ calls[x].id = c.id)
    BY <1>1 DEF Clashes, InFlight, RowOps, WideOps
  <1> QED
    BY <1>1, <1>2 DEF Wide, WideOps, RowOps

\* A call that is about the whole list.
LEMMA WideStarts ==
    ASSUME TypeInv, PatchInv, Patches, NEW s \in Slots, NEW c, NEW flags, Starts(s, c, flags),
           c.op \in WideOps, c.step = "sent", ~clash',
           page = "topic" => items' = items, page = "drafts" => c.base = items
    PROVE  PatchInv'
  <1>1. /\ calls'[s] = c /\ OneCall(s) /\ page' = page /\ server' = server /\ used' = used
        /\ ~Clashes(c)
    BY StartIs
  <1>2. \A x \in Slots : calls[x].op = "idle"
    BY <1>1, NoClash DEF Patches, WideOps
  <1>3. Narrow
    BY <1>2 DEF PatchInv, WideAt, WideOps
  <1>4. items = server
    <2>1. items \in Seq(Item)
      BY DEF TypeInv, TypeOK
    <2> QED
      BY <1>2, <1>3, <2>1, OverlayEnds DEF Narrow
  <1>5. WideAt(s)'
    BY <1>1, <1>2, <1>4 DEF WideAt, OneCall, Patches
  <1> QED
    BY <1>1, <1>5 DEF PatchInv, Fits

\* A call about a row, or a creation, that changes nothing on show yet.
LEMMA RowStarts ==
    ASSUME TypeInv, PatchInv, Patches, NEW s \in Slots, NEW c, NEW flags, Starts(s, c, flags),
           c.op \in {"create", "edit", "delete"}, c.step = "sent", ~clash', items' = items,
           c.op # "create" => c.id # NoId /\ Has(items, c.id),
           c.op = "create" => <<"create", NoId>> \notin busy /\ <<"create", NoId>> \in flags
    PROVE  PatchInv'
  <1>1. /\ calls[s].op = "idle" /\ calls'[s] = c /\ OneCall(s) /\ page' = page
        /\ server' = server /\ used' = used /\ busy' = busy \cup flags /\ ~Clashes(c)
    BY StartIs
  <1>2. /\ \A x \in Slots : calls[x].op \notin WideOps
        /\ c.id # NoId => \A x \in Slots : calls[x].op \in RowOps => calls[x].id # c.id
    BY <1>1, NoClash DEF Patches
  <1>3. Narrow
    BY <1>2 DEF PatchInv, WideAt
  <1>4. Deleted' = Deleted /\ Created' = Created
    BY <1>1, GoneKept, AddedKept DEF Gone, Added
  <1>5. Overlay'
    <2>1. SameTold(calls[s], calls'[s])
      BY <1>1 DEF SameTold, Differs
    <2> QED
      BY <1>1, <1>3, <1>4, <2>1, OverlayKept DEF Narrow, OneCall
  <1>6. CallsFit'
    <2>1. CallFits(c)'
      BY <1>1 DEF CallFits, RowOps
    <2>2. ASSUME NEW x \in Slots \ {s} PROVE CallFits(calls[x])'
      BY <1>1, <1>3 DEF OneCall, CallFits, Narrow, CallsFit
    <2> QED
      BY <1>1, <1>2, <2>1, <2>2 DEF CallsFit, OneCall, WideOps, CallFits
  <1>7. Apart'
    <2>1. c.op = "create" => \A x \in Slots : calls[x].op # "create"
      BY <1>3 DEF Narrow, CallsFit, CallFits
    <2> QED
      BY <1>1, <1>2, <1>3, <2>1 DEF Narrow, Apart, OneCall, RowOps
  <1> QED
    BY <1>1, <1>3, <1>5, <1>6, <1>7 DEF PatchInv, Narrow, Fits

\* A checkbox flips: the database has the row as it was.
LEMMA FlagStarts ==
    ASSUME TypeInv, TypeInv', PatchInv, Patches, NEW s \in Slots, NEW c, NEW flags, Starts(s, c, flags),
           NEW old \in Range(items), NEW new \in Item, new = [old EXCEPT !.flag = new.flag],
           c.op = "flag", c.step = "sent", c.id = old.id, c.value = new.flag, c.base = <<old>>,
           items' = With(items, new), ~clash'
    PROVE  PatchInv'
  <1>1. /\ calls[s].op = "idle" /\ calls'[s] = c /\ OneCall(s) /\ page' = page
        /\ server' = server /\ used' = used /\ busy' = busy \cup flags /\ ~Clashes(c)
    BY StartIs
  <1>2. items \in Seq(Item) /\ old \in Item /\ old.id \in Ids /\ NoId \notin Ids
        /\ c.id # NoId
    <2>1. items \in Seq(Item)
      BY DEF TypeInv, TypeOK
    <2>2. old \in Item
      BY <2>1, RowsOf
    <2> QED
      BY <2>1, <2>2, PageAssumption DEF Item
  <1>3. /\ \A x \in Slots : calls[x].op \notin WideOps
        /\ \A x \in Slots : calls[x].op \in RowOps => calls[x].id # old.id
    BY <1>1, <1>2, NoClash DEF Patches
  <1>4. Narrow
    BY <1>3 DEF PatchInv, WideAt
  <1>5. Deleted' = Deleted /\ Created' = Created /\ s \notin Created
    BY <1>1, GoneKept, AddedKept DEF Gone, Added, Created
  <1>6. /\ new.id = old.id /\ [new EXCEPT !.flag = old.flag] = old
        /\ \A r \in Range(items) : r.id = new.id => r = old
    <2>1. new.id = old.id /\ [new EXCEPT !.flag = old.flag] = old
      BY <1>2 DEF Item
    <2> QED
      BY <1>2, <1>4, <2>1, OneRow DEF Narrow, Fits
  <1>7. \A x \in Slots : Differs(calls[x]) => calls[x].id # old.id
    BY <1>3 DEF Differs, RowOps
  <1>8. AsServed(old, old)
    BY <1>7 DEF AsServed
  <1>9. AsServed(new, old)'
    <2>1. Differs(calls'[s]) /\ calls'[s].id = new.id /\ Told(calls'[s], new) = old
      <3>1. c.base[1] = old
        OBVIOUS
      <3> QED
        BY <1>1, <1>6, <3>1 DEF Differs, Told
    <2>2. \A x \in Slots \ {s} : Differs(calls'[x]) => calls'[x].id # new.id
      BY <1>1, <1>6, <1>7 DEF OneCall
    <2> QED
      BY <1>6, <2>1, <2>2 DEF AsServed
  <1>10. Overlay'
    <2>1. \A r \in Item : r.id # new.id => Elsewhere(calls[s], r) /\ Elsewhere(calls'[s], r)
      BY <1>1, <1>6 DEF Elsewhere, Differs
    <2>2. \A r \in Range(items) : r.id = new.id => AsServed(r, old)
      BY <1>6, <1>8
    <2>3. OnceEach(items) /\ Overlay
      BY <1>4 DEF Narrow, Fits
    <2>4. \A x \in Slots \ {s} : calls'[x] = calls[x]
      BY <1>1 DEF OneCall
    <2> QED
      BY <1>1, <1>2, <1>5, <1>6, <1>9, <2>1, <2>2, <2>3, <2>4, ItemPut
  <1>11. /\ \A x : Has(items', x) <=> Has(items, x)
         /\ \A r \in Range(items') : (r.id = old.id => r = new) /\ (r.id # old.id => r \in Range(items))
         /\ OnceEach(items')
    BY <1>2, <1>4, <1>6, WithRows DEF Narrow, Fits
  <1>12. CallsFit'
    <2>1. Has(items, old.id)
      BY <1>2, RowsOf
    <2>2. CallFits(c)'
      BY <1>11, <2>1 DEF CallFits, RowOps
    <2>3. ASSUME NEW x \in Slots \ {s} PROVE CallFits(calls[x])'
      <3>1. CallFits(calls[x]) /\ (calls[x].op \in RowOps => calls[x].id # old.id)
        BY <1>3, <1>4 DEF Narrow, CallsFit
      <3> QED
        BY <1>1, <1>11, <3>1 DEF OneCall, CallFits, RowOps
    <2> QED
      BY <1>1, <1>3, <2>2, <2>3 DEF CallsFit, OneCall, WideOps, CallFits
  <1>13. Apart'
    BY <1>1, <1>3, <1>4 DEF Narrow, Apart, OneCall, RowOps
  <1>14. Fits(items)'
    BY <1>1, <1>4, <1>6, <1>11 DEF Narrow, Fits
  <1> QED
    BY <1>1, <1>10, <1>12, <1>13, <1>14 DEF PatchInv, Narrow, Fits

-----------------------------------------------------------------------------
\* A handler ends with its call.
LEMMA EndIs ==
    ASSUME TypeInv, NEW s \in Slots, NEW flags, Ends(s, flags)
    PROVE  /\ calls'[s] = Idle /\ calls'[s].op = "idle" /\ OneCall(s) /\ busy' = busy \ flags
           /\ page' = page /\ server' = server /\ used' = used /\ clash' = clash
  <1>1. calls \in [Slots -> Calls]
    BY DEF TypeInv, TypeOK
  <1> QED
    BY <1>1, IdleMade DEF Ends, OneCall

\* What the calls left in flight ask of the list the handler leaves.
Spares(s) ==
    \A x \in Slots \ {s} :
        /\ calls[x].op \in RowOps =>
             /\ Has(items', calls[x].id)
             /\ \A r \in Range(items') : r.id = calls[x].id => r \in Range(items)
        /\ Added(calls[x]) => ~Has(items', calls[x].answer[1].id)

LEMMA NarrowAnswered ==
    ASSUME TypeInv, Narrow, NEW s \in Slots,
           Ends(s, {<<calls[s].op, calls[s].id>>}), Spares(s), Fits(items)', Overlay'
    PROVE  Narrow'
  <1>1. /\ calls'[s].op = "idle" /\ OneCall(s) /\ busy' = busy \ {<<calls[s].op, calls[s].id>>}
        /\ used' = used
    BY EndIs
  <1>2. Apart'
    BY <1>1, ApartKept DEF Narrow, RowOps
  <1>3. ASSUME NEW x \in Slots \ {s} PROVE CallFits(calls[x])'
    <2>1. CallFits(calls[x]) /\ calls'[x] = calls[x]
      BY <1>1 DEF Narrow, CallsFit, OneCall
    <2>2. calls[x].op = "create" => <<"create", NoId>> \in busy'
      <3>1. calls[x].op = "create" => calls[s].op # "create"
        BY DEF Narrow, Apart
      <3> QED
        BY <1>1, <2>1, <3>1 DEF CallFits
    <2> QED
      BY <1>1, <2>1, <2>2 DEF CallFits, Spares, Added, RowOps
  <1>4. CallsFit'
    <2>1. CallFits(calls[s])'
      BY <1>1 DEF CallFits, RowOps
    <2>2. \A x \in Slots : calls'[x].op \notin WideOps
      BY <1>1 DEF Narrow, CallsFit, OneCall, WideOps
    <2> QED
      BY <1>3, <2>1, <2>2 DEF CallsFit
  <1> QED
    BY <1>2, <1>4 DEF Narrow

\* A failure, or a toggle made: the list on show is right as it is.
LEMMA NoneAnswered ==
    ASSUME TypeInv, Narrow, NEW s \in Slots, Ends(s, {<<calls[s].op, calls[s].id>>}), items' = items,
           ~Differs(calls[s]), ~Gone(calls[s]), ~Added(calls[s])
    PROVE  Narrow'
  <1>1. calls'[s].op = "idle" /\ OneCall(s) /\ server' = server /\ used' = used
    BY EndIs
  <1>2. Deleted' = Deleted /\ Created' = Created
    BY <1>1, GoneKept, AddedKept DEF Gone, Added
  <1>3. SameTold(calls[s], calls'[s])
    BY <1>1 DEF SameTold, Differs
  <1>4. Overlay'
    BY <1>1, <1>2, <1>3, OverlayKept DEF Narrow, OneCall, Added
  <1>5. Fits(items)'
    BY <1>1 DEF Narrow, Fits
  <1>6. Spares(s)
    BY DEF Spares, Narrow, CallsFit, CallFits, Added
  <1> QED
    BY <1>4, <1>5, <1>6, NarrowAnswered

\* The page puts the row the database has, which the call told of.
LEMMA PutAnswered ==
    ASSUME TypeInv, Narrow, NEW s \in Slots, Ends(s, {<<calls[s].op, calls[s].id>>}),
           NEW n \in Item, items' = With(items, n), Differs(calls[s]), n.id = calls[s].id,
           \A r \in Range(items) : r.id = n.id => Told(calls[s], r) = n
    PROVE  Narrow'
  <1>1. calls'[s].op = "idle" /\ OneCall(s) /\ server' = server /\ used' = used
    BY EndIs
  <1>2. items \in Seq(Item) /\ OnceEach(items) /\ Overlay /\ Apart /\ calls[s].op \in RowOps
    BY DEF TypeInv, TypeOK, Narrow, Fits, Differs, RowOps
  <1>3. Deleted' = Deleted /\ Created' = Created /\ s \notin Created
    BY <1>1, GoneKept, AddedKept DEF Gone, Added, Differs, Created
  <1>4. \A x \in Slots \ {s} : calls[x].op \in RowOps => calls[x].id # n.id
    BY <1>2 DEF Apart
  <1>5. \A r \in Range(items) : r.id = n.id => AsServed(r, n)
    <2>1. \A x \in Slots \ {s} : Differs(calls[x]) => calls[x].id # n.id
      BY <1>4 DEF Differs, RowOps
    <2> QED
      BY <2>1 DEF AsServed
  <1>6. AsServed(n, n)'
    <2>1. \A x \in Slots : Differs(calls'[x]) => calls'[x].id # n.id
      BY <1>1, <1>4 DEF Differs, RowOps, OneCall
    <2> QED
      BY <2>1 DEF AsServed
  <1>7. Overlay'
    <2>1. \A r \in Item : r.id # n.id => Elsewhere(calls[s], r) /\ Elsewhere(calls'[s], r)
      BY <1>1 DEF Elsewhere, Differs
    <2>2. \A x \in Slots \ {s} : calls'[x] = calls[x]
      BY <1>1 DEF OneCall
    <2> QED
      BY <1>1, <1>2, <1>3, <1>5, <1>6, <2>1, <2>2, ItemPut
  <1>8. /\ \A x : Has(items', x) <=> Has(items, x)
        /\ \A r \in Range(items') : (r.id = n.id => r = n) /\ (r.id # n.id => r \in Range(items))
        /\ OnceEach(items')
    BY <1>2, WithRows
  <1>9. Fits(items)'
    <2>1. Has(items, n.id)
      BY <1>2 DEF Narrow, CallsFit, CallFits
    <2>2. PICK r \in Range(items) : r.id = n.id
      BY <1>2, <2>1, RowsOf
    <2> QED
      BY <1>1, <1>8, <2>2 DEF Narrow, Fits
  <1>10. Spares(s)
    BY <1>4, <1>8 DEF Spares, Narrow, CallsFit, CallFits, Added
  <1> QED
    BY <1>7, <1>9, <1>10, NarrowAnswered

\* The page drops the row.
LEMMA DeleteAnswered ==
    ASSUME TypeInv, Narrow, NEW s \in Slots, Ends(s, {<<calls[s].op, calls[s].id>>}),
           Gone(calls[s]), items' = Without(items, calls[s].id)
    PROVE  Narrow'
  <1> DEFINE z == calls[s].id
  <1>1. calls'[s].op = "idle" /\ OneCall(s) /\ server' = server /\ used' = used
    BY EndIs
  <1>2. items \in Seq(Item) /\ Fits(items) /\ Overlay /\ Apart /\ calls[s].op \in RowOps
        /\ z \in Ids
    <2>1. CallTells(calls[s])
      BY DEF TypeInv, CallsTell
    <2> QED
      BY <2>1 DEF TypeInv, TypeOK, Narrow, Gone, RowOps, CallTells
  <1>3. \A x \in Slots \ {s} : calls[x].op \in RowOps => calls[x].id # z
    BY <1>2 DEF Apart
  <1>4. z \in Deleted /\ Deleted' = Deleted \ {z}
    BY <1>1, <1>2, <1>3 DEF Deleted, Gone, OneCall, RowOps
  <1>5. Created' = Created /\ s \notin Created
    BY <1>1, AddedKept DEF Gone, Added, Created
  <1>6. SameTold(calls[s], calls'[s])
    BY <1>1 DEF SameTold, Differs, Gone
  <1>7. Overlay'
    BY <1>1, <1>2, <1>4, <1>5, <1>6, ItemWithout DEF OneCall
  <1>8. items' \in Seq(Item) /\ Range(items') = {r \in Range(items) : r.id # z}
    BY <1>2, WithoutList
  <1>9. Fits(items)'
    <2>1. OnceEach(items')
      BY <1>2, KeptOnce DEF Without, Fits
    <2> QED
      BY <1>1, <1>2, <1>8, <2>1 DEF Fits
  <1>10. \A y : Has(items', y) <=> y # z /\ Has(items, y)
    BY <1>2, <1>8, RowsOf
  <1>11. Spares(s)
    BY <1>3, <1>8, <1>10 DEF Spares, Narrow, CallsFit, CallFits, Added
  <1> QED
    BY <1>7, <1>9, <1>11, NarrowAnswered

\* The page adds the row.
LEMMA CreateAnswered ==
    ASSUME TypeInv, Narrow, NEW s \in Slots, Ends(s, {<<calls[s].op, calls[s].id>>}),
           Added(calls[s]), NEW y \in Item, calls[s].answer = <<y>>, y.id \in used,
           items' = Append(items, y)
    PROVE  Narrow'
  <1>1. calls'[s].op = "idle" /\ OneCall(s) /\ server' = server /\ used' = used
    BY EndIs
  <1>2. items \in Seq(Item) /\ Fits(items) /\ Overlay /\ Apart /\ calls[s].answer[1] = y
    BY DEF TypeInv, TypeOK, Narrow
  <1>3. ~Has(items, y.id)
    BY <1>2 DEF Narrow, CallsFit, CallFits, Added
  <1>4. \A x \in Slots : calls[x].op \in RowOps => Has(items, calls[x].id) /\ calls[x].id # y.id
    BY <1>3 DEF Narrow, CallsFit, CallFits
  <1>5. y.id \notin Deleted /\ \A x \in Slots : Elsewhere(calls'[x], y)
    BY <1>1, <1>4 DEF Deleted, Elsewhere, Differs, RowOps, OneCall
  <1>6. \A x \in Slots \ {s} : ~Added(calls[x])
    BY <1>2 DEF Apart, Added
  <1>7. Created = {s} /\ Created' = {} /\ Deleted' = Deleted
    <2>1. Deleted' = Deleted
      BY <1>1, GoneKept DEF Gone, Added
    <2> QED
      BY <1>1, <1>6, <2>1 DEF Created, Added, OneCall
  <1>8. SameTold(calls[s], calls'[s])
    BY <1>1 DEF SameTold, Differs, Added
  <1>9. Overlay'
    <2>1. \A x \in Slots \ {s} : calls'[x] = calls[x]
      BY <1>1 DEF OneCall
    <2> QED
      BY <1>1, <1>2, <1>3, <1>5, <1>7, <1>8, <2>1, ItemAppend
  <1>10. items' \in Seq(Item) /\ Range(items') = Range(items) \cup {y} /\ OnceEach(items')
    <2>1. items' \in Seq(Item) /\ Range(items') = Range(items) \cup {y}
      BY <1>2, AppendedRows
    <2>2. \A q \in Range(items) : q.id # y.id
      BY <1>2, <1>3, RowsOf
    <2> QED
      BY <1>2, <2>1, <2>2, OnceAppend DEF Fits
  <1>11. Fits(items)'
    BY <1>1, <1>2, <1>10 DEF Fits
  <1>12. \A x : Has(items, x) => Has(items', x)
    <2>1. \A x : Has(items, x) <=> \E r \in Range(items) : r.id = x
      BY <1>2, RowsOf
    <2> DEFINE h == items'
    <2>2. h \in Seq(Item) /\ Range(items) \subseteq Range(h)
      BY <1>10
    <2> HIDE DEF h
    <2>3. \A x : Has(h, x) <=> \E r \in Range(h) : r.id = x
      BY <2>2, RowsOf
    <2> QED
      BY <2>1, <2>2, <2>3 DEF h
  <1>13. Spares(s)
    BY <1>4, <1>6, <1>10, <1>12 DEF Spares
  <1> QED
    BY <1>9, <1>11, <1>13, NarrowAnswered

\* A page at rest that shows the database's list.
Rests == items \in Seq(Item) /\ items = server /\ \A s \in Slots : calls[s].op = "idle"

LEMMA RestOverlays == Rests => Overlay
  BY OverlayStarts DEF Rests

LEMMA RestOverlaysNext == Rests' => Overlay'
  BY RestOverlays, PTL

\* The call about the whole list is answered: the page is at rest.
LEMMA WideAnswered ==
    ASSUME TypeInv, TypeInv', NEW s \in Slots, WideAt(s), Ends(s, {<<calls[s].op, calls[s].id>>}),
           Fits(server), items' = server
    PROVE  Narrow'
  <1>1. /\ calls'[s].op = "idle" /\ OneCall(s) /\ server' = server /\ used' = used
    BY EndIs
  <1>2. \A x \in Slots : calls'[x].op = "idle"
    BY <1>1 DEF WideAt, OneCall
  <1>3. items' \in Seq(Item)
    BY DEF TypeInv, TypeOK
  <1>4. Overlay'
    BY <1>1, <1>2, <1>3, RestOverlaysNext DEF Rests
  <1>5. CallsFit' /\ Apart'
    BY <1>2 DEF CallsFit, CallFits, Apart, RowOps, WideOps
  <1> QED
    BY <1>1, <1>4, <1>5 DEF Narrow, Fits

-----------------------------------------------------------------------------
\* What either page makes of its list when a call is answered.
Made(c) ==
    /\ c.step = "ok" =>
        /\ c.op \in WideOps => items' = c.answer
        /\ c.op = "create" => items' = items \o c.answer
        /\ c.op = "edit" => items' = With(items, c.answer[1])
        /\ c.op = "delete" => items' = Without(items, c.id)
        /\ c.op = "flag" => items' = items
    /\ c.step # "ok" =>
        /\ c.op \in WideOps => items' = IF page = "topic" THEN items ELSE c.base
        /\ c.op = "flag" => items' = Reverted(items, c)
        /\ c.op \in {"create", "edit", "delete"} => items' = items

LEMMA RevertAnswered ==
    ASSUME TypeInv, Narrow, page = "topic", NEW s \in Slots, Ends(s, {<<calls[s].op, calls[s].id>>}),
           calls[s].op = "flag", calls[s].step # "ok", items' = Reverted(items, calls[s])
    PROVE  Narrow'
  <1>1. items \in Seq(Item) /\ OnceEach(items) /\ CallTells(calls[s]) /\ Has(items, calls[s].id)
    BY DEF TypeInv, TypeOK, CallsTell, Narrow, CallsFit, CallFits, Fits, RowOps
  <1>2. PICK b \in Item : calls[s].base = <<b>>
    BY <1>1 DEF CallTells
  <1> DEFINE old == At(items, calls[s].id)
             n == [old EXCEPT !.flag = b.flag]
  <1>3. old \in Item /\ old.id = calls[s].id /\ old \in Range(items) /\ b.flag \in BOOLEAN
    BY <1>1, AtList DEF Item
  <1>4. items' = With(items, n)
    BY <1>1, <1>2 DEF Reverted
  <1>5. \A r \in Range(items) : r.id = calls[s].id => r = old
    <2>1. \A q \in Range(items) : q.id = old.id => q = old
      <3> HIDE DEF old
      <3> QED
        BY <1>1, <1>3, OneRow
    <2> QED
      BY <1>3, <2>1
  <1> HIDE DEF old
  <1>6. n \in Item /\ n.id = calls[s].id
    <2>1. old \in Item /\ b.flag \in BOOLEAN
      BY <1>3
    <2>2. n \in Item /\ n.id = old.id
      BY <2>1 DEF Item
    <2> HIDE DEF n
    <2> QED
      BY <1>3, <2>2
  <1>7. Differs(calls[s]) /\ \A r \in Range(items) : r.id = n.id => Told(calls[s], r) = n
    <2>1. calls[s].base[1] = b
      BY <1>2
    <2> QED
      BY <1>5, <1>6, <2>1 DEF Differs, Told
  <1> HIDE DEF n
  <1> QED
    BY <1>4, <1>6, <1>7, PutAnswered

LEMMA AnsweredPatches ==
    ASSUME TypeInv, TypeInv', PatchInv, Patches, NEW s \in Slots,
           Ends(s, {<<calls[s].op, calls[s].id>>}), calls[s].op # "idle", Made(calls[s])
    PROVE  PatchInv'
  <1>1. page' = page /\ server' = server /\ used' = used /\ Fits(server)
    BY EndIs DEF PatchInv
  <1>2. /\ calls[s].op \in {"create"} \cup RowOps \cup WideOps
        /\ page = "drafts" => calls[s].op \notin {"flag", "bulk"}
        /\ CallTells(calls[s]) /\ items \in Seq(Item)
    BY PatchOps DEF Patches, TypeInv, TypeOK, CallsTell
  <1>3. CASE \E t \in Slots : WideAt(t)
    <2>1. WideAt(s)
      BY <1>2, <1>3 DEF WideAt
    <2>2. items' = server
      BY <2>1, <1>2 DEF Made, WideAt
    <2> QED
      BY <1>1, <2>1, <2>2, WideAnswered DEF PatchInv, Fits
  <1>4. CASE Narrow
    <2> SUFFICES Narrow'
      BY <1>1 DEF PatchInv, Fits
    <2>1. calls[s].op \in {"create"} \cup RowOps
      BY <1>2, <1>4 DEF Narrow, CallsFit
    <2>2. CASE calls[s].step # "ok" /\ calls[s].op = "flag"
      <3>1. page = "topic" /\ items' = Reverted(items, calls[s])
        BY <1>2, <2>2 DEF Made, Patches
      <3> QED
        BY <1>4, <2>2, <3>1, RevertAnswered
    <2>3. CASE calls[s].op # "flag" /\ calls[s].step # "ok"
      <3>1. items' = items
        BY <2>1, <2>3 DEF Made, RowOps
      <3>2. ~Differs(calls[s]) /\ ~Gone(calls[s]) /\ ~Added(calls[s])
        BY <2>3 DEF Differs, Gone, Added
      <3> QED
        BY <1>4, <3>1, <3>2, NoneAnswered
    <2>4. CASE calls[s].step = "ok" /\ calls[s].op = "flag"
      <3>1. items' = items
        BY <2>4 DEF Made
      <3>2. ~Differs(calls[s]) /\ ~Gone(calls[s]) /\ ~Added(calls[s])
        BY <2>4 DEF Differs, Gone, Added
      <3> QED
        BY <1>4, <3>1, <3>2, NoneAnswered
    <2>5. CASE calls[s].step = "ok" /\ calls[s].op = "edit"
      <3>1. PICK q \in Item : q.id = calls[s].id /\ calls[s].answer = <<q>>
        BY <1>2, <2>5 DEF CallTells
      <3>2. items' = With(items, q) /\ calls[s].answer[1] = q
        BY <2>5, <3>1 DEF Made
      <3>3. Differs(calls[s]) /\ \A r \in Range(items) : r.id = q.id => Told(calls[s], r) = q
        BY <2>5, <3>2 DEF Differs, Told
      <3> QED
        BY <1>4, <3>1, <3>2, <3>3, PutAnswered
    <2>6. CASE calls[s].step = "ok" /\ calls[s].op = "delete"
      <3>1. Gone(calls[s]) /\ items' = Without(items, calls[s].id)
        BY <2>6 DEF Made, Gone
      <3> QED
        BY <1>4, <3>1, DeleteAnswered
    <2>7. CASE calls[s].step = "ok" /\ calls[s].op = "create"
      <3>1. PICK y \in Ids : calls[s].answer = <<New(y)>>
        BY <1>2, <2>7 DEF CallTells
      <3> DEFINE q == New(y)
      <3>2. q \in Item /\ calls[s].answer = <<q>> /\ calls[s].answer[1] = q
        BY <3>1, NewTyped
      <3> HIDE DEF q
      <3>3. items' = items \o <<q>>
        BY <2>7, <3>2 DEF Made
      <3>4. items' = Append(items, q)
        BY <1>2, <3>2, <3>3
      <3>5. Added(calls[s]) /\ q.id \in used
        BY <1>4, <2>7, <3>2 DEF Added, Narrow, CallsFit, CallFits
      <3> QED
        BY <1>4, <3>2, <3>4, <3>5, CreateAnswered
    <2> QED
      BY <2>1, <2>2, <2>3, <2>4, <2>5, <2>6, <2>7 DEF RowOps
  <1> QED
    BY <1>3, <1>4 DEF PatchInv

-----------------------------------------------------------------------------
\* A start or an end that leaves the page's ghosts down found them down.
LEMMA StartPatches ==
    ASSUME TypeInv, Patches', NEW s \in Slots, NEW c, NEW flags, Starts(s, c, flags)
    PROVE  Patches /\ ~clash'
  BY StartIs DEF Patches, Starts, TypeInv, TypeOK

LEMMA EndPatches ==
    ASSUME TypeInv, Patches', NEW s \in Slots, NEW flags, Ends(s, flags), lost' = lost
    PROVE  Patches
  BY EndIs DEF Patches

\* The topic page.
LEMMA TopicPatches ==
    ASSUME TypeInv, TypeInv', PatchInv, Patches', NEW s \in Slots, TopicSteps(s)
    PROVE  PatchInv'
  <1>1. page = "topic" /\ items \in Seq(Item)
    BY DEF TypeInv, TypeOK, TopicSteps, MoveQuestion, ToggleDrafted, AddQuestion,
           BulkAddQuestions, EditQuestion, DeleteQuestion, TopicAnswered, onTopic
  <1>2. \A k \in 1 .. Len(items) : Has(items, items[k].id) /\ items[k].id # NoId
    <2>1. \A x \in Ids : x # NoId
      BY PageAssumption
    <2>2. \A k \in 1 .. Len(items) : items[k].id \in Ids
      BY <1>1, RowIs
    <2> QED
      BY <2>1, <2>2 DEF Has
  <1>3. CASE MoveQuestion(s)
    <2>1. PICK k \in 1 .. Len(items) - 1 : Starts(s, MoveCall(items, k), {})
      BY <1>3 DEF MoveQuestion, MoveCall
    <2> DEFINE c == MoveCall(items, k)
    <2>2. c.op \in WideOps /\ c.step = "sent" /\ Starts(s, c, {})
      BY <1>1, <2>1, MoveTyped DEF WideOps
    <2> HIDE DEF c
    <2> QED
      BY <1>1, <1>3, <2>2, StartPatches, WideStarts DEF MoveQuestion
  <1>4. CASE ToggleDrafted(s)
    <2>1. PICK k \in 1 .. Len(items) :
            /\ Starts(s, BasedOn(FlagCall(items[k].id, [items[k] EXCEPT !.flag = ~@].flag),
                                 <<items[k]>>), {})
            /\ items' = With(items, [items[k] EXCEPT !.flag = ~@])
      BY <1>4 DEF ToggleDrafted, BasedOn, FlagCall
    <2> DEFINE old == items[k]
               new == [old EXCEPT !.flag = ~@]
               c == BasedOn(FlagCall(old.id, new.flag), <<old>>)
    <2>2. old \in Item /\ old.id \in Ids /\ old.flag \in BOOLEAN /\ old \in Range(items)
      BY <1>1, RowIs
    <2>3. Starts(s, c, {}) /\ items' = With(items, new)
      BY <2>1
    <2> HIDE DEF old
    <2>4. new \in Item /\ new.flag \in BOOLEAN /\ new = [old EXCEPT !.flag = new.flag]
      <3> DEFINE v == ~old.flag
      <3>1. new = [old EXCEPT !.flag = v] /\ v \in BOOLEAN
        OBVIOUS
      <3> HIDE DEF v, new
      <3>2. new \in Item /\ new.flag = v
        <4>1. [old EXCEPT !.flag = v] \in Item /\ [old EXCEPT !.flag = v].flag = v
          BY <2>2, <3>1 DEF Item
        <4> QED
          BY <3>1, <4>1
      <3> QED
        BY <3>1, <3>2
    <2> HIDE DEF new
    <2>5. c.op = "flag" /\ c.id = old.id /\ c.base = <<old>> /\ c.value = new.flag /\ c.step = "sent"
      <3>1. <<old>> \in Seq(Item)
        BY <2>2
      <3> DEFINE d == FlagCall(old.id, new.flag)
      <3>2. d \in Calls /\ d.op = "flag" /\ d.id = old.id /\ d.value = new.flag /\ d.step = "sent"
        BY <2>2, <2>4, ValuedTyped
      <3> HIDE DEF d
      <3>3. LET e == BasedOn(d, <<old>>) IN
              e.op = d.op /\ e.id = d.id /\ e.value = d.value /\ e.step = d.step /\ e.base = <<old>>
        BY <3>1, <3>2, BasedTyped
      <3> QED
        BY <3>2, <3>3 DEF d
    <2> HIDE DEF c
    <2>6. Patches /\ ~clash'
      BY <2>3, StartPatches
    <2> QED
      BY <2>2, <2>3, <2>4, <2>5, <2>6, FlagStarts
  <1>5. CASE AddQuestion(s)
    <2> DEFINE c == CallOf("create", NoId)
    <2>1. c.op = "create" /\ c.step = "sent"
      BY CallsMade
    <2>2. /\ Starts(s, c, {<<"create", NoId>>}) /\ items' = items
          /\ <<"create", NoId>> \notin busy /\ <<"create", NoId>> \in {<<"create", NoId>>}
      BY <1>5 DEF AddQuestion
    <2> HIDE DEF c
    <2> QED
      BY <2>1, <2>2, StartPatches, RowStarts
  <1>6. CASE BulkAddQuestions(s)
    <2> DEFINE c == CallOf("bulk", NoId)
    <2>1. c.op \in WideOps /\ c.step = "sent"
      BY CallsMade DEF WideOps
    <2>2. Starts(s, c, {<<"bulk", NoId>>}) /\ items' = items
      BY <1>6 DEF BulkAddQuestions
    <2> HIDE DEF c
    <2> QED
      BY <1>1, <2>1, <2>2, StartPatches, WideStarts
  <1>7. CASE EditQuestion(s)
    <2>1. PICK k \in 1 .. Len(items) :
            Starts(s, EditCall(items[k].id, ~items[k].text), {<<"edit", items[k].id>>})
      BY <1>7 DEF EditQuestion, EditCall
    <2>2. items[k].id \in Ids
      BY <1>1, RowIs
    <2> DEFINE c == EditCall(items[k].id, ~items[k].text)
    <2>3. c.op = "edit" /\ c.id = items[k].id /\ c.step = "sent"
      BY <2>2, ValuedTyped
    <2>4. Starts(s, c, {<<"edit", items[k].id>>}) /\ items' = items
      BY <1>7, <2>1 DEF EditQuestion
    <2> HIDE DEF c
    <2>5. c.id # NoId /\ Has(items, c.id)
      BY <1>2, <2>3
    <2> QED
      BY <2>3, <2>4, <2>5, StartPatches, RowStarts
  <1>8. CASE DeleteQuestion(s)
    <2>1. PICK k \in 1 .. Len(items) :
            Starts(s, CallOf("delete", items[k].id), {<<"delete", items[k].id>>})
      BY <1>8 DEF DeleteQuestion
    <2> DEFINE c == CallOf("delete", items[k].id)
    <2>2. c.op = "delete" /\ c.id = items[k].id /\ c.step = "sent"
      BY CallsMade
    <2>3. Starts(s, c, {<<"delete", items[k].id>>}) /\ items' = items
      BY <1>8, <2>1 DEF DeleteQuestion
    <2> HIDE DEF c
    <2>4. c.id # NoId /\ Has(items, c.id)
      BY <1>2, <2>2
    <2> QED
      BY <2>2, <2>3, <2>4, StartPatches, RowStarts
  <1>9. CASE TopicAnswered(s)
    <2>1. /\ items' = IF calls[s].step = "ok" THEN Patched(items, calls[s])
                      ELSE Reverted(items, calls[s])
          /\ Ends(s, {<<calls[s].op, calls[s].id>>}) /\ lost' = lost /\ calls[s].op # "idle"
      BY <1>9 DEF TopicAnswered
    <2> DEFINE c == calls[s]
    <2>2. Made(c)
      <3>1. items' = IF c.step = "ok" THEN Patched(items, c) ELSE Reverted(items, c)
        BY <2>1
      <3> HIDE DEF c
      <3>2. CASE c.step = "ok"
        BY <3>1, <3>2 DEF Made, Patched, WideOps
      <3>3. CASE c.step # "ok"
        BY <1>1, <3>1, <3>3 DEF Made, Reverted, WideOps
      <3> QED
        BY <3>2, <3>3
    <2> QED
      BY <2>1, <2>2, EndPatches, AnsweredPatches
  <1> QED
    BY <1>3, <1>4, <1>5, <1>6, <1>7, <1>8, <1>9 DEF TopicSteps

\* The drafts panel.
LEMMA DraftPatches ==
    ASSUME TypeInv, TypeInv', PatchInv, Patches', NEW s \in Slots, DraftCalls(s)
    PROVE  PatchInv'
  <1>1. page = "drafts" /\ items \in Seq(Item) /\ form \in Forms
    BY DEF TypeInv, TypeOK, DraftCalls, CreateDraft, SaveEdit, RemoveDraft, MoveDraft,
           DraftAnswered, onDrafts
  <1>2. CASE CreateDraft(s)
    <2> DEFINE c == CallOf("create", NoId)
    <2>1. c.op = "create" /\ c.step = "sent"
      BY CallsMade
    <2>2. /\ Starts(s, c, {<<"create", NoId>>}) /\ items' = items
          /\ <<"create", NoId>> \notin busy /\ <<"create", NoId>> \in {<<"create", NoId>>}
      BY <1>2 DEF CreateDraft
    <2> HIDE DEF c
    <2> QED
      BY <2>1, <2>2, StartPatches, RowStarts
  <1>3. CASE SaveEdit(s)
    <2>1. /\ form.editing # NoId /\ items' = items /\ Has(items, form.editing)
          /\ Starts(s, EditCall(form.editing, ~At(items, form.editing).text),
                    {<<"edit", form.editing>>})
      BY <1>3 DEF SaveEdit, EditCall
    <2> DEFINE c == EditCall(form.editing, ~At(items, form.editing).text)
    <2>2. form.editing \in Ids
      BY <1>1, <2>1 DEF Forms
    <2>3. c.op = "edit" /\ c.id = form.editing /\ c.step = "sent"
      BY <2>2, ValuedTyped
    <2>4. Starts(s, c, {<<"edit", form.editing>>})
      BY <2>1
    <2> HIDE DEF c
    <2> QED
      BY <2>1, <2>3, <2>4, StartPatches, RowStarts
  <1>4. CASE RemoveDraft(s)
    <2>1. PICK x \in Ids : Has(items, x) /\ Starts(s, CallOf("delete", x), {<<"delete", x>>})
      BY <1>4 DEF RemoveDraft
    <2> DEFINE c == CallOf("delete", x)
    <2>2. c.op = "delete" /\ c.id = x /\ c.step = "sent" /\ x # NoId
      BY CallsMade, PageAssumption
    <2>3. Starts(s, c, {<<"delete", x>>}) /\ items' = items
      BY <1>4, <2>1 DEF RemoveDraft
    <2> HIDE DEF c
    <2> QED
      BY <2>1, <2>2, <2>3, StartPatches, RowStarts
  <1>5. CASE MoveDraft(s)
    <2>1. PICK k \in 1 .. Len(items) - 1 :
            Starts(s, BasedOn(MoveCall(items, k), items), {<<"reorder", NoId>>})
      BY <1>5 DEF MoveDraft, MoveCall, BasedOn
    <2> DEFINE c == BasedOn(MoveCall(items, k), items)
    <2>2. c.op \in WideOps /\ c.step = "sent" /\ c.base = items
      BY <1>1, MoveTyped, BasedTyped DEF WideOps
    <2>3. Starts(s, c, {<<"reorder", NoId>>})
      BY <2>1
    <2> HIDE DEF c
    <2> QED
      BY <1>1, <2>2, <2>3, StartPatches, WideStarts
  <1>6. CASE DraftAnswered(s)
    <2> DEFINE c == calls[s]
    <2>1. /\ c.op \in {"create", "edit", "delete", "reorder"}
      BY <1>1, <1>6 DEF DraftAnswered, TypeInv, CallsTell, CallTells
    <2>2. /\ c.step = "ok" =>
               items' = CASE c.op = "reorder" -> c.answer
                          [] c.op = "create" -> items \o c.answer
                          [] c.op = "edit" -> With(items, c.answer[1])
                          [] c.op = "delete" -> Without(items, c.id)
          /\ c.step # "ok" => items' = MoveReverted(c)
          /\ Ends(s, {<<c.op, c.id>>}) /\ lost' = lost
      BY <1>6 DEF DraftAnswered
    <2>3. Made(c)
      <3> HIDE DEF c
      <3>1. CASE c.step = "ok"
        BY <2>1, <2>2, <3>1 DEF Made, WideOps
      <3>2. CASE c.step # "ok"
        BY <1>1, <2>1, <2>2, <3>2 DEF Made, MoveReverted, WideOps
      <3> QED
        BY <3>1, <3>2
    <2> QED
      BY <2>1, <2>2, <2>3, EndPatches, AnsweredPatches
  <1> QED
    BY <1>2, <1>3, <1>4, <1>5, <1>6 DEF DraftCalls

-----------------------------------------------------------------------------
\* The web process answers a call of a page that patches its list.
ServedOne(s) ==
    /\ OneCall(s) /\ items' = items /\ busy' = busy /\ page' = page
    /\ calls[s].step = "sent" /\ calls'[s].step \in {"ok", "refused"}
    /\ calls'[s].op = calls[s].op /\ calls'[s].id = calls[s].id
    /\ calls'[s].value = calls[s].value /\ calls'[s].base = calls[s].base

LEMMA AnsweredOne ==
    ASSUME TypeInv, NEW s \in Slots, NEW list, Answers(s, list), calls[s].step = "sent",
           items' = items, busy' = busy, page' = page
    PROVE  ServedOne(s) /\ calls'[s].step = "ok" /\ calls'[s].answer = list
  <1> DEFINE d == ServedBy(calls[s], list)
  <1>1. calls \in [Slots -> Calls] /\ IsCall(calls[s])
    BY CallTyped DEF TypeInv, TypeOK
  <1>2. calls' = [calls EXCEPT ![s] = d]
    BY DEF Answers, ServedBy
  <1>3. d.op = calls[s].op /\ d.id = calls[s].id /\ d.value = calls[s].value
        /\ d.base = calls[s].base /\ d.step = "ok" /\ d.answer = list
    BY <1>1, ServedShaped
  <1> HIDE DEF d
  <1>4. calls'[s] = d /\ \A x \in Slots \ {s} : calls'[x] = calls[x]
    BY <1>1, <1>2
  <1> QED
    BY <1>3, <1>4 DEF ServedOne, OneCall

LEMMA RefusedOne ==
    ASSUME TypeInv, NEW s \in Slots, calls' = [calls EXCEPT ![s].step = "refused"],
           calls[s].step = "sent", items' = items, busy' = busy, page' = page
    PROVE  ServedOne(s) /\ calls'[s].step = "refused" /\ calls'[s].answer = calls[s].answer
  <1> DEFINE c == calls[s]
             d == [c EXCEPT !.step = "refused"]
  <1>1. calls \in [Slots -> Calls] /\ IsCall(c)
    BY CallTyped DEF TypeInv, TypeOK
  <1>2. calls' = [calls EXCEPT ![s] = d]
    OBVIOUS
  <1>3. d.op = c.op /\ d.id = c.id /\ d.value = c.value /\ d.base = c.base /\ d.step = "refused"
        /\ d.answer = c.answer
    <2> HIDE DEF c
    <2> QED
      BY <1>1, StepShaped
  <1> HIDE DEF d
  <1>4. calls'[s] = d /\ \A x \in Slots \ {s} : calls'[x] = calls[x]
    BY <1>1, <1>2
  <1> QED
    BY <1>3, <1>4 DEF ServedOne, OneCall

LEMMA NarrowServed ==
    ASSUME TypeInv, Narrow, NEW s \in Slots, ServedOne(s), used \subseteq used', Overlay',
           Added(calls'[s]) => ~Has(items, calls'[s].answer[1].id) /\ calls'[s].answer[1].id \in used'
    PROVE  Narrow'
  <1>1. Apart'
    BY ApartKept DEF ServedOne, Narrow
  <1>2. ASSUME NEW x \in Slots \ {s} PROVE CallFits(calls[x])'
    BY <1>2 DEF Narrow, CallsFit, CallFits, ServedOne, OneCall
  <1>3. CallFits(calls[s])'
    BY DEF Narrow, CallsFit, CallFits, ServedOne, Added
  <1>4. CallsFit'
    BY <1>2, <1>3 DEF Narrow, CallsFit, ServedOne, OneCall
  <1>5. Fits(items)'
    BY DEF Narrow, Fits, ServedOne
  <1> QED
    BY <1>1, <1>4, <1>5 DEF Narrow

\* Refused: nothing has changed.
LEMMA NoneServed ==
    ASSUME TypeInv, Narrow, NEW s \in Slots, ServedOne(s), calls'[s].step = "refused",
           calls'[s].answer = calls[s].answer, server' = server, used' = used
    PROVE  Narrow'
  <1>1. Deleted' = Deleted /\ Created' = Created
    BY GoneKept, AddedKept DEF ServedOne, Gone, Added
  <1>2. SameTold(calls[s], calls'[s])
    <2>1. Differs(calls[s]) => calls[s].op = "flag"
      BY DEF ServedOne, Differs
    <2>2. Differs(calls'[s]) <=> Differs(calls[s])
      BY DEF ServedOne, Differs
    <2> QED
      BY <2>1, <2>2 DEF SameTold, ServedOne
  <1>3. Overlay'
    BY <1>1, <1>2, OverlayKept DEF Narrow, ServedOne, OneCall
  <1> QED
    BY <1>3, NarrowServed DEF ServedOne, Added

\* A row is created.
LEMMA CreateServed ==
    ASSUME TypeInv, Narrow, NEW s \in Slots, ServedOne(s), calls[s].op = "create",
           calls'[s].step = "ok", NEW x \in Ids \ used, calls'[s].answer = <<New(x)>>,
           server' = Append(server, New(x)), used' = used \cup {x}
    PROVE  Narrow'
  <1> DEFINE y == New(x)
  <1>1. y.id = x /\ calls'[s].answer[1] = y
    BY NewTyped
  <1>2. server' = Append(server, y)
    OBVIOUS
  <1> HIDE DEF y
  <1>3. ~Has(items, x)
    <2>1. items \in Seq(Item)
      BY DEF TypeInv, TypeOK
    <2> QED
      BY <2>1, RowsOf DEF Narrow, Fits
  <1>4. Deleted' = Deleted /\ Created = {} /\ Created' = {s}
    <2>1. Deleted' = Deleted
      BY GoneKept DEF ServedOne, Gone
    <2>2. \A t \in Slots : Added(calls[t]) => t = s
      BY DEF Narrow, Apart, Added
    <2> QED
      BY <2>1, <2>2 DEF Created, Added, ServedOne, OneCall
  <1>5. SameTold(calls[s], calls'[s])
    BY DEF SameTold, Differs, ServedOne
  <1>6. Overlay'
    BY <1>1, <1>2, <1>4, <1>5, ServerAppend DEF Narrow, ServedOne, OneCall
  <1> QED
    BY <1>1, <1>3, <1>6, NarrowServed

\* A row is deleted.
LEMMA DeleteServed ==
    ASSUME TypeInv, Narrow, NEW s \in Slots, ServedOne(s), calls[s].op = "delete",
           calls'[s].step = "ok", server' = Without(server, calls[s].id), used' = used
    PROVE  Narrow'
  <1> DEFINE z == calls[s].id
  <1>1. items \in Seq(Item) /\ Overlay /\ z \in Ids /\ Has(items, z)
    BY DEF TypeInv, TypeOK, CallsTell, CallTells, Narrow, CallsFit, CallFits, RowOps
  <1>2. Deleted' = Deleted \cup {z}
    BY <1>1 DEF Deleted, ServedOne, OneCall
  <1>3. Created' = Created /\ s \notin Created
    BY AddedKept DEF ServedOne, Added, Created
  <1>4. SameTold(calls[s], calls'[s])
    BY DEF SameTold, Differs, ServedOne
  <1>5. \A x \in Created : calls[x].answer[1] \in Item /\ calls[x].answer[1].id # z
    <2> SUFFICES ASSUME NEW x \in Created
                 PROVE  calls[x].answer[1] \in Item /\ calls[x].answer[1].id # z
      OBVIOUS
    <2>1. x \in Slots /\ CallTells(calls[x]) /\ CallFits(calls[x])
          /\ calls[x].op = "create" /\ calls[x].step = "ok"
      BY DEF Created, TypeInv, CallsTell, Narrow, CallsFit
    <2>2. \E y \in Ids : calls[x].answer = <<New(y)>>
      BY <2>1 DEF CallTells
    <2>3. calls[x].answer[1] \in Item
      BY <2>2, NewTyped
    <2> QED
      BY <1>1, <2>1, <2>3 DEF CallFits
  <1>6. Overlay'
    BY <1>1, <1>2, <1>3, <1>4, <1>5, ServerWithout DEF ServedOne, OneCall
  <1> QED
    BY <1>6, NarrowServed DEF ServedOne, Added

\* The row the database has for one on show.
LEMMA RowServed ==
    ASSUME items \in Seq(Item), server \in Seq(Item), NEW g, Overlays(g), NEW r \in Range(items),
           r.id \notin Deleted, \A x \in Created : calls[x].answer[1] \in Item
    PROVE  g[r] \in Range(server)
  <1> DEFINE K == Kept(items, Stays)
             M == Mapped(K, g)
  <1>1. g \in [Item -> Item] /\ K \in Seq(Item) /\ r \in Range(K)
    <2>1. K \in Seq(Item) /\ Range(K) = {q \in Range(items) : q.id \notin Deleted}
      BY StayingRows
    <2> HIDE DEF K
    <2> QED
      BY <2>1 DEF Overlays
  <1> HIDE DEF K
  <1>2. M \in Seq(Item) /\ g[r] \in Range(M)
    <2>1. M \in Seq(Item)
      BY <1>1, MappedList
    <2>2. Range(M) = {g[q] : q \in Range(K)}
      BY <1>1, MappedRows
    <2> HIDE DEF M
    <2> QED
      BY <1>1, <2>1, <2>2
  <1> HIDE DEF M
  <1>3. CASE Created = {}
    <2>1. server = M
      BY <1>3 DEF Overlays, M, K
    <2> QED
      BY <1>2, <2>1
  <1>4. CASE Created # {}
    <2>1. PICK x \in Created : server = Append(M, calls[x].answer[1])
      BY <1>4 DEF Overlays, M, K
    <2> DEFINE y == calls[x].answer[1]
    <2>2. y \in Item
      OBVIOUS
    <2> HIDE DEF y
    <2>3. Range(Append(M, y)) = Range(M) \cup {y}
      BY <1>2, <2>2, AppendedRows
    <2> QED
      BY <1>2, <2>1, <2>3 DEF y
  <1> QED
    BY <1>3, <1>4

\* A row is changed: an edit is not on show yet, a toggle is.
LEMMA RowChanged ==
    ASSUME TypeInv, TypeInv', Narrow, page \in {"topic", "drafts"}, OnceEach(server), NEW s \in Slots,
           ServedOne(s), calls[s].op \in {"edit", "flag"},
           calls'[s].step = "ok", NEW n \in Item, n.id = calls[s].id, calls'[s].answer = <<n>>,
           calls[s].op = "flag" => n = [At(server, calls[s].id) EXCEPT !.flag = calls[s].value],
           server' = With(server, n), used' = used
    PROVE  Narrow'
  <1>1. items \in Seq(Item) /\ server \in Seq(Item) /\ Overlay /\ Has(items, n.id) /\ Fits(items)
        /\ calls[s].op \in RowOps /\ CallFits(calls[s]) /\ CallTells(calls[s])
    BY DEF TypeInv, TypeOK, CallsTell, Narrow, CallsFit, CallFits, RowOps
  <1>2. \A x \in Slots \ {s} : calls[x].op \in RowOps => calls[x].id # n.id
    BY <1>1 DEF Narrow, Apart
  <1>3. Deleted' = Deleted /\ Created' = Created /\ s \notin Created /\ n.id \notin Deleted
    <2>1. n.id \notin Deleted
      BY <1>2 DEF Deleted, RowOps
    <2> QED
      BY <2>1, GoneKept, AddedKept DEF ServedOne, Gone, Added, Created
  <1>4. \A x \in Created : calls[x].answer[1] \in Item /\ calls[x].answer[1].id # n.id
    <2> SUFFICES ASSUME NEW x \in Created
                 PROVE  calls[x].answer[1] \in Item /\ calls[x].answer[1].id # n.id
      OBVIOUS
    <2>1. x \in Slots /\ CallTells(calls[x]) /\ CallFits(calls[x])
          /\ calls[x].op = "create" /\ calls[x].step = "ok"
      BY DEF Created, TypeInv, CallsTell, Narrow, CallsFit
    <2>2. \E y \in Ids : calls[x].answer = <<New(y)>>
      BY <2>1 DEF CallTells
    <2>3. calls[x].answer[1] \in Item
      BY <2>2, NewTyped
    <2> QED
      BY <1>1, <2>1, <2>3 DEF CallFits
  <1>5. \A x \in Slots \ {s} : Differs(calls'[x]) => calls'[x].id # n.id
    BY <1>2 DEF Differs, RowOps, ServedOne, OneCall
  <1>6. ASSUME NEW r \in Range(items), r.id = n.id PROVE AsServed(r, n)'
    <2>1. CASE calls[s].op = "edit"
      <3>1. Differs(calls'[s]) /\ calls'[s].id = r.id /\ Told(calls'[s], r) = n
        <4>1. calls'[s].answer[1] = n
          OBVIOUS
        <4> QED
          BY <1>6, <2>1, <4>1 DEF Differs, Told, ServedOne
      <3> QED
        BY <1>5, <1>6, <3>1 DEF AsServed
    <2>2. CASE calls[s].op = "flag"
      <3>1. n = r
        <4>1. PICK g : Overlays(g)
          BY <1>1 DEF Overlay
        <4>2. PICK b \in Item : calls[s].base = <<b>>
          BY <1>1, <2>2, PatchOps DEF CallTells
        <4>3. g[r] = [r EXCEPT !.flag = b.flag]
          <5>1. calls[s].base[1] = b
            BY <4>2
          <5>2. Differs(calls[s]) /\ Told(calls[s], r) = [r EXCEPT !.flag = b.flag]
            BY <2>2, <5>1 DEF Differs, Told, ServedOne
          <5> QED
            BY <1>6, <4>1, <5>2 DEF Overlays, AsServed
        <4> DEFINE q == g[r]
        <4>4. q \in Range(server)
          BY <1>1, <1>3, <1>4, <1>6, <4>1, RowServed
        <4>5. q.id = n.id /\ q = [r EXCEPT !.flag = b.flag] /\ r \in Item
          BY <1>1, <1>6, <4>1, <4>3, RowsOf DEF Overlays, AsServed
        <4> HIDE DEF q
        <4>6. At(server, n.id) = q
          BY <1>1, <4>4, <4>5, OneRow
        <4>7. n = [q EXCEPT !.flag = calls[s].value] /\ r.flag = calls[s].value
          BY <1>1, <1>6, <2>2, <4>6 DEF CallFits
        <4> QED
          BY <4>5, <4>7 DEF Item
      <3>2. ~Differs(calls'[s])
        BY <2>2 DEF Differs, ServedOne
      <3> QED
        BY <1>5, <3>1, <3>2 DEF AsServed
    <2> QED
      BY <2>1, <2>2
  <1>7. Overlay'
    <2>1. \A r \in Item : r.id # n.id => Elsewhere(calls[s], r) /\ Elsewhere(calls'[s], r)
      BY DEF Elsewhere, ServedOne
    <2>2. (\A x \in Slots \ {s} : calls'[x] = calls[x]) /\ items' = items
      BY DEF ServedOne, OneCall
    <2>3. \A r \in Range(items) : r.id = n.id => AsServed(r, n)'
      BY <1>6
    <2> QED
      BY <1>1, <1>3, <1>4, <2>1, <2>2, <2>3, ServerPut
  <1> QED
    BY <1>7, NarrowServed DEF ServedOne, Added

-----------------------------------------------------------------------------
\* The database's list is one of rows created, each once.
LEMMA AppendFits ==
    ASSUME server \in Seq(Item), Fits(server), NEW x \in Ids \ used,
           server' = Append(server, New(x)), used' = used \cup {x}
    PROVE  Fits(server)'
  <1> DEFINE y == New(x)
  <1>1. y \in Item /\ y.id = x /\ server' = Append(server, y)
    BY NewTyped
  <1> HIDE DEF y
  <1>2. \A q \in Range(server) : q.id # y.id
    BY <1>1 DEF Fits
  <1>3. OnceEach(server') /\ Range(server') = Range(server) \cup {y}
    BY <1>1, <1>2, OnceAppend, AppendedRows DEF Fits
  <1> QED
    BY <1>1, <1>3 DEF Fits

LEMMA PutFits ==
    ASSUME server \in Seq(Item), Fits(server), NEW n \in Item, Has(server, n.id),
           server' = With(server, n), used' = used
    PROVE  Fits(server)'
  <1>1. n.id \in used
    BY RowsOf DEF Fits
  <1>2. /\ OnceEach(server')
        /\ \A r \in Range(server') : (r.id = n.id => r = n) /\ (r.id # n.id => r \in Range(server))
    BY WithRows DEF Fits
  <1> QED
    BY <1>1, <1>2 DEF Fits

LEMMA WithoutFits ==
    ASSUME server \in Seq(Item), Fits(server), NEW x, server' = Without(server, x), used' = used
    PROVE  Fits(server)'
  <1>1. OnceEach(server')
    BY KeptOnce DEF Without, Fits
  <1>2. Range(server') \subseteq Range(server)
    BY WithoutList
  <1> QED
    BY <1>1, <1>2 DEF Fits

LEMMA OrderFits ==
    ASSUME server \in Seq(Item), Fits(server), NEW o \in Seq(Ids), IsInjective(o),
           Range(o) = Range(IdsOf(server)),
           server' = [k \in 1 .. Len(o) |-> At(server, o[k])], used' = used
    PROVE  Fits(server)'
  <1> DEFINE h == [k \in 1 .. Len(o) |-> At(server, o[k])]
  <1>1. h \in Seq(Item) /\ Len(h) = Len(o) /\ \A k \in 1 .. Len(o) : h[k].id = o[k]
    BY OrderedList
  <1>2. server' = h
    OBVIOUS
  <1> HIDE DEF h
  <1>3. DOMAIN o = 1 .. Len(o)
    OBVIOUS
  <1>4. OnceEach(h)
    BY <1>1, <1>3 DEF OnceEach, IsInjective
  <1>5. \A k \in 1 .. Len(o) : o[k] \in used
    <2> SUFFICES ASSUME NEW k \in 1 .. Len(o) PROVE o[k] \in used
      OBVIOUS
    <2>1. o[k] \in Range(IdsOf(server))
      BY <1>3 DEF Range
    <2>2. PICK j \in DOMAIN IdsOf(server) : o[k] = IdsOf(server)[j]
      BY <2>1 DEF Range
    <2>3. j \in 1 .. Len(server) /\ o[k] = server[j].id
      BY <2>2 DEF IdsOf
    <2>4. server[j] \in Range(server)
      BY <2>3, RowIs
    <2> QED
      BY <2>3, <2>4 DEF Fits
  <1>6. \A r \in Range(h) : r.id \in used
    BY <1>1, <1>5, RowsOf
  <1> QED
    BY <1>2, <1>4, <1>6 DEF Fits

-----------------------------------------------------------------------------
\* A call about the whole list is served: the list it answers with, or none.
LEMMA WideServed ==
    ASSUME TypeInv, PatchInv, Patches, Patches', NEW s \in Slots, ServedOne(s),
           calls[s].op \in WideOps, Fits(server)',
           \/ calls'[s].step = "ok" /\ server' = calls'[s].answer
           \/ calls'[s].step = "refused" /\ server' = server
    PROVE  PatchInv'
  <1>1. PICK t \in Slots : WideAt(t)
    BY DEF PatchInv, Narrow, CallsFit
  <1>2. t = s
    BY <1>1 DEF WideAt, WideOps
  <1>3. WideAt(s)'
    BY <1>1, <1>2 DEF WideAt, ServedOne, OneCall
  <1> QED
    BY <1>3 DEF PatchInv

LEMMA NarrowOnly ==
    ASSUME PatchInv, Patches, NEW s \in Slots, calls[s].op \in {"create"} \cup RowOps
    PROVE  Narrow
  <1>1. \A t \in Slots : ~WideAt(t)
    BY DEF WideAt, WideOps, RowOps
  <1> QED
    BY <1>1 DEF PatchInv

LEMMA ServePatches ==
    ASSUME TypeInv, TypeInv', PatchInv, Patches', NEW s \in Slots, Serve(s) \/ LoseAnswer(s)
    PROVE  PatchInv'
  <1>1. Serve(s) /\ Patches
    BY DEF Serve, LoseAnswer, Patches
  <1>2. /\ items' = items /\ busy' = busy /\ page' = page /\ calls[s].step = "sent"
        /\ server \in Seq(Item) /\ Fits(server) /\ page \in {"topic", "drafts"}
        /\ CallTells(calls[s]) /\ calls[s] \in Calls
    BY <1>1 DEF Serve, TypeInv, TypeOK, CallsTell, PatchInv, Patches
  <1>3. calls[s].op \in {"idle", "create"} \cup RowOps \cup WideOps
    BY <1>2, PatchOps
  <1>4. CASE RefusesList(s)
    <2>1. calls' = [calls EXCEPT ![s].step = "refused"] /\ server' = server /\ used' = used
          /\ calls[s].op # "idle"
      BY <1>4 DEF RefusesList
    <2>2. ServedOne(s) /\ calls'[s].step = "refused" /\ calls'[s].answer = calls[s].answer
      BY <1>2, <2>1, RefusedOne
    <2>3. Fits(server)'
      BY <1>2, <2>1 DEF Fits
    <2>4. CASE calls[s].op \in WideOps
      BY <1>1, <2>1, <2>2, <2>3, <2>4, WideServed
    <2>5. CASE calls[s].op \notin WideOps
      <3>1. Narrow
        BY <1>1, <1>3, <2>1, <2>5, NarrowOnly
      <3>2. Narrow'
        BY <2>1, <2>2, <3>1, NoneServed
      <3> QED
        BY <2>3, <3>2 DEF PatchInv
    <2> QED
      BY <2>4, <2>5
  <1>5. CASE ServesList(s)
    <2> DEFINE c == calls[s]
    <2>1. ASSUME c.op \in {"create", "bulk"}, NEW x \in Ids \ used,
                 server' = Append(server, New(x)), used' = used \cup {x},
                 Answers(s, IF c.op = "bulk" THEN server' ELSE <<New(x)>>)
          PROVE  PatchInv'
      <3>1. Fits(server)'
        BY <1>2, <2>1, AppendFits
      <3> DEFINE list == IF c.op = "bulk" THEN server' ELSE <<New(x)>>
      <3>2. Answers(s, list)
        BY <2>1
      <3> HIDE DEF list
      <3>3. ServedOne(s) /\ calls'[s].step = "ok" /\ calls'[s].answer = list
        BY <1>2, <3>2, AnsweredOne
      <3>4. CASE c.op = "bulk"
        <4>1. c.op \in WideOps /\ server' = calls'[s].answer
          BY <3>3, <3>4 DEF list, WideOps
        <4> QED
          BY <1>1, <3>1, <3>3, <4>1, WideServed
      <3>5. CASE c.op = "create"
        <4>1. calls'[s].answer = <<New(x)>>
          BY <3>3, <3>5 DEF list
        <4>2. Narrow'
          BY <1>1, <2>1, <3>3, <3>5, <4>1, NarrowOnly, CreateServed
        <4> QED
          BY <3>1, <4>2 DEF PatchInv
      <3> QED
        BY <2>1, <3>4, <3>5
    <2>2. ASSUME c.op \in {"edit", "flag"}, Has(server, c.id), used' = used,
                 NEW old, old = At(server, c.id),
                 NEW new, new = (IF c.op = "edit" THEN [old EXCEPT !.text = c.value]
                                                  ELSE [old EXCEPT !.flag = c.value]),
                 server' = With(server, new), Answers(s, <<new>>)
          PROVE  PatchInv'
      <3>1. old \in Item /\ old.id = c.id
        BY <1>2, <2>2, AtList
      <3>2. c.value \in BOOLEAN
        BY <1>2, CallTyped
      <3>3. new \in Item /\ new.id = c.id
        BY <2>2, <3>1, <3>2, RowSet
      <3>4. Fits(server)'
        BY <1>2, <2>2, <3>3, PutFits
      <3>5. ServedOne(s) /\ calls'[s].step = "ok" /\ calls'[s].answer = <<new>>
        BY <1>2, <2>2, AnsweredOne
      <3>6. Narrow
        BY <1>1, <2>2, NarrowOnly DEF RowOps
      <3>7. Narrow'
        <4>1. c.op = "flag" => new = [At(server, c.id) EXCEPT !.flag = c.value]
          BY <2>2
        <4>2. OnceEach(server)
          BY <1>2 DEF Fits
        <4> QED
          BY <1>2, <2>2, <3>3, <3>5, <3>6, <4>1, <4>2, RowChanged
      <3> QED
        BY <3>4, <3>7 DEF PatchInv
    <2>3. CASE /\ c.op = "delete" /\ server' = Without(server, c.id) /\ Answers(s, <<>>)
               /\ used' = used
      <3>1. Fits(server)'
        BY <1>2, <2>3, WithoutFits
      <3>2. ServedOne(s) /\ calls'[s].step = "ok"
        BY <1>2, <2>3, AnsweredOne
      <3>3. Narrow
        BY <1>1, <2>3, NarrowOnly DEF RowOps
      <3>4. Narrow'
        BY <2>3, <3>2, <3>3, DeleteServed
      <3> QED
        BY <3>1, <3>4 DEF PatchInv
    <2>4. CASE /\ c.op = "reorder" /\ IsInjective(c.order) /\ Range(c.order) = Range(IdsOf(server))
               /\ server' = [k \in 1 .. Len(c.order) |-> At(server, c.order[k])]
               /\ Answers(s, server') /\ used' = used
      <3>1. c.order \in Seq(Ids)
        BY <1>2, CallTyped
      <3>2. Fits(server)'
        BY <1>2, <2>4, <3>1, OrderFits
      <3>3. ServedOne(s) /\ calls'[s].step = "ok" /\ calls'[s].answer = server'
        BY <1>2, <2>4, AnsweredOne
      <3> QED
        BY <1>1, <2>4, <3>2, <3>3, WideServed DEF WideOps
    <2> QED
      BY <1>3, <1>5, <2>1, <2>2, <2>3, <2>4 DEF ServesList, RowOps, WideOps
  <1> QED
    BY <1>1, <1>4, <1>5 DEF Serve

-----------------------------------------------------------------------------
\* The other pages never become one that patches.
LEMMA ReloadsElsewhere ==
    ASSUME TypeInv, NEW s \in Slots, ReloadSteps(s)
    PROVE  ~Patches'
  <1>1. page \in {"library", "users", "detail"}
    BY DEF ReloadSteps, SetFilter, Search, ReorderTopic, RemoveTopic, CreateRow, RemoveTag, Act,
           MutationDone, TagRemoved, RowCreated, Loaded, ReloadingFails, reloading, onLibrary,
           onUsers, onDetail
  <1>2. page' \in {page, "left"}
    BY DEF ReloadSteps, SetFilter, Search, ReorderTopic, RemoveTopic, CreateRow, RemoveTag, Act,
           MutationDone, TagRemoved, RowCreated, Loaded, ReloadingFails, Starts, Ends, Reloads
  <1> QED
    BY <1>1, <1>2 DEF Patches

LEMMA InitPatches == Init => PatchInv
  <1> SUFFICES ASSUME Init, page \in {"topic", "drafts"} PROVE PatchInv
    BY DEF PatchInv, Patches
  <1>1. PICK list \in [1 .. IF page = "detail" THEN 1 ELSE 2 ->
                         [id : Ids, flag : BOOLEAN, text : {FALSE}]] :
          /\ IsInjective(IdsOf(list)) /\ server = list
          /\ items = (IF page = "library" THEN <<>> ELSE list) /\ used = Range(IdsOf(list))
    BY DEF Init
  <1>2. items = server /\ server = list /\ server \in Seq(Item)
    BY <1>1, InitTypes DEF TypeInv, TypeOK
  <1>3. \A x \in Slots : calls[x].op = "idle"
    BY IdleMade DEF Init
  <1>4. /\ DOMAIN IdsOf(list) = 1 .. Len(list)
        /\ \A k \in 1 .. Len(list) : IdsOf(list)[k] = list[k].id
    BY DEF IdsOf
  <1>5. Fits(server)
    <2>1. OnceEach(server)
      BY <1>1, <1>2, <1>4 DEF OnceEach, IsInjective
    <2>2. \A k \in 1 .. Len(list) : list[k].id \in Range(IdsOf(list))
      BY <1>4 DEF Range
    <2>3. \A r \in Range(server) : \E k \in 1 .. Len(server) : server[k] = r
      BY <1>2, RowsOf
    <2>4. \A r \in Range(server) : r.id \in used
      BY <1>1, <1>2, <2>2, <2>3
    <2> QED
      BY <2>1, <2>4 DEF Fits
  <1>6. Overlay
    BY <1>2, <1>3, OverlayStarts
  <1>7. CallsFit /\ Apart
    BY <1>3 DEF CallsFit, CallFits, Apart, RowOps, WideOps
  <1> QED
    BY <1>2, <1>5, <1>6, <1>7 DEF PatchInv, Narrow

\* A step that leaves the list, the rows and the calls as they are.
LEMMA PatchStutters ==
    ASSUME PatchInv, page' = page, server' = server, items' = items, busy' = busy,
           calls' = calls, used' = used, lost' = lost, clash' = clash
    PROVE  PatchInv'
  <1>1. Overlay' <=> Overlay
    BY DEF Overlay, Overlays, AsServed, Deleted, Stays, Created
  <1> QED
    BY <1>1 DEF PatchInv, Patches, Narrow, CallsFit, CallFits, Apart, Fits, WideAt

LEMMA StepPatches == TypeInv /\ TypeInv' /\ PatchInv /\ [Next]_vars => PatchInv'
  <1> SUFFICES ASSUME TypeInv, TypeInv', PatchInv, [Next]_vars, Patches' PROVE PatchInv'
    BY DEF PatchInv
  <1>1. CASE UNCHANGED vars
    BY <1>1, PatchStutters DEF vars, core
  <1>2. CASE DraftSteps
    <2>1. UNCHANGED <<page, server, items, busy, calls, used, lost, clash>>
      BY <1>2 DEF DraftSteps, StartCreate, CloseCreate, BeginEdit, CloseEdit, Quiet
    <2> QED
      BY <2>1, PatchStutters
  <1>3. CASE \E s \in Slots : TopicSteps(s) \/ DraftCalls(s) \/ ReloadSteps(s) \/ Serve(s)
                              \/ LoseAnswer(s)
    BY <1>3, TopicPatches, DraftPatches, ReloadsElsewhere, ServePatches
  <1> QED
    BY <1>1, <1>2, <1>3 DEF Next

\* At rest the page shows what the database holds.
LEMMA PatchesSettle == TypeInv /\ PatchInv => PatchedSettles
  <1> SUFFICES ASSUME TypeInv, PatchInv, page \in {"topic", "drafts"}, Settled, ~clash
               PROVE  items = server
    BY DEF PatchedSettles
  <1>1. \A s \in Slots : calls[s].op = "idle"
    BY DEF Settled, InFlight
  <1>2. Narrow /\ items \in Seq(Item)
    BY <1>1 DEF PatchInv, Patches, Settled, WideAt, WideOps, TypeInv, TypeOK
  <1> QED
    BY <1>1, <1>2, OverlayEnds DEF Narrow

\* A page that patches its list with the answers it hears, in whatever order they
\* come, shows the database's list when it is at rest, as long as no answer was
\* lost and no two calls in flight at once were about one row or the whole list.
THEOREM PatchedIsCurrent == Spec => []PatchedSettles
  <1>1. Init => PatchInv
    BY InitPatches
  <1>2. Spec => []PatchInv
    BY <1>1, StepPatches, TypesKept, PTL DEF Spec
  <1> QED
    BY <1>2, TypesKept, PatchesSettle, PTL
=============================================================================
