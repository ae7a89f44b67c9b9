--------------------------- MODULE Dashboard_proofs ---------------------------
(***************************************************************************)
(* Theorems about Dashboard, for any handlers, runs, scenarios and clicks: *)
(* the panels of the history follow the selection, and a save goes to the  *)
(* scenario shown.                                                         *)
(*                                                                         *)
(* The invariants say which answers may still arrive for what is no longer *)
(* selected.  Nothing in them depends on what SelectSeq, of which the      *)
(* provers know nothing, leaves of the runs compared.                      *)
(***************************************************************************)
EXTENDS Dashboard, TLAPS

\* A handler has the fields of Idle, whatever they hold, and one of the history
\* panel does not await loadDashboard.
Fields == {"kind", "at", "id", "target", "of", "ids", "todo", "all", "run", "touched"}

IsHandler(h) ==
    /\ h = [f \in Fields |-> h[f]]
    /\ h.kind \in {"detail", "compare"} => h.at \notin {"loading", "listed"}

Shaped(tasks) ==
    /\ tasks = [t \in Slots |-> tasks[t]]
    /\ \A t \in Slots : IsHandler(tasks[t])

\* An answer with a detail is for the run selected, or the panel went on meanwhile.
DetailsFollow(tasks, r) ==
    \A t \in Slots : tasks[t].kind = "detail" => tasks[t].touched \/ tasks[t].id = r

\* A comparison under way is of two runs or more and waits for one of them.
ComparesWait(tasks) ==
    \A t \in Slots : tasks[t].kind = "compare" /\ tasks[t].at = "sent" =>
        ~(Len(tasks[t].ids) < 2) /\ tasks[t].todo # {}

Completes(h) == h.kind = "save" /\ h.at \in {"loading", "listed"}

\* A save that is being completed is of the scenario edited, or the manager went
\* on meanwhile.
SavesFollow(tasks, s) ==
    \A t \in Slots : Completes(tasks[t]) => tasks[t].touched \/ tasks[t].id = s

\* What the title lacks, a save that is being completed will set.
ManagerShows ==
    \/ crossed
    \/ /\ editing # None => form.of = editing
       /\ title # editing => \E t \in Slots : Completes(task[t])

HistoryInv ==
    /\ Shaped(task)
    /\ DetailsFollow(task, selected)
    /\ ComparesWait(task)
    /\ HistoryPanelsFollowTheSelection

ManagerInv ==
    /\ Shaped(task)
    /\ form = [of |-> form.of, id |-> form.id]
    /\ SavesFollow(task, editing)
    /\ ManagerShows

-----------------------------------------------------------------------------
(***************************************************************************)
(* What the steps make of the handlers.                                    *)
(***************************************************************************)

\* Put replaces one handler.
LEMMA PutOne ==
    ASSUME NEW tasks, Shaped(tasks), NEW t \in Slots, NEW h, IsHandler(h)
    PROVE  /\ Shaped(Put(tasks, t, h))
           /\ Put(tasks, t, h)[t] = h
           /\ \A s \in Slots : s # t => Put(tasks, t, h)[s] = tasks[s]
  BY DEF Put, Shaped

\* The ways in which the actions replace one handler are one.
LEMMA ExceptIsPut ==
    ASSUME Shaped(task), NEW t \in Slots, NEW h
    PROVE  [task EXCEPT ![t] = h] = Put(task, t, h)
  BY DEF Put, Shaped

\* A handler that goes on to another step is one handler replaced.
LEMMA ExceptAtIsPut ==
    ASSUME Shaped(task), NEW t \in Slots, NEW a
    PROVE  [task EXCEPT ![t].at = a] = Put(task, t, [task[t] EXCEPT !.at = a])
  BY DEF Put, Shaped

\* Touched marks the handlers of one kind and changes nothing else.
LEMMA TouchedOnes ==
    ASSUME Shaped(task), NEW kind
    PROVE  /\ Shaped(Touched(kind))
           /\ \A s \in Slots :
                 /\ task[s].kind # kind => Touched(kind)[s] = task[s]
                 /\ task[s].kind = kind => /\ Touched(kind)[s] = [task[s] EXCEPT !.touched = TRUE]
                                           /\ Touched(kind)[s].touched
                                           /\ Touched(kind)[s].kind = task[s].kind
                                           /\ Touched(kind)[s].at = task[s].at
                                           /\ Touched(kind)[s].id = task[s].id
                                           /\ Touched(kind)[s].ids = task[s].ids
                                           /\ Touched(kind)[s].todo = task[s].todo
  <1> DEFINE T == Touched(kind)
  <1>1. T = [s \in Slots |-> T[s]]
    BY DEF Touched
  <1>2. ASSUME NEW s \in Slots
        PROVE  /\ IsHandler(T[s])
               /\ task[s].kind # kind => T[s] = task[s]
               /\ task[s].kind = kind => /\ T[s] = [task[s] EXCEPT !.touched = TRUE]
                                         /\ T[s].touched = TRUE
                                         /\ T[s].kind = task[s].kind /\ T[s].at = task[s].at
                                         /\ T[s].id = task[s].id /\ T[s].ids = task[s].ids
                                         /\ T[s].todo = task[s].todo
    <2>1. T[s] = IF task[s].kind = kind THEN [task[s] EXCEPT !.touched = TRUE] ELSE task[s]
      BY DEF Touched
    <2>2. IsHandler(task[s])
      BY DEF Shaped
    <2> QED BY <2>1, <2>2 DEF IsHandler, Fields
  <1> QED BY <1>1, <1>2 DEF Shaped

\* Marking the saves marks exactly these.
LEMMA SavesTouched ==
    ASSUME Shaped(task)
    PROVE  LET T == Touched("save")
           IN  /\ Shaped(T)
               /\ \A s \in Slots : /\ T[s].kind = task[s].kind
                                   /\ T[s].kind = "save" => T[s].touched
                                   /\ T[s].kind # "save" => T[s] = task[s]
  <1> DEFINE T == Touched("save")
  <1>1. /\ Shaped(T)
        /\ \A s \in Slots : /\ task[s].kind # "save" => T[s] = task[s]
                            /\ task[s].kind = "save" => T[s].touched /\ T[s].kind = task[s].kind
    BY Zenon, TouchedOnes
  <1> QED BY <1>1

\* Marking the requests for a detail marks exactly these.
LEMMA DetailsTouched ==
    ASSUME Shaped(task)
    PROVE  LET T == Touched("detail")
           IN  /\ Shaped(T)
               /\ \A s \in Slots : /\ T[s].kind = task[s].kind
                                   /\ T[s].kind = "detail" => T[s].touched
                                   /\ T[s].kind # "detail" => T[s] = task[s]
  <1> DEFINE T == Touched("detail")
  <1>1. /\ Shaped(T)
        /\ \A s \in Slots : /\ task[s].kind # "detail" => T[s] = task[s]
                            /\ task[s].kind = "detail" => T[s].touched /\ T[s].kind = task[s].kind
    BY Zenon, TouchedOnes
  <1> QED BY <1>1

\* A handler remains one when fields of it are replaced.
LEMMA FieldsOfIdle ==
    /\ IsHandler(Idle) /\ Idle.kind = "none" /\ Idle.at = "idle" /\ ~Idle.touched
  BY DEF IsHandler, Fields, Idle

\* What else is in a handler stays when it goes on to another step ...
LEMMA AtReplaced ==
    ASSUME NEW h, IsHandler(h), NEW a,
           h.kind \in {"detail", "compare"} => a \notin {"loading", "listed"}
    PROVE  LET g == [h EXCEPT !.at = a]
           IN  /\ IsHandler(g) /\ g.at = a /\ g.kind = h.kind /\ g.id = h.id /\ g.ids = h.ids
               /\ g.todo = h.todo /\ g.touched = h.touched /\ g.run = h.run
  BY DEF IsHandler, Fields

\* ... and when a comparison has fewer runs to wait for.
LEMMA TodoReplaced ==
    ASSUME NEW h, IsHandler(h), NEW todo, NEW a,
           h.kind \in {"detail", "compare"} => a \notin {"loading", "listed"}
    PROVE  LET g == [h EXCEPT !.todo = todo, !.at = a]
           IN  /\ IsHandler(g) /\ g.at = a /\ g.kind = h.kind /\ g.id = h.id /\ g.ids = h.ids
               /\ g.todo = todo /\ g.touched = h.touched
  BY DEF IsHandler, Fields

\* From the view of some handlers nothing happens.
Same(kinds, new) ==
    \A t \in Slots : task[t].kind \in kinds \/ new[t].kind \in kinds => new[t] = task[t]

\* No save begins or ends to be completed.
SavesKept(new) ==
    \A t \in Slots : /\ Completes(new[t]) <=> Completes(task[t])
                     /\ Completes(new[t]) => /\ new[t].id = task[t].id
                                             /\ new[t].touched = task[t].touched

\* What leaves the handlers of the history and its panels alone keeps their invariant.
LEMMA HistoryUndisturbed ==
    ASSUME HistoryInv, Shaped(task'), Same({"detail", "compare"}, task'),
           rows' = rows, selected' = selected, detail' = detail, compare' = compare,
           comparison' = comparison
    PROVE  HistoryInv'
  BY DEF HistoryInv, Same, DetailsFollow, ComparesWait, HistoryPanelsFollowTheSelection, Awaits

\* What leaves the completion of saves and the manager alone keeps its invariant.
LEMMA ManagerUndisturbed ==
    ASSUME ManagerInv, Shaped(task'), SavesKept(task'), editVars' = editVars
    PROVE  ManagerInv'
  BY DEF ManagerInv, SavesKept, SavesFollow, Completes, ManagerShows, editVars

-----------------------------------------------------------------------------
(***************************************************************************)
(* Handlers that begin, go on and end.                                     *)
(***************************************************************************)

Quiet(new) == Shaped(new) /\ Same({"detail", "compare"}, new)

\* A handler of the manager begins.
LEMMA BeginsQuietly ==
    ASSUME Shaped(task), NEW h, IsHandler(h), h.kind \notin {"detail", "compare"},
           ~Completes(h), \E t \in Slots : Await(t, h, task)
    PROVE  Quiet(task') /\ SavesKept(task')
  <1>1. PICK t \in Slots : task[t] = Idle /\ task' = Put(task, t, h)
    BY Zenon DEF Await
  <1>2. /\ Shaped(task') /\ task'[t] = h
        /\ \A s \in Slots : s # t => task'[s] = task[s]
    BY <1>1, PutOne
  <1>3. task[t].kind = "none"
    BY <1>1, FieldsOfIdle
  <1> QED BY <1>2, <1>3 DEF Quiet, Same, SavesKept, Completes

\* A handler of the manager goes on or ends, and completes a save before if after.
LEMMA GoesOnQuietly ==
    ASSUME Shaped(task), NEW t \in Slots, NEW h, IsHandler(h),
           task[t].kind \notin {"detail", "compare"}, h.kind \notin {"detail", "compare"},
           Completes(h) <=> Completes(task[t]),
           Completes(h) => h.id = task[t].id /\ h.touched = task[t].touched,
           task' = Put(task, t, h)
    PROVE  Quiet(task') /\ SavesKept(task')
  <1>1. /\ Shaped(task') /\ task'[t] = h
        /\ \A s \in Slots : s # t => task'[s] = task[s]
    BY PutOne
  <1> QED BY <1>1 DEF Quiet, Same, SavesKept

\* The comparison is drawn: a request may begin in a handler that is idle.
LEMMA ComparisonDrawn ==
    ASSUME NEW ids, NEW tasks, Shaped(tasks), RenderComparison(ids, tasks)
    PROVE  /\ Shaped(task')
           /\ \A t \in Slots :
                 \/ task'[t] = tasks[t]
                 \/ /\ tasks[t] = Idle /\ ~(Len(ids) < 2)
                    /\ task'[t].kind = "compare" /\ task'[t].at = "sent"
                    /\ task'[t].ids = ids /\ task'[t].todo # {}
           /\ Len(ids) < 2 => comparison'.shows = "notice"
           /\ comparison'.shows = "result" => comparison'.ids = ids
           /\ comparison'.shows = "loading" =>
                 \E t \in Slots : task'[t].kind = "compare" /\ task'[t].at = "sent"
                                  /\ task'[t].ids = ids
  <1>1. CASE Len(ids) < 2
    <2>1. comparison' = [shows |-> "notice", ids |-> <<>>] /\ task' = tasks
      BY <1>1 DEF RenderComparison
    <2> QED BY <2>1, <1>1
  <1>2. CASE ~(Len(ids) < 2) /\ ToSet(ids) \subseteq cache
    <2>1. comparison' = [shows |-> "result", ids |-> ids] /\ task' = tasks
      BY <1>2 DEF RenderComparison
    <2> QED BY <2>1, <1>2
  <1>3. CASE ~(Len(ids) < 2) /\ ~(ToSet(ids) \subseteq cache)
    <2> DEFINE todo == ToSet(ids) \ cache
               h == [Idle EXCEPT !.kind = "compare", !.at = "sent", !.ids = ids, !.todo = todo]
    <2>1. /\ comparison' = [shows |-> "loading", ids |-> ids]
          /\ \E t \in Slots : Await(t, h, tasks)
      BY <1>3, Zenon DEF RenderComparison
    <2>2. PICK t \in Slots : tasks[t] = Idle /\ task' = Put(tasks, t, h)
      BY <2>1, Zenon DEF Await
    <2>3. todo # {}
      BY <1>3
    <2> HIDE DEF todo
    <2>4. /\ IsHandler(h) /\ h.kind = "compare" /\ h.at = "sent" /\ h.ids = ids /\ h.todo = todo
      BY DEF IsHandler, Fields, Idle
    <2> HIDE DEF h
    <2>5. /\ Shaped(task') /\ task'[t] = h
          /\ \A s \in Slots : s # t => task'[s] = tasks[s]
      BY <2>2, <2>4, PutOne
    <2> QED BY <1>3, <2>1, <2>2, <2>3, <2>4, <2>5
  <1> QED BY <1>1, <1>2, <1>3

\* With the comparison drawn for the runs compared, the panels follow the selection
\* if the detail row does.
LEMMA PanelsDrawn ==
    ASSUME NEW tasks, Shaped(tasks), DetailsFollow(tasks, selected'), ComparesWait(tasks),
           NEW ids, compare' = ids, RenderComparison(ids, tasks),
           detail' # None => detail'.id \in rows' /\ (detail'.late \/ detail'.id = selected')
    PROVE  HistoryInv'
  <1>1. Shaped(task')
    BY ComparisonDrawn
  <1>2. DetailsFollow(task', selected')
    BY ComparisonDrawn DEF DetailsFollow
  <1>3. ComparesWait(task')
    BY ComparisonDrawn DEF ComparesWait
  <1>4. HistoryPanelsFollowTheSelection'
    BY ComparisonDrawn DEF HistoryPanelsFollowTheSelection, Awaits
  <1> QED BY <1>1, <1>2, <1>3, <1>4 DEF HistoryInv

\* To the saves the drawing of a comparison is nothing.
LEMMA ComparisonKeepsSaves ==
    ASSUME NEW ids, NEW tasks, Shaped(tasks), RenderComparison(ids, tasks),
           \A t \in Slots : /\ Completes(tasks[t]) <=> Completes(task[t])
                            /\ Completes(tasks[t]) => /\ tasks[t].id = task[t].id
                                                      /\ tasks[t].touched = task[t].touched
    PROVE  Shaped(task') /\ SavesKept(task')
  BY ComparisonDrawn, FieldsOfIdle DEF SavesKept, Completes

-----------------------------------------------------------------------------
(***************************************************************************)
(* Steps that concern neither the panels nor the form.                     *)
(***************************************************************************)

Minor ==
    \/ \E s \in ScenarioIds : ToggleScenario(s) \/ LoadScenario(s)
    \/ \E run \in BOOLEAN : SaveScenario(run)
    \/ DeleteScenarios \/ OtherClick
    \/ \E t \in Slots : RunArrives(t) \/ Ends(t) \/ Serve(t)

\* Clicks that begin a handler and change neither panel.
LEMMA MinorClicks ==
    ASSUME Shaped(task),
           \/ \E s \in ScenarioIds : ToggleScenario(s) \/ LoadScenario(s)
           \/ \E run \in BOOLEAN : SaveScenario(run)
           \/ DeleteScenarios \/ OtherClick
    PROVE  Quiet(task') /\ SavesKept(task') /\ historyVars' = historyVars /\ editVars' = editVars
  <1> USE Shaped(task)
  <1>0. ASSUME UNCHANGED <<historyVars, editVars, task>>
        PROVE  Quiet(task') /\ SavesKept(task') /\ historyVars' = historyVars /\ editVars' = editVars
    BY <1>0 DEF Quiet, Same, SavesKept
  <1>1. ASSUME NEW s \in ScenarioIds, ToggleScenario(s)
        PROVE  UNCHANGED <<historyVars, editVars, task>>
    BY <1>1 DEF ToggleScenario
  <1>2. ASSUME SelectTest PROVE UNCHANGED <<historyVars, editVars, task>>
    BY <1>2 DEF SelectTest, managerVars
  <1>3. ASSUME NEW h, IsHandler(h), h.kind \notin {"detail", "compare"}, ~Completes(h),
               \E t \in Slots : Await(t, h, task), UNCHANGED <<historyVars, managerVars>>
        PROVE  Quiet(task') /\ SavesKept(task') /\ historyVars' = historyVars /\ editVars' = editVars
    BY <1>3, BeginsQuietly DEF managerVars
  <1>4. ASSUME NEW s \in ScenarioIds, LoadScenario(s)
        PROVE  Quiet(task') /\ SavesKept(task') /\ historyVars' = historyVars /\ editVars' = editVars
    <2> DEFINE h == [Idle EXCEPT !.kind = "load", !.at = "sent", !.id = s]
    <2>1. IsHandler(h) /\ h.kind \notin {"detail", "compare"} /\ ~Completes(h)
      BY DEF IsHandler, Fields, Idle, Completes
    <2>2. UNCHANGED <<historyVars, managerVars>> /\ \E t \in Slots : Await(t, h, task)
      BY <1>4, Zenon DEF LoadScenario
    <2> HIDE DEF h
    <2> QED BY <2>1, <2>2, <1>3
  <1>5. ASSUME NEW run \in BOOLEAN, SaveScenario(run)
        PROVE  Quiet(task') /\ SavesKept(task') /\ historyVars' = historyVars /\ editVars' = editVars
    <2> DEFINE h == [Idle EXCEPT !.kind = "save", !.at = "sent", !.id = form.id,
                        !.target = editing, !.of = form.of, !.run = run]
    <2>1. IsHandler(h) /\ h.kind \notin {"detail", "compare"} /\ ~Completes(h)
      BY DEF IsHandler, Fields, Idle, Completes
    <2>2. UNCHANGED <<historyVars, managerVars>> /\ \E t \in Slots : Await(t, h, task)
      BY <1>5, Zenon DEF SaveScenario
    <2> HIDE DEF h
    <2> QED BY <2>1, <2>2, <1>3
  <1>6. ASSUME DeleteScenarios
        PROVE  Quiet(task') /\ SavesKept(task') /\ historyVars' = historyVars /\ editVars' = editVars
    <2> DEFINE ids == OperationIds(ticked, editing)
               h == [Idle EXCEPT !.kind = "delete", !.at = "sent", !.todo = ids, !.all = ids]
    <2>1. UNCHANGED <<historyVars, managerVars>> /\ \E t \in Slots : Await(t, h, task)
      BY <1>6, Zenon DEF DeleteScenarios
    <2> HIDE DEF ids
    <2>2. IsHandler(h) /\ h.kind \notin {"detail", "compare"} /\ ~Completes(h)
      BY DEF IsHandler, Fields, Idle, Completes
    <2> HIDE DEF h
    <2> QED BY <2>1, <2>2, <1>3
  <1>7. ASSUME NEW kind \in {"run", "preview", "refresh"}, NEW at \in {"sent", "loading"},
               \E t \in Slots : Await(t, [Idle EXCEPT !.kind = kind, !.at = at], task),
               UNCHANGED <<historyVars, managerVars>>
        PROVE  Quiet(task') /\ SavesKept(task') /\ historyVars' = historyVars /\ editVars' = editVars
    <2> DEFINE h == [Idle EXCEPT !.kind = kind, !.at = at]
    <2>1. IsHandler(h) /\ h.kind \notin {"detail", "compare"} /\ ~Completes(h)
      BY DEF IsHandler, Fields, Idle, Completes
    <2>2. \E t \in Slots : Await(t, h, task)
      BY <1>7
    <2> HIDE DEF h
    <2> QED BY <2>1, <2>2, <1>7, <1>3
  <1>8. ASSUME StartRun \/ RunSelected \/ RefreshArtifacts
        PROVE  Quiet(task') /\ SavesKept(task') /\ historyVars' = historyVars /\ editVars' = editVars
    <2>1. CASE StartRun
      BY <2>1, <1>7, Zenon DEF StartRun
    <2>2. CASE RunSelected
      BY <2>2, <1>7, Zenon DEF RunSelected
    <2>3. CASE RefreshArtifacts
      BY <2>3, <1>7, Zenon DEF RefreshArtifacts
    <2> QED BY <1>8, <2>1, <2>2, <2>3
  <1> QED BY <1>0, <1>1, <1>2, <1>4, <1>5, <1>6, <1>8 DEF OtherClick

\* Answers that change neither panel, and requests the server serves.
LEMMA MinorAnswers ==
    ASSUME Shaped(task), NEW t \in Slots, RunArrives(t) \/ Ends(t) \/ Serve(t)
    PROVE  Quiet(task') /\ SavesKept(task') /\ historyVars' = historyVars /\ editVars' = editVars
  <1> DEFINE To(h) == /\ IsHandler(h) /\ h.kind \notin {"detail", "compare"}
                      /\ task[t].kind \notin {"detail", "compare"}
                      /\ Completes(h) <=> Completes(task[t])
                      /\ Completes(h) => h.id = task[t].id /\ h.touched = task[t].touched
                      /\ task' = Put(task, t, h)
  <1>1. UNCHANGED <<historyVars, managerVars>>
    BY DEF RunArrives, Ends, Serve, ServeSave, ServeLoad, ServeDelete, ServeList
  <1>2. IsHandler(task[t]) /\ IsHandler(Idle) /\ ~Completes(Idle)
    BY FieldsOfIdle DEF Shaped, Completes
  <1> task = [s \in Slots |-> task[s]]
    BY DEF Shaped
  <1>3. CASE Ends(t)
    <2>1. /\ task' = Put(task, t, Idle) /\ task[t].kind \in {"run", "preview", "save", "load", "delete"}
          /\ task[t].at \in {"sent", "served", "refused"}
      BY <1>3, ExceptIsPut DEF Ends
    <2>2. To(Idle)
      BY <2>1, <1>2, FieldsOfIdle DEF Completes
    <2> QED BY <2>2, <1>1, GoesOnQuietly DEF managerVars
  <1>4. ASSUME NEW a, task' = [task EXCEPT ![t].at = a],
               task[t].kind \notin {"detail", "compare"},
               task[t].kind = "save" => (a \in {"loading", "listed"} <=> task[t].at \in {"loading", "listed"})
        PROVE  Quiet(task') /\ SavesKept(task')
    <2> DEFINE h == [task[t] EXCEPT !.at = a]
    <2>1. task' = Put(task, t, h)
      BY <1>4, ExceptAtIsPut
    <2>2. IsHandler(h) /\ h.at = a /\ h.kind = task[t].kind /\ h.id = task[t].id /\ h.touched = task[t].touched
      BY <1>2, <1>4, AtReplaced
    <2> HIDE DEF h
    <2>3. To(h)
      BY <1>4, <2>1, <2>2 DEF Completes
    <2> QED BY <2>3, GoesOnQuietly
  <1>5. CASE RunArrives(t)
    <2>1. task' = [task EXCEPT ![t].at = "loading"] /\ task[t].kind = "run"
      BY <1>5 DEF RunArrives, Awaits
    <2> QED BY <2>1, <1>4, <1>1 DEF managerVars
  <1>6. CASE ServeSave(t)
    <2>1. /\ task[t].kind = "save" /\ task[t].at = "sent"
          /\ \/ task' = [task EXCEPT ![t].at = "refused"]
             \/ task' = [task EXCEPT ![t].at = "served"]
      BY <1>6 DEF ServeSave, Awaits
    <2> QED BY <2>1, <1>4, <1>1 DEF managerVars
  <1>7. CASE ServeLoad(t)
    <2>1. task[t].kind = "load" /\ \E a : task' = [task EXCEPT ![t].at = a]
      BY <1>7 DEF ServeLoad, Awaits
    <2> QED BY <2>1, <1>4, <1>1 DEF managerVars
  <1>8. CASE ServeDelete(t)
    <2>1. PICK s \in task[t].todo :
             \/ task' = [task EXCEPT ![t].todo = @ \ {s},
                            ![t].at = IF task[t].todo = {s} THEN "served" ELSE "sent"]
             \/ task' = [task EXCEPT ![t].at = "refused"]
      BY <1>8, Zenon DEF ServeDelete
    <2>2. task[t].kind = "delete"
      BY <1>8 DEF ServeDelete, Awaits
    <2>3. CASE task' = [task EXCEPT ![t].at = "refused"]
      BY <2>2, <2>3, <1>4, <1>1 DEF managerVars
    <2>4. ASSUME NEW todo, NEW a, task' = [task EXCEPT ![t].todo = todo, ![t].at = a]
          PROVE  Quiet(task') /\ SavesKept(task')
      <3> DEFINE h == [task[t] EXCEPT !.todo = todo, !.at = a]
      <3>1. task' = Put(task, t, h)
        BY <2>4 DEF Put
      <3>2. IsHandler(h) /\ h.kind = task[t].kind
        BY <1>2, <2>2 DEF IsHandler, Fields
      <3> HIDE DEF h
      <3>3. To(h)
        BY <2>2, <3>1, <3>2 DEF Completes
      <3> QED BY <3>3, GoesOnQuietly
    <2> QED BY <2>1, <2>3, <2>4, <1>1 DEF managerVars
  <1>9. CASE ServeList(t)
    <2> DEFINE h == [task[t] EXCEPT !.at = "listed", !.all = custom \cup BuiltIns]
    <2>1. /\ task[t].at = "loading"
          /\ task' = [task EXCEPT ![t].at = "listed", ![t].all = custom \cup BuiltIns]
      BY <1>9 DEF ServeList
    <2>2. task' = Put(task, t, h)
      BY <2>1 DEF Put
    <2>3. task[t].kind \notin {"detail", "compare"}
      BY <1>2, <2>1 DEF IsHandler
    <2>4. /\ IsHandler(h) /\ h.kind = task[t].kind /\ h.id = task[t].id
          /\ h.touched = task[t].touched /\ h.at = "listed"
      BY <1>2, <2>3 DEF IsHandler, Fields
    <2> HIDE DEF h
    <2>5. To(h)
      BY <2>1, <2>2, <2>3, <2>4 DEF Completes
    <2> QED BY <2>5, <1>1, GoesOnQuietly DEF managerVars
  <1> QED BY <1>3, <1>5, <1>6, <1>7, <1>8, <1>9 DEF Serve

\* Steps that fill the form leave the history panel alone.
LEMMA FormIsNotHistory ==
    ASSUME Shaped(task),
           \/ \E s \in ScenarioIds : TypeId(s)
           \/ NewScenario \/ DuplicateScenario
           \/ \E t \in Slots : LoadArrives(t) \/ SaveArrives(t) \/ DeleteArrives(t)
    PROVE  Quiet(task') /\ historyVars' = historyVars
  <1>1. CASE \E s \in ScenarioIds : TypeId(s)
    <2>1. UNCHANGED <<historyVars, task>>
      BY <1>1 DEF TypeId
    <2> QED BY <2>1 DEF Quiet, Same
  <1>2. CASE NewScenario \/ DuplicateScenario
    <2>1. historyVars' = historyVars /\ task' = Touched("save")
      BY <1>2 DEF NewScenario, DuplicateScenario
    <2> QED BY <2>1, SavesTouched DEF Quiet, Same
  <1>3. ASSUME NEW t \in Slots, NEW h, IsHandler(h), h.kind \notin {"detail", "compare"},
               task[t].kind \notin {"detail", "compare"},
               task' = Put(Touched("save"), t, h)
        PROVE  Quiet(task')
    <2>1. Shaped(Touched("save"))
      BY SavesTouched
    <2>2. /\ Shaped(task') /\ task'[t] = h
          /\ \A s \in Slots : s # t => task'[s] = Touched("save")[s]
      BY <1>3, <2>1, PutOne
    <2> QED BY <1>3, <2>2, SavesTouched DEF Quiet, Same
  <1>4. ASSUME NEW t \in Slots, LoadArrives(t)
        PROVE  Quiet(task') /\ historyVars' = historyVars
    <2>1. /\ task[t].kind = "load" /\ task' = Put(Touched("save"), t, Idle)
          /\ historyVars' = historyVars
      BY <1>4 DEF LoadArrives, Awaits
    <2> QED BY <2>1, <1>3, FieldsOfIdle
  <1>5. ASSUME NEW t \in Slots, SaveArrives(t)
        PROVE  Quiet(task') /\ historyVars' = historyVars
    <2>1. /\ task[t].kind = "save" /\ historyVars' = historyVars
          /\ task' = Put(Touched("save"), t, [task[t] EXCEPT !.at = "loading"])
      BY <1>5 DEF SaveArrives, Awaits
    <2>2. IsHandler(task[t])
      BY DEF Shaped
    <2> QED BY <2>1, <2>2, <1>3, AtReplaced
  <1>6. ASSUME NEW t \in Slots, DeleteArrives(t)
        PROVE  Quiet(task') /\ historyVars' = historyVars
    <2> DEFINE h == [task[t] EXCEPT !.at = "loading"]
    <2>1. /\ task[t].kind = "delete" /\ historyVars' = historyVars
          /\ \/ task' = Put(Touched("save"), t, h)
             \/ task' = [task EXCEPT ![t].at = "loading"]
      BY <1>6 DEF DeleteArrives, Awaits
    <2>2. IsHandler(h) /\ h.kind = "delete"
      BY <2>1, AtReplaced DEF Shaped
    <2>3. CASE task' = Put(Touched("save"), t, h)
      BY <2>1, <2>2, <2>3, <1>3
    <2>4. CASE task' = [task EXCEPT ![t].at = "loading"]
      <3>1. task' = Put(task, t, h)
        BY <2>4, ExceptAtIsPut
      <3> HIDE DEF h
      <3> QED BY <2>1, <2>2, <3>1, PutOne DEF Quiet, Same
    <2> QED BY <2>1, <2>3, <2>4
  <1> QED BY <1>1, <1>2, <1>4, <1>5, <1>6

-----------------------------------------------------------------------------
(***************************************************************************)
(* The panels of the history.                                              *)
(***************************************************************************)

\* RenderHistory draws a detail only of the run selected, below its row; what was
\* under way for a run that is gone is marked.
LEMMA HistoryDrawn ==
    ASSUME NEW tasks, Shaped(tasks), DetailsFollow(tasks, selected), ComparesWait(tasks),
           NEW listed, NEW filter, RenderHistory(listed, filter, tasks)
    PROVE  HistoryInv'
  <1> DEFINE gone == rows' = {} \/ (selected # None /\ selected \notin rows')
             marked == [t \in Slots |-> IF tasks[t].kind = "detail"
                                        THEN [tasks[t] EXCEPT !.touched = TRUE] ELSE tasks[t]]
  <1>1. PICK ids : compare' = ids
    OBVIOUS
  <1>2. CASE gone
    <2>1. selected' = None /\ detail' = None /\ RenderComparison(ids, marked)
      BY <1>1, <1>2 DEF RenderHistory, CloseDetail
    <2>2. marked = [t \in Slots |-> marked[t]]
      OBVIOUS
    <2>3. ASSUME NEW t \in Slots
          PROVE  /\ IsHandler(marked[t])
                 /\ marked[t].kind = "detail" => marked[t].touched
                 /\ marked[t].kind = "compare" => marked[t] = tasks[t]
      <3>1. IsHandler(tasks[t])
        BY DEF Shaped
      <3>2. CASE tasks[t].kind = "detail"
        <4>1. marked[t] = [tasks[t] EXCEPT !.touched = TRUE]
          BY <3>2
        <4> HIDE DEF marked
        <4> QED BY <3>1, <3>2, <4>1 DEF IsHandler, Fields
      <3>3. CASE tasks[t].kind # "detail"
        BY <3>1, <3>3
      <3> QED BY <3>2, <3>3
    <2> HIDE DEF marked
    <2>4. Shaped(marked) /\ DetailsFollow(marked, selected') /\ ComparesWait(marked)
      BY <2>2, <2>3 DEF Shaped, DetailsFollow, ComparesWait
    <2> QED BY <2>1, <2>4, <1>1, PanelsDrawn
  <1>3. CASE ~gone
    <2>1. /\ selected' = selected /\ RenderComparison(ids, tasks)
          /\ detail' # None => /\ detail' = [id |-> selected, late |-> FALSE]
                               /\ payload # None /\ payload = selected
      BY <1>1, <1>3 DEF RenderHistory
    <2>2. detail' # None => detail'.id \in rows' /\ detail'.id = selected'
      BY <1>3, <2>1
    <2> QED BY <2>1, <2>2, <1>1, PanelsDrawn
  <1> QED BY <1>2, <1>3

\* Clicks in the history panel.
LEMMA HistoryClicks ==
    ASSUME HistoryInv, HistoryClick
    PROVE  HistoryInv'
  <1> USE DEF HistoryInv
  <1>1. ASSUME NEW r \in RunIds, ToggleCompare(r)
        PROVE  HistoryInv'
    <2>1. PICK ids : compare' = ids
      OBVIOUS
    <2>2. RenderComparison(ids, task) /\ UNCHANGED tableVars
      BY <1>1, <2>1 DEF ToggleCompare
    <2> QED BY <2>1, <2>2, PanelsDrawn DEF tableVars, HistoryPanelsFollowTheSelection
  <1>2. ASSUME NEW r \in RunIds, ToggleDetail(r)
        PROVE  HistoryInv'
    <2>1. rows' = rows /\ compare' = compare /\ comparison' = comparison /\ r \in rows
      BY <1>2 DEF ToggleDetail, compareVars
    <2>2. /\ Shaped(Touched("detail"))
          /\ \A s \in Slots : Touched("detail")[s].kind = "detail" => Touched("detail")[s].touched
          /\ \A s \in Slots : Touched("detail")[s].kind = "compare" \/ task[s].kind = "compare"
                                 => Touched("detail")[s] = task[s]
      BY DetailsTouched
    <2>3. CASE CloseDetail /\ task' = Touched("detail")
      BY <2>1, <2>2, <2>3
         DEF CloseDetail, DetailsFollow, ComparesWait, HistoryPanelsFollowTheSelection, Awaits
    <2> DEFINE h == [Idle EXCEPT !.kind = "detail", !.at = "sent", !.id = r]
    <2>4. CASE /\ selected' = r /\ detail' = DetailRow(r, FALSE)
               /\ \E t \in Slots : Await(t, h, Touched("detail"))
      <3>1. PICK t \in Slots : Touched("detail")[t] = Idle /\ task' = Put(Touched("detail"), t, h)
        BY <2>4, Zenon DEF Await
      <3>2. IsHandler(h) /\ h.kind = "detail" /\ h.id = r
        BY DEF IsHandler, Fields, Idle
      <3> HIDE DEF h
      <3>3. /\ Shaped(task') /\ task'[t] = h
            /\ \A s \in Slots : s # t => task'[s] = Touched("detail")[s]
        BY <2>2, <3>1, <3>2, PutOne
      <3>4. task[t].kind # "compare"
        BY <2>2, <3>1, FieldsOfIdle
      <3>5. /\ detail' = [id |-> r, late |-> FALSE]
            /\ selected' = r /\ r \in rows'
        BY <2>1, <2>4 DEF DetailRow
      <3>6. DetailsFollow(task', selected') /\ ComparesWait(task')
        BY <2>2, <2>4, <3>2, <3>3 DEF DetailsFollow, ComparesWait
      <3>7. \A s \in Slots : Awaits(s, "compare", "sent") => task'[s] = task[s]
        BY <2>2, <3>3, <3>4 DEF Awaits
      <3>8. HistoryPanelsFollowTheSelection'
        <4>1. detail'.id \in rows' /\ detail'.id = selected'
          BY <3>5
        <4>2. comparison'.shows = "loading" =>
                 \E s \in Slots : Awaits(s, "compare", "sent")' /\ task'[s].ids = compare'
          BY <2>1, <3>7 DEF HistoryPanelsFollowTheSelection, Awaits
        <4> QED BY <2>1, <4>1, <4>2 DEF HistoryPanelsFollowTheSelection
      <3> QED BY <3>3, <3>6, <3>8
    <2> QED BY <1>2, <2>3, <2>4, Zenon DEF ToggleDetail
  <1>3. ASSUME NEW filter \in SUBSET RunIds, FilterHistory(filter)
        PROVE  HistoryInv'
    <2>1. RenderHistory(records, filter, task)
      BY <1>3 DEF FilterHistory
    <2> QED BY <2>1, HistoryDrawn
  <1> QED BY <1>1, <1>2, <1>3 DEF HistoryClick

\* A detail that arrives is shown; if it is late, it is marked.
LEMMA DetailAnswers ==
    ASSUME HistoryInv, NEW t \in Slots, DetailArrives(t)
    PROVE  HistoryInv'
  <1> USE DEF HistoryInv
  <1>1. /\ task[t].kind = "detail" /\ task' = Put(task, t, Idle)
        /\ detail' = DetailRow(task[t].id, task[t].touched)
        /\ rows' = rows /\ selected' = selected /\ compare' = compare
        /\ comparison' = comparison
    BY ExceptIsPut DEF DetailArrives, Awaits, compareVars
  <1>2. /\ Shaped(task') /\ task'[t] = Idle
        /\ \A s \in Slots : s # t => task'[s] = task[s]
    BY <1>1, FieldsOfIdle, PutOne
  <1>3. detail' # None => /\ task[t].id \in rows
                          /\ detail' = [id |-> task[t].id, late |-> task[t].touched]
    BY <1>1 DEF DetailRow
  <1>4. task[t].touched \/ task[t].id = selected
    BY <1>1 DEF DetailsFollow
  <1>5. DetailsFollow(task', selected') /\ ComparesWait(task')
    BY <1>1, <1>2, FieldsOfIdle DEF DetailsFollow, ComparesWait
  <1>6. \A s \in Slots : Awaits(s, "compare", "sent") => task'[s] = task[s]
    BY <1>1, <1>2 DEF Awaits
  <1>7. comparison'.shows = "loading" =>
           \E s \in Slots : Awaits(s, "compare", "sent")' /\ task'[s].ids = compare'
    BY <1>1, <1>6 DEF HistoryPanelsFollowTheSelection, Awaits
  <1>8. detail' # None => detail'.id \in rows' /\ (detail'.late \/ detail'.id = selected')
    BY <1>1, <1>3, <1>4
  <1>9. HistoryPanelsFollowTheSelection'
    BY <1>1, <1>7, <1>8 DEF HistoryPanelsFollowTheSelection
  <1> QED BY <1>2, <1>5, <1>9

\* Answers to a comparison, for the runs compared now or for others.
LEMMA CompareAnswers ==
    ASSUME HistoryInv, NEW t \in Slots, NEW r \in RunIds,
           CompareArrives(t, r) \/ CompareFails(t, r)
    PROVE  HistoryInv'
  <1> USE DEF HistoryInv
  <1>1. /\ task[t].kind = "compare" /\ task[t].at \in {"sent", "refused"}
        /\ rows' = rows /\ selected' = selected /\ detail' = detail /\ compare' = compare
    BY DEF CompareArrives, CompareFails, Awaits, tableVars
  <1>2. IsHandler(task[t])
    BY DEF Shaped
  <1>3. ASSUME NEW h, IsHandler(h), task' = Put(task, t, h),
               \/ h = Idle
               \/ /\ h.kind = "compare" /\ h.ids = task[t].ids
                  /\ h.at = "sent" => task[t].at = "sent" /\ h.todo # {}
        PROVE  /\ Shaped(task') /\ DetailsFollow(task', selected') /\ ComparesWait(task')
               /\ task'[t] = h
               /\ \A s \in Slots : s # t => task'[s] = task[s]
    <2>1. /\ Shaped(task') /\ task'[t] = h
          /\ \A s \in Slots : s # t => task'[s] = task[s]
      BY <1>3, PutOne
    <2>2. DetailsFollow(task', selected')
      BY <1>1, <1>3, <2>1, FieldsOfIdle DEF DetailsFollow
    <2>3. ComparesWait(task')
      BY <1>1, <1>3, <2>1, FieldsOfIdle DEF ComparesWait
    <2> QED BY <2>1, <2>2, <2>3
  <1>4. CASE CompareArrives(t, r)
    <2> DEFINE g == [task[t] EXCEPT !.todo = @ \ {r}]
               last == task[t].todo = {r}
    <2>1. /\ task' = Put(task, t, IF last THEN Idle ELSE g)
          /\ comparison' = IF last /\ task[t].at = "sent" /\ task[t].ids = compare
                           THEN [shows |-> "result", ids |-> compare] ELSE comparison
          /\ r \in task[t].todo
      BY <1>4, ExceptIsPut DEF CompareArrives
    <2>2. /\ IsHandler(g) /\ g.kind = "compare" /\ g.at = task[t].at /\ g.ids = task[t].ids
          /\ g.todo = task[t].todo \ {r}
      BY <1>1, <1>2 DEF IsHandler, Fields
    <2> HIDE DEF g
    <2>3. CASE last
      <3>1. /\ Shaped(task') /\ DetailsFollow(task', selected') /\ ComparesWait(task')
            /\ \A s \in Slots : s # t => task'[s] = task[s]
        BY <1>3, <2>1, <2>3, FieldsOfIdle
      <3>2. CASE task[t].at = "sent" /\ task[t].ids = compare
        <4>1. comparison' = [shows |-> "result", ids |-> compare]
          BY <2>1, <2>3, <3>2
        <4>2. ~(Len(compare) < 2)
          BY <1>1, <3>2 DEF ComparesWait
        <4>3. HistoryPanelsFollowTheSelection'
          BY <1>1, <4>1, <4>2 DEF HistoryPanelsFollowTheSelection
        <4> QED BY <3>1, <4>3
      <3>3. CASE ~(task[t].at = "sent" /\ task[t].ids = compare)
        <4>1. comparison' = comparison
          BY <2>1, <3>3
        <4>2. HistoryPanelsFollowTheSelection'
          BY <1>1, <3>1, <3>3, <4>1 DEF HistoryPanelsFollowTheSelection, Awaits
        <4> QED BY <3>1, <4>2
      <3> QED BY <3>2, <3>3
    <2>4. CASE ~last
      <3>1. task' = Put(task, t, g) /\ comparison' = comparison /\ g.todo # {}
        BY <2>1, <2>2, <2>4
      <3>2. /\ Shaped(task') /\ DetailsFollow(task', selected') /\ ComparesWait(task')
            /\ task'[t] = g /\ \A s \in Slots : s # t => task'[s] = task[s]
        BY <1>3, <2>2, <3>1
      <3>3. HistoryPanelsFollowTheSelection'
        BY <1>1, <2>2, <3>1, <3>2 DEF HistoryPanelsFollowTheSelection, Awaits
      <3> QED BY <3>2, <3>3
    <2> QED BY <2>3, <2>4
  <1>5. CASE CompareFails(t, r)
    <2> DEFINE g == [task[t] EXCEPT !.todo = @ \ {r}, !.at = "refused"]
    <2>1. /\ task' = Put(task, t, IF task[t].todo = {r} THEN Idle ELSE g)
          /\ comparison' = IF task[t].at = "sent" THEN [shows |-> "error", ids |-> task[t].ids]
                           ELSE comparison
      BY <1>5, ExceptIsPut DEF CompareFails
    <2>2. IsHandler(g) /\ g.kind = "compare" /\ g.at = "refused" /\ g.ids = task[t].ids
      BY <1>1, <1>2 DEF IsHandler, Fields
    <2> HIDE DEF g
    <2>3. PICK h : h = IF task[t].todo = {r} THEN Idle ELSE g
      OBVIOUS
    <2>4. IsHandler(h) /\ h.at # "sent" /\ (h = Idle \/ (h.kind = "compare" /\ h.ids = task[t].ids))
      BY <2>2, <2>3, FieldsOfIdle
    <2>5. /\ Shaped(task') /\ DetailsFollow(task', selected') /\ ComparesWait(task')
          /\ \A s \in Slots : s # t => task'[s] = task[s]
      BY <1>3, <2>1, <2>3, <2>4
    <2>6. HistoryPanelsFollowTheSelection'
      <3>1. CASE task[t].at = "sent"
        <4>1. comparison'.shows = "error"
          BY <2>1, <3>1
        <4> QED BY <1>1, <4>1 DEF HistoryPanelsFollowTheSelection
      <3>2. CASE task[t].at # "sent"
        BY <1>1, <2>1, <2>5, <3>2 DEF HistoryPanelsFollowTheSelection, Awaits
      <3> QED BY <3>1, <3>2
    <2> QED BY <2>5, <2>6
  <1> QED BY <1>4, <1>5

\* What loadDashboard leaves of the handler that awaited it.
LEMMA FinishedOne ==
    ASSUME NEW tasks, Shaped(tasks), NEW t \in Slots
    PROVE  /\ Shaped(Finished(t, tasks))
           /\ Finished(t, tasks)[t].kind \in {"none", "preview"}
           /\ \A s \in Slots : s # t => Finished(t, tasks)[s] = tasks[s]
  <1> DEFINE preview == [Idle EXCEPT !.kind = "preview", !.at = "sent"]
  <1>1. IsHandler(preview) /\ preview.kind = "preview"
    BY DEF IsHandler, Fields, Idle
  <1> HIDE DEF preview
  <1>2. PICK h : h = IF task[t].run THEN preview ELSE Idle
    OBVIOUS
  <1>3. IsHandler(h) /\ h.kind \in {"none", "preview"}
    BY <1>1, <1>2, FieldsOfIdle
  <1>4. Finished(t, tasks) = Put(tasks, t, h)
    BY <1>2 DEF Finished, preview
  <1> QED BY <1>3, <1>4, PutOne

\* loadDashboard ends, with new rows or without.
LEMMA DashboardAnswers ==
    ASSUME HistoryInv, NEW t \in Slots, DashboardArrives(t) \/ DashboardFails(t)
    PROVE  HistoryInv'
  <1> USE DEF HistoryInv
  <1>1. task[t].at \in {"loading", "listed"} /\ task[t].kind \notin {"detail", "compare"}
    BY DEF DashboardArrives, DashboardFails, Shaped, IsHandler
  <1>2. CASE DashboardFails(t)
    <2>1. /\ rows' = {} /\ detail' = None /\ selected' = selected /\ compare' = compare
          /\ comparison' = comparison /\ task' = Finished(t, task)
      BY <1>2 DEF DashboardFails, RenderFatalError
    <2>2. Shaped(task') /\ Same({"detail", "compare"}, task')
      BY <1>1, <2>1, FinishedOne DEF Same
    <2> QED BY <2>1, <2>2
           DEF Same, DetailsFollow, ComparesWait, HistoryPanelsFollowTheSelection, Awaits
  <1>3. CASE DashboardArrives(t)
    <2>1. PICK tasks, listed : /\ tasks \in {task, Touched("save")}
                               /\ RenderHistory(listed, matching, Finished(t, tasks))
      <3> DEFINE tasks == IF ~Listed(editing, task[t].all) THEN Touched("save") ELSE task
      <3>1. \E listed \in SUBSET RunIds : RenderHistory(listed, matching, Finished(t, tasks))
        BY <1>3, Zenon DEF DashboardArrives
      <3>2. tasks \in {task, Touched("save")}
        OBVIOUS
      <3> HIDE DEF tasks
      <3> QED BY <3>1, <3>2
    <2>2. Shaped(tasks) /\ Same({"detail", "compare"}, tasks)
      BY <2>1, SavesTouched DEF Same
    <2>3. Shaped(Finished(t, tasks)) /\ Same({"detail", "compare"}, Finished(t, tasks))
      BY <1>1, <2>2, FinishedOne DEF Same
    <2>4. DetailsFollow(Finished(t, tasks), selected) /\ ComparesWait(Finished(t, tasks))
      BY <2>3 DEF Same, DetailsFollow, ComparesWait
    <2> QED BY <2>1, <2>3, <2>4, HistoryDrawn
  <1> QED BY <1>2, <1>3

\* Initially nothing is shown and nothing is under way.
LEMMA Begins == Init => HistoryInv /\ ManagerInv
  <1> SUFFICES ASSUME Init PROVE HistoryInv /\ ManagerInv
    OBVIOUS
  <1> DEFINE h == [Idle EXCEPT !.kind = "open", !.at = "loading"]
  <1>1. IsHandler(h) /\ h.kind = "open"
    BY DEF IsHandler, Fields, Idle
  <1>2. PICK s \in Slots : task = [t \in Slots |-> IF t = s THEN h ELSE Idle]
    BY Zenon DEF Init
  <1> HIDE DEF h
  <1>3. /\ Shaped(task)
        /\ \A t \in Slots : task[t].kind \notin {"detail", "compare", "save"}
    BY <1>1, <1>2, FieldsOfIdle DEF Shaped
  <1>4. /\ selected = None /\ detail = None /\ comparison = [shows |-> "notice", ids |-> <<>>]
        /\ editing = None /\ title = None /\ form = [of |-> None, id |-> DefaultId]
    BY DEF Init, Draft
  <1>5. HistoryInv
    BY <1>3, <1>4
       DEF HistoryInv, DetailsFollow, ComparesWait, HistoryPanelsFollowTheSelection
  <1>6. ManagerInv
    BY <1>3, <1>4 DEF ManagerInv, SavesFollow, Completes, ManagerShows
  <1> QED BY <1>5, <1>6

\* The panels of the history follow the selection, whatever answers arrive in
\* whatever order.
THEOREM PanelsFollow == Spec => []HistoryPanelsFollowTheSelection
  <1>1. ASSUME HistoryInv, [Next]_vars PROVE HistoryInv'
    <2>1. ASSUME Quiet(task'), historyVars' = historyVars PROVE HistoryInv'
      BY <1>1, <2>1, HistoryUndisturbed DEF Quiet, historyVars, tableVars, compareVars
    <2>2. Shaped(task)
      BY <1>1 DEF HistoryInv
    <2>3. CASE HistoryClick
      BY <1>1, <2>3, HistoryClicks
    <2>4. CASE ManagerClick \/ OtherClick
      BY <2>1, <2>2, <2>4, MinorClicks, FormIsNotHistory DEF ManagerClick
    <2>5. ASSUME NEW t \in Slots, Answer(t) \/ Serve(t) PROVE HistoryInv'
      <3>1. CASE RunArrives(t) \/ Ends(t) \/ Serve(t)
        BY <2>1, <2>2, <3>1, MinorAnswers
      <3>2. CASE LoadArrives(t) \/ SaveArrives(t) \/ DeleteArrives(t)
        BY <2>1, <2>2, <3>2, FormIsNotHistory
      <3>3. CASE \E r \in RunIds : CompareArrives(t, r) \/ CompareFails(t, r)
        BY <1>1, <3>3, CompareAnswers
      <3>4. CASE DetailArrives(t)
        BY <1>1, <3>4, DetailAnswers
      <3>5. CASE DashboardArrives(t) \/ DashboardFails(t)
        BY <1>1, <3>5, DashboardAnswers
      <3> QED BY <2>5, <3>1, <3>2, <3>3, <3>4, <3>5 DEF Answer
    <2>6. CASE UNCHANGED vars
      <3>1. task' = task /\ historyVars' = historyVars
        BY <2>6 DEF vars
      <3> QED BY <2>1, <2>2, <3>1 DEF Quiet, Same
    <2> QED BY <1>1, <2>3, <2>4, <2>5, <2>6 DEF Next
  <1>2. HistoryInv => HistoryPanelsFollowTheSelection
    BY DEF HistoryInv
  <1>3. Init => HistoryInv
    BY Begins
  <1> QED BY <1>1, <1>2, <1>3, PTL DEF Spec

-----------------------------------------------------------------------------
(***************************************************************************)
(* The scenario manager.                                                   *)
(***************************************************************************)

\* Nor is the drawing of the history.
LEMMA HistoryDrawnKeepsSaves ==
    ASSUME NEW tasks, Shaped(tasks), NEW listed, NEW filter,
           RenderHistory(listed, filter, tasks)
    PROVE  /\ Shaped(task')
           /\ \A t \in Slots : /\ Completes(task'[t]) <=> Completes(tasks[t])
                               /\ Completes(task'[t]) => task'[t] = tasks[t]
  <1> DEFINE marked == [t \in Slots |-> IF tasks[t].kind = "detail"
                                        THEN [tasks[t] EXCEPT !.touched = TRUE] ELSE tasks[t]]
  <1>1. PICK ids : compare' = ids
    OBVIOUS
  <1>2. RenderComparison(ids, tasks) \/ RenderComparison(ids, marked)
    BY <1>1 DEF RenderHistory
  <1>3. marked = [t \in Slots |-> marked[t]]
    OBVIOUS
  <1>4. ASSUME NEW t \in Slots
        PROVE  /\ IsHandler(marked[t])
               /\ marked[t].kind = tasks[t].kind
               /\ tasks[t].kind # "detail" => marked[t] = tasks[t]
    <2>1. IsHandler(tasks[t])
      BY DEF Shaped
    <2>2. CASE tasks[t].kind = "detail"
      <3>1. marked[t] = [tasks[t] EXCEPT !.touched = TRUE]
        BY <2>2
      <3> HIDE DEF marked
      <3> QED BY <2>1, <2>2, <3>1 DEF IsHandler, Fields
    <2>3. CASE tasks[t].kind # "detail"
      BY <2>1, <2>3
    <2> QED BY <2>2, <2>3
  <1> HIDE DEF marked
  <1>5. Shaped(marked)
    BY <1>3, <1>4 DEF Shaped
  <1>6. CASE RenderComparison(ids, tasks)
    BY <1>6, ComparisonDrawn, FieldsOfIdle DEF Completes
  <1>7. CASE RenderComparison(ids, marked)
    BY <1>4, <1>5, <1>7, ComparisonDrawn, FieldsOfIdle DEF Completes
  <1> QED BY <1>2, <1>6, <1>7

\* Steps of the history panel complete no save and leave the manager alone.
LEMMA HistoryIsNotForm ==
    ASSUME Shaped(task),
           \/ HistoryClick
           \/ \E t \in Slots : \/ DetailArrives(t)
                               \/ \E r \in RunIds : CompareArrives(t, r) \/ CompareFails(t, r)
    PROVE  Shaped(task') /\ SavesKept(task') /\ editVars' = editVars
  <1>1. ASSUME NEW r \in RunIds, ToggleCompare(r)
        PROVE  Shaped(task') /\ SavesKept(task') /\ editVars' = editVars
    <2>1. PICK ids : compare' = ids
      OBVIOUS
    <2>2. RenderComparison(ids, task) /\ editVars' = editVars
      BY <1>1, <2>1 DEF ToggleCompare, managerVars
    <2> QED BY <2>2, ComparisonKeepsSaves
  <1>2. ASSUME NEW r \in RunIds, ToggleDetail(r)
        PROVE  Shaped(task') /\ SavesKept(task') /\ editVars' = editVars
    <2> DEFINE h == [Idle EXCEPT !.kind = "detail", !.at = "sent", !.id = r]
    <2>1. /\ Shaped(Touched("detail"))
          /\ \A s \in Slots : /\ Touched("detail")[s].kind = task[s].kind
                              /\ task[s].kind # "detail" => Touched("detail")[s] = task[s]
      BY DetailsTouched
    <2>2. editVars' = editVars
      BY <1>2 DEF ToggleDetail, managerVars
    <2>3. CASE task' = Touched("detail")
      BY <2>1, <2>2, <2>3 DEF SavesKept, Completes
    <2>4. CASE \E t \in Slots : Await(t, h, Touched("detail"))
      <3>1. PICK t \in Slots : Touched("detail")[t] = Idle /\ task' = Put(Touched("detail"), t, h)
        BY <2>4, Zenon DEF Await
      <3>2. IsHandler(h) /\ h.kind = "detail"
        BY DEF IsHandler, Fields, Idle
      <3> HIDE DEF h
      <3>3. /\ Shaped(task') /\ task'[t] = h
            /\ \A s \in Slots : s # t => task'[s] = Touched("detail")[s]
        BY <2>1, <3>1, <3>2, PutOne
      <3> QED BY <2>1, <2>2, <3>1, <3>2, <3>3, FieldsOfIdle DEF SavesKept, Completes
    <2> QED BY <1>2, <2>3, <2>4, Zenon DEF ToggleDetail
  <1>3. ASSUME NEW filter \in SUBSET RunIds, FilterHistory(filter)
        PROVE  Shaped(task') /\ SavesKept(task') /\ editVars' = editVars
    <2>1. RenderHistory(records, filter, task) /\ editVars' = editVars
      BY <1>3 DEF FilterHistory, managerVars
    <2> QED BY <2>1, HistoryDrawnKeepsSaves DEF SavesKept
  <1>4. ASSUME NEW t \in Slots, NEW h, IsHandler(h), task' = Put(task, t, h),
               ~Completes(h), ~Completes(task[t])
        PROVE  Shaped(task') /\ SavesKept(task')
    BY <1>4, PutOne DEF SavesKept
  <1>5. ASSUME NEW t \in Slots, DetailArrives(t)
        PROVE  Shaped(task') /\ SavesKept(task') /\ editVars' = editVars
    <2>1. /\ task[t].kind = "detail" /\ task' = Put(task, t, Idle) /\ editVars' = editVars
      BY <1>5, ExceptIsPut DEF DetailArrives, Awaits, managerVars
    <2> QED BY <2>1, <1>4, FieldsOfIdle DEF Completes
  <1>6. ASSUME NEW t \in Slots, NEW r \in RunIds, CompareArrives(t, r) \/ CompareFails(t, r)
        PROVE  Shaped(task') /\ SavesKept(task') /\ editVars' = editVars
    <2>1. task[t].kind = "compare" /\ editVars' = editVars
          /\ task[t].at \in {"sent", "refused"}
      BY <1>6 DEF CompareArrives, CompareFails, Awaits, managerVars
    <2> DEFINE g == [task[t] EXCEPT !.todo = @ \ {r}]
               b == [task[t] EXCEPT !.todo = @ \ {r}, !.at = "refused"]
    <2>2. task' = Put(task, t, Idle) \/ task' = Put(task, t, g) \/ task' = Put(task, t, b)
      <3>1. CASE CompareArrives(t, r)
        <4>1. task' = Put(task, t, IF task[t].todo = {r} THEN Idle ELSE g)
          BY <3>1, ExceptIsPut DEF CompareArrives
        <4> QED BY <4>1
      <3>2. CASE CompareFails(t, r)
        <4>1. task' = Put(task, t, IF task[t].todo = {r} THEN Idle ELSE b)
          BY <3>2, ExceptIsPut DEF CompareFails
        <4> QED BY <4>1
      <3> QED BY <1>6, <3>1, <3>2
    <2>3. IsHandler(g) /\ g.kind = "compare" /\ IsHandler(b) /\ b.kind = "compare"
      BY <2>1 DEF IsHandler, Fields, Shaped
    <2> HIDE DEF g, b
    <2> QED BY <1>4, <2>1, <2>2, <2>3, FieldsOfIdle DEF Completes
  <1> QED BY <1>1, <1>2, <1>3, <1>5, <1>6 DEF HistoryClick

\* A form that is filled or reset shows the scenario edited, if the saves under way
\* are marked.
LEMMA FormFilled ==
    ASSUME Shaped(task'), form' = [of |-> form'.of, id |-> form'.id], title' = editing',
           editing' # None => form'.of = editing',
           \A s \in Slots : Completes(task'[s]) => task'[s].touched
    PROVE  ManagerInv'
  BY DEF ManagerInv, SavesFollow, ManagerShows

\* Clicks in the manager that change the form.
LEMMA FormClicks ==
    ASSUME ManagerInv,
           \/ \E s \in ScenarioIds : TypeId(s)
           \/ NewScenario \/ DuplicateScenario
    PROVE  ManagerInv'
  <1> USE DEF ManagerInv
  <1>1. CASE \E s \in ScenarioIds : TypeId(s)
    <2>1. PICK s \in ScenarioIds : form' = [form EXCEPT !.id = s]
      BY <1>1 DEF TypeId
    <2>2. UNCHANGED <<editing, title, crossed, task>>
      BY <1>1 DEF TypeId
    <2>3. form'.of = form.of /\ form' = [of |-> form'.of, id |-> form'.id]
      BY <2>1
    <2> QED BY <2>2, <2>3 DEF SavesFollow, ManagerShows
  <1>2. CASE NewScenario \/ DuplicateScenario
    <2>1. /\ editing' = None /\ title' = None /\ task' = Touched("save")
          /\ \E s : form' = [of |-> None, id |-> s]
      BY <1>2 DEF NewScenario, DuplicateScenario, Draft
    <2>2. form' = [of |-> form'.of, id |-> form'.id]
      BY <2>1
    <2>3. /\ Shaped(task')
          /\ \A s \in Slots : Completes(task'[s]) => task'[s].touched
      BY <2>1, SavesTouched DEF Completes
    <2> QED BY <2>1, <2>2, <2>3, FormFilled
  <1> QED BY <1>1, <1>2

\* Answers that fill the form or go on with a save or a delete.
LEMMA FormAnswers ==
    ASSUME ManagerInv, NEW t \in Slots, LoadArrives(t) \/ SaveArrives(t) \/ DeleteArrives(t)
    PROVE  ManagerInv'
  <1> USE DEF ManagerInv
  <1>1. ASSUME NEW h, IsHandler(h), task' = Put(Touched("save"), t, h)
        PROVE  /\ Shaped(task') /\ task'[t] = h
               /\ \A s \in Slots : s # t => (Completes(task'[s]) => task'[s].touched)
    <2>1. /\ Shaped(Touched("save"))
          /\ \A s \in Slots : Touched("save")[s].kind = "save" => Touched("save")[s].touched
      BY SavesTouched
    <2>2. /\ Shaped(task') /\ task'[t] = h
          /\ \A s \in Slots : s # t => task'[s] = Touched("save")[s]
      BY <1>1, <2>1, PutOne
    <2> QED BY <2>1, <2>2 DEF Completes
  <1>2. IsHandler(task[t])
    BY DEF Shaped
  <1>3. CASE LoadArrives(t)
    <2>1. /\ title' = editing' /\ editing' \in {task[t].id, None}
          /\ form' = [of |-> task[t].id, id |-> task[t].id]
          /\ task' = Put(Touched("save"), t, Idle)
      BY <1>3 DEF LoadArrives
    <2>2. /\ Shaped(task')
          /\ \A s \in Slots : Completes(task'[s]) => task'[s].touched
      BY <1>1, <2>1, FieldsOfIdle DEF Completes
    <2> QED BY <2>1, <2>2, FormFilled
  <1>4. CASE SaveArrives(t)
    <2> DEFINE h == [task[t] EXCEPT !.at = "loading"]
    <2>1. /\ task[t].kind = "save" /\ editing' = task[t].id
          /\ form' = IF task[t].touched THEN form ELSE [form EXCEPT !.of = task[t].id]
          /\ crossed' = task[t].touched
          /\ task' = Put(Touched("save"), t, h)
      BY <1>4 DEF SaveArrives, Awaits
    <2>2. IsHandler(h) /\ h.kind = "save" /\ h.at = "loading" /\ h.id = task[t].id
      BY <1>2, <2>1, AtReplaced
    <2> HIDE DEF h
    <2>3. /\ Shaped(task') /\ task'[t] = h
          /\ \A s \in Slots : s # t => (Completes(task'[s]) => task'[s].touched)
      BY <1>1, <2>1, <2>2
    <2>4. SavesFollow(task', editing') /\ Completes(task'[t])
      BY <2>1, <2>2, <2>3 DEF SavesFollow, Completes
    <2>5. /\ form' = [of |-> form'.of, id |-> form'.id]
          /\ task[t].touched \/ form'.of = editing'
      <3>1. CASE task[t].touched
        BY <2>1, <3>1
      <3>2. CASE ~task[t].touched
        <4>1. form' = [form EXCEPT !.of = task[t].id]
          BY <2>1, <3>2
        <4> QED BY <2>1, <4>1
      <3> QED BY <3>1, <3>2
    <2>6. ManagerShows'
      BY <2>1, <2>4, <2>5 DEF ManagerShows
    <2> QED BY <2>3, <2>4, <2>5, <2>6
  <1>5. CASE DeleteArrives(t)
    <2> DEFINE h == [task[t] EXCEPT !.at = "loading"]
    <2>1. task[t].kind = "delete" /\ task[t].at = "served"
      BY <1>5 DEF DeleteArrives, Awaits
    <2>2. IsHandler(h) /\ h.kind = "delete"
      BY <1>2, <2>1, AtReplaced
    <2>3. CASE editing \in task[t].all
      <3>1. /\ editing' = None /\ title' = None /\ form' = [of |-> None, id |-> DefaultId]
            /\ task' = Put(Touched("save"), t, h)
        BY <1>5, <2>3 DEF DeleteArrives, Draft
      <3> HIDE DEF h
      <3>2. /\ Shaped(task')
            /\ \A s \in Slots : Completes(task'[s]) => task'[s].touched
        BY <1>1, <2>2, <3>1 DEF Completes
      <3> QED BY <3>1, <3>2, FormFilled
    <2>4. CASE editing \notin task[t].all
      <3>1. task' = Put(task, t, h) /\ editVars' = editVars
        BY <1>5, <2>4, ExceptAtIsPut DEF DeleteArrives
      <3> HIDE DEF h
      <3>2. Shaped(task') /\ SavesKept(task')
        BY <2>1, <2>2, <3>1, PutOne DEF SavesKept, Completes
      <3> QED BY <3>1, <3>2, ManagerUndisturbed
    <2> QED BY <2>3, <2>4
  <1> QED BY <1>3, <1>4, <1>5

\* loadDashboard ends and the scenario edited stays the same: a save that awaited
\* it names its scenario.
LEMMA LoadingEnds ==
    ASSUME ManagerInv, NEW t \in Slots, task[t].at \in {"loading", "listed"},
           NEW b, NEW shown, GoesOn(t, editing, b, title, shown), form' = form,
           Shaped(task'), ~Completes(task'[t]),
           \A s \in Slots : s # t =>
              /\ Completes(task'[s]) <=> Completes(task[s])
              /\ Completes(task'[s]) => task'[s].id = task[s].id /\ task'[s].touched = task[s].touched
    PROVE  ManagerInv'
  <1> USE DEF ManagerInv
  <1>1. editing' = editing
    BY DEF GoesOn
  <1>2. SavesFollow(task', editing')
    BY <1>1 DEF SavesFollow
  <1>3. CASE task[t].kind = "save"
    <2>1. /\ title' = task[t].id
          /\ ~crossed' => ~crossed /\ ~task[t].touched
      BY <1>3 DEF GoesOn
    <2>2. task[t].touched \/ task[t].id = editing
      BY <1>3 DEF SavesFollow, Completes
    <2>3. ManagerShows'
      BY <1>1, <2>1, <2>2 DEF ManagerShows
    <2> QED BY <1>1, <1>2, <2>3
  <1>4. CASE task[t].kind # "save"
    <2>1. title' = title /\ crossed' = crossed
      BY <1>4 DEF GoesOn
    <2>2. \A s \in Slots : Completes(task[s]) => Completes(task'[s])
      BY <1>4 DEF Completes
    <2>3. ManagerShows'
      BY <1>1, <2>1, <2>2 DEF ManagerShows
    <2> QED BY <1>1, <1>2, <2>3
  <1> QED BY <1>3, <1>4

\* loadDashboard ends for a handler of the manager, or fails.
LEMMA LoadedAnswers ==
    ASSUME ManagerInv, NEW t \in Slots, DashboardArrives(t) \/ DashboardFails(t)
    PROVE  ManagerInv'
  <1> USE DEF ManagerInv
  <1>1. CASE DashboardFails(t)
    <2>1. /\ task[t].at \in {"loading", "listed"} /\ form' = form
          /\ GoesOn(t, editing, base, title, enabled) /\ task' = Finished(t, task)
      BY <1>1 DEF DashboardFails
    <2>2. /\ Shaped(task') /\ ~Completes(task'[t])
          /\ \A s \in Slots : s # t => task'[s] = task[s]
      BY <2>1, FinishedOne DEF Completes
    <2> QED BY <2>1, <2>2, LoadingEnds
  <1>2. ASSUME NEW tasks, Shaped(tasks), NEW listed,
               RenderHistory(listed, matching, Finished(t, tasks))
        PROVE  /\ Shaped(task') /\ ~Completes(task'[t])
               /\ \A s \in Slots : s # t =>
                     /\ Completes(task'[s]) <=> Completes(tasks[s])
                     /\ Completes(task'[s]) => /\ task'[s].id = tasks[s].id
                                               /\ task'[s].touched = tasks[s].touched
    <2>1. /\ Shaped(Finished(t, tasks)) /\ ~Completes(Finished(t, tasks)[t])
          /\ \A s \in Slots : s # t => Finished(t, tasks)[s] = tasks[s]
      BY <1>2, FinishedOne DEF Completes
    <2> QED BY <1>2, <2>1, HistoryDrawnKeepsSaves
  <1>3. CASE DashboardArrives(t) /\ Listed(editing, task[t].all)
    <2>1. /\ task[t].at = "listed" /\ form' = form
          /\ \E shown : GoesOn(t, editing, base, title, shown)
          /\ \E listed : RenderHistory(listed, matching, Finished(t, task))
      BY <1>3, Zenon DEF DashboardArrives
    <2> QED BY <2>1, <1>2, LoadingEnds
  <1>4. CASE DashboardArrives(t) /\ ~Listed(editing, task[t].all)
    <2>1. /\ task[t].at = "listed" /\ form' = form
          /\ \E shown : GoesOn(t, None, None, None, shown)
          /\ \E listed : RenderHistory(listed, matching, Finished(t, Touched("save")))
      BY <1>4, Zenon DEF DashboardArrives
    <2>2. /\ Shaped(task')
          /\ \A s \in Slots : Completes(task'[s]) => task'[s].touched
      <3>1. /\ Shaped(Touched("save"))
            /\ \A s \in Slots : Completes(Touched("save")[s]) => Touched("save")[s].touched
        BY SavesTouched DEF Completes
      <3> QED BY <2>1, <3>1, <1>2
    <2>3. editing' = None /\ editing # None
      BY <1>4, <2>1 DEF GoesOn, Listed
    <2>4. crossed' \/ title' = None
      BY <2>1, <2>3 DEF GoesOn
    <2>5. SavesFollow(task', editing') /\ ManagerShows'
      BY <2>2, <2>3, <2>4 DEF SavesFollow, ManagerShows
    <2> QED BY <2>1, <2>2, <2>5
  <1> QED BY <1>1, <1>3, <1>4

\* A save goes to the scenario shown, whatever handlers await and end in whatever
\* order, unless the manager went on while one was under way.
THEOREM SavesShown == Spec => []SavesGoToTheScenarioShown
  <1>1. ASSUME ManagerInv, [Next]_vars PROVE ManagerInv'
    <2>1. ASSUME Shaped(task'), SavesKept(task'), editVars' = editVars PROVE ManagerInv'
      BY <1>1, <2>1, ManagerUndisturbed
    <2>2. Shaped(task)
      BY <1>1 DEF ManagerInv
    <2>3. CASE HistoryClick
      BY <2>1, <2>2, <2>3, HistoryIsNotForm
    <2>4. CASE ManagerClick \/ OtherClick
      BY <1>1, <2>1, <2>2, <2>4, MinorClicks, FormClicks DEF ManagerClick, Quiet
    <2>5. ASSUME NEW t \in Slots, Answer(t) \/ Serve(t) PROVE ManagerInv'
      <3>1. CASE RunArrives(t) \/ Ends(t) \/ Serve(t)
        BY <2>1, <2>2, <3>1, MinorAnswers DEF Quiet
      <3>2. CASE LoadArrives(t) \/ SaveArrives(t) \/ DeleteArrives(t)
        BY <1>1, <3>2, FormAnswers
      <3>3. CASE DetailArrives(t) \/ \E r \in RunIds : CompareArrives(t, r) \/ CompareFails(t, r)
        BY <2>1, <2>2, <3>3, HistoryIsNotForm
      <3>4. CASE DashboardArrives(t) \/ DashboardFails(t)
        BY <1>1, <3>4, LoadedAnswers
      <3> QED BY <2>5, <3>1, <3>2, <3>3, <3>4 DEF Answer
    <2>6. CASE UNCHANGED vars
      <3>1. task' = task /\ editVars' = editVars
        BY <2>6 DEF vars, managerVars
      <3> QED BY <2>1, <2>2, <3>1 DEF SavesKept
    <2> QED BY <1>1, <2>3, <2>4, <2>5, <2>6 DEF Next
  <1>2. ManagerInv => SavesGoToTheScenarioShown
    BY DEF ManagerInv, ManagerShows, Completes, SavesGoToTheScenarioShown
  <1>3. Init => ManagerInv
    BY Begins
  <1> QED BY <1>1, <1>2, <1>3, PTL DEF Spec

=============================================================================
