------------------------------ MODULE Dashboard ------------------------------
(***************************************************************************)
(* One browser tab of the dashboard, dashboard/static/dashboard.js: the    *)
(* Run History panel (details and comparison) and the Scenario Manager,    *)
(* with the buttons that setActionBusy disables.                           *)
(*                                                                         *)
(* JavaScript runs one handler at a time up to its next await, so an       *)
(* action here is a click and all that it does before it awaits, or the    *)
(* answer to a request and all that follows it.  The answers arrive in any *)
(* order.  Of the server the scenario files of the user are kept, and each *)
(* request on them takes effect at once (ScenarioLibrary says how requests *)
(* overlap there); the tab is the only one that writes them.  Which runs   *)
(* the history lists, and whether a detail can be had, is decided when the *)
(* answer arrives: runs are recorded and pruned meanwhile.                 *)
(*                                                                         *)
(* Left out: what is drawn from reports (tables, charts, run results), the *)
(* mark on the selected row, tabs, search and "select all" in the scenario *)
(* library, the text typed in the form but for its id, the API token.      *)
(***************************************************************************)
EXTENDS Sequences, FiniteSets, Naturals, SequencesExt

CONSTANTS
    Slots,        \* handlers that may await at the same time: a bound
    RunIds,       \* runs in the history
    ScenarioIds,
    BuiltIns,     \* scenarios of configs/scenarios, which nothing deletes
    DefaultId,    \* the id of DEFAULT_SCENARIO_FORM
    MaxClicks,    \* bound on what the user does
    None

ASSUME BuiltInsAssumption == BuiltIns \subseteq ScenarioIds /\ DefaultId \in ScenarioIds
ASSUME ClicksAssumption == MaxClicks \in Nat
ASSUME DistinctAssumption == RunIds \cap ScenarioIds = {} /\ None \notin RunIds \cup ScenarioIds

VARIABLES
    records,    \* ids of historyRecords
    matching,   \* runs that the history filters let through
    rows,       \* runs with a row in the history table
    selected,   \* selectedHistoryRunId
    payload,    \* the run of selectedHistoryDetailPayload
    detail,     \* the detail row in the table
    compare,    \* historyCompareIds
    cache,      \* keys of historyDetailCache
    comparison, \* what the comparison panel shows
    library,    \* ids of scenarioLibraryRecords
    ticked,     \* selectedScenarioIds
    editing,    \* selectedScenarioId
    base,       \* the scenario of selectedScenarioSnapshot
    form,       \* the builder form: the scenario whose text it holds, and its id field
    title,      \* the scenario that the manager says it edits
    enabled,    \* the groups of buttons that can be clicked
    custom,     \* on the server: ids with a custom scenario file
    task,       \* what each handler awaits
    clicks,     \* the number of clicks so far, bounded by MaxClicks
    crossed     \* history: the manager had gone on when the last save was answered

tableVars   == <<records, matching, rows, selected, payload, detail>>
compareVars == <<compare, cache, comparison>>
historyVars == <<tableVars, compareVars>>
editVars    == <<editing, base, form, title, crossed>>
managerVars == <<library, ticked, editVars>>
vars == <<historyVars, managerVars, enabled, custom, task, clicks>>

Buttons == {"act", "duplicate", "operate"}
Kinds   == {"open", "refresh", "run", "preview", "save", "load", "delete", "detail", "compare"}
Panels  == {"notice", "loading", "result", "error"}

Idle == [kind |-> "none", at |-> "idle", id |-> None, target |-> None, of |-> None,
         ids |-> <<>>, todo |-> {}, all |-> {}, run |-> FALSE, touched |-> FALSE]

Tasks == [kind : Kinds \cup {"none"}, at : {"idle", "sent", "served", "refused", "loading", "listed"},
          id : RunIds \cup ScenarioIds \cup {None}, target : ScenarioIds \cup {None},
          of : ScenarioIds \cup {None}, ids : Seq(RunIds),
          todo : SUBSET (RunIds \cup ScenarioIds), all : SUBSET ScenarioIds,
          run : BOOLEAN, touched : BOOLEAN]

TypeOK ==
    /\ records \in SUBSET RunIds /\ matching \in SUBSET RunIds /\ rows \in SUBSET RunIds
    /\ selected \in RunIds \cup {None} /\ payload \in RunIds \cup {None}
    /\ detail \in [id : RunIds, late : BOOLEAN] \cup {None}
    /\ compare \in Seq(RunIds) /\ cache \in SUBSET RunIds
    /\ comparison \in [shows : Panels, ids : Seq(RunIds)]
    /\ library \in SUBSET ScenarioIds /\ ticked \in SUBSET ScenarioIds
    /\ editing \in ScenarioIds \cup {None} /\ base \in ScenarioIds \cup {None}
    /\ form \in [of : ScenarioIds \cup {None}, id : ScenarioIds]
    /\ title \in ScenarioIds \cup {None}
    /\ enabled \in SUBSET Buttons
    /\ custom \in SUBSET ScenarioIds
    /\ task \in [Slots -> Tasks]
    /\ clicks \in 0..MaxClicks
    /\ crossed \in BOOLEAN

Draft == [of |-> None, id |-> DefaultId]

\* The page is loaded and loadDashboard under way.
Init ==
    /\ records = {} /\ matching = RunIds /\ rows = {}
    /\ selected = None /\ payload = None /\ detail = None
    /\ compare = <<>> /\ cache = {} /\ comparison = [shows |-> "notice", ids |-> <<>>]
    /\ library = {} /\ ticked = {}
    /\ editing = None /\ base = None /\ form = Draft /\ title = None
    /\ enabled = {"act"}
    /\ custom \in SUBSET ScenarioIds
    /\ \E s \in Slots : task = [t \in Slots |->
          IF t = s THEN [Idle EXCEPT !.kind = "open", !.at = "loading"] ELSE Idle]
    /\ clicks = 0 /\ crossed = FALSE

Click == clicks < MaxClicks /\ clicks' = clicks + 1

Put(tasks, t, new) == [s \in Slots |-> IF s = t THEN new ELSE tasks[s]]

Await(t, new, tasks) == tasks[t] = Idle /\ task' = Put(tasks, t, new)

Awaits(t, kind, at) == task[t].kind = kind /\ task[t].at = at

Touched(kind) == [t \in Slots |->
    IF task[t].kind = kind THEN [task[t] EXCEPT !.touched = TRUE] ELSE task[t]]

-----------------------------------------------------------------------------
(***************************************************************************)
(* The comparison panel.                                                   *)
(***************************************************************************)

\* Details that are cached are there before the next event.
RenderComparison(ids, tasks) ==
    IF Len(ids) < 2
    THEN comparison' = [shows |-> "notice", ids |-> <<>>] /\ task' = tasks
    ELSE IF ToSet(ids) \subseteq cache
    THEN comparison' = [shows |-> "result", ids |-> ids] /\ task' = tasks
    ELSE /\ comparison' = [shows |-> "loading", ids |-> ids]
         /\ \E t \in Slots : Await(t, [Idle EXCEPT !.kind = "compare", !.at = "sent",
                                 !.ids = ids, !.todo = ToSet(ids) \ cache], tasks)

ToggleCompare(r) ==
    /\ Click /\ r \in rows
    /\ LET others == SelectSeq(compare, LAMBDA x : x # r)
           ids == IF r \in ToSet(compare) THEN others ELSE Append(others, r)
       IN  /\ compare' = IF Len(ids) > 2 THEN Tail(ids) ELSE ids
           /\ RenderComparison(compare', task)
    /\ UNCHANGED <<tableVars, cache, managerVars, enabled, custom>>

\* A detail to compare is there; with the last one the comparison is drawn, if the
\* same runs are still compared.
CompareArrives(t, r) ==
    /\ Awaits(t, "compare", "sent") \/ Awaits(t, "compare", "refused")
    /\ r \in task[t].todo
    /\ cache' = cache \cup {r}
    /\ LET last == task[t].todo = {r}
       IN  /\ task' = [task EXCEPT ![t] = IF last THEN Idle
                                   ELSE [task[t] EXCEPT !.todo = @ \ {r}]]
           /\ comparison' = IF last /\ task[t].at = "sent" /\ task[t].ids = compare
                            THEN [shows |-> "result", ids |-> compare] ELSE comparison
    /\ UNCHANGED <<tableVars, compare, managerVars, enabled, custom, clicks>>

\* The first error is shown, whichever runs are compared by now.
CompareFails(t, r) ==
    /\ Awaits(t, "compare", "sent") \/ Awaits(t, "compare", "refused")
    /\ r \in task[t].todo
    /\ task' = [task EXCEPT ![t] = IF task[t].todo = {r} THEN Idle
                                   ELSE [task[t] EXCEPT !.todo = @ \ {r}, !.at = "refused"]]
    /\ comparison' = IF task[t].at = "sent" THEN [shows |-> "error", ids |-> task[t].ids]
                     ELSE comparison
    /\ UNCHANGED <<tableVars, compare, cache, managerVars, enabled, custom, clicks>>

-----------------------------------------------------------------------------
(***************************************************************************)
(* The history table and its detail row.                                   *)
(***************************************************************************)

\* setHistoryDetailRow: a detail row hangs below the row of its run, if there is one.
DetailRow(r, late) == IF r \in rows THEN [id |-> r, late |-> late] ELSE None

CloseDetail == selected' = None /\ payload' = None /\ detail' = None

\* A click on the row of the run whose detail is open closes it.
ToggleDetail(r) ==
    /\ Click /\ r \in rows
    /\ IF selected = r /\ detail # None /\ detail.id = r
       THEN CloseDetail /\ task' = Touched("detail")
       ELSE /\ selected' = r /\ payload' = None /\ detail' = DetailRow(r, FALSE)
            /\ \E t \in Slots : Await(t, [Idle EXCEPT !.kind = "detail", !.at = "sent", !.id = r],
                                      Touched("detail"))
    /\ UNCHANGED <<records, matching, rows, compareVars, managerVars, enabled, custom>>

\* The answer is shown, whatever was clicked since; an error leaves no payload.
DetailArrives(t) ==
    /\ Awaits(t, "detail", "sent")
    /\ payload' \in {task[t].id, None}
    /\ detail' = DetailRow(task[t].id, task[t].touched)
    /\ task' = [task EXCEPT ![t] = Idle]
    /\ UNCHANGED <<records, matching, rows, selected, compareVars, managerVars, enabled,
                   custom, clicks>>

\* Mutant: a detail stays open although its run has no row any more.
RenderHistoryKeepingDetail(listed, filter, tasks) ==
    /\ records' = listed
    /\ rows' = listed \cap filter
    /\ compare' = SelectSeq(compare, LAMBDA r : r \in listed)
    /\ detail' = IF payload # None /\ payload = selected
                 THEN [id |-> selected, late |-> FALSE] ELSE None
    /\ UNCHANGED <<selected, payload>>
    /\ RenderComparison(compare', tasks)

\* renderHistory draws the table anew, and the detail below its row.
RenderHistory(listed, filter, tasks) ==
    /\ records' = listed
    /\ rows' = listed \cap filter
    /\ compare' = SelectSeq(compare, LAMBDA r : r \in listed)
    /\ LET gone == rows' = {} \/ (selected # None /\ selected \notin rows')
       IN  /\ IF gone THEN CloseDetail
              ELSE /\ detail' = IF payload # None /\ payload = selected
                                THEN [id |-> selected, late |-> FALSE] ELSE None
                   /\ UNCHANGED <<selected, payload>>
           /\ RenderComparison(compare', IF gone
                 THEN [t \in Slots |-> IF tasks[t].kind = "detail"
                                       THEN [tasks[t] EXCEPT !.touched = TRUE] ELSE tasks[t]]
                 ELSE tasks)

FilterHistory(filter) ==
    /\ Click
    /\ matching' = filter
    /\ RenderHistory(records, filter, task)
    /\ UNCHANGED <<cache, managerVars, enabled, custom>>

\* renderFatalError puts one line in place of the table.
RenderFatalError ==
    /\ rows' = {} /\ detail' = None
    /\ UNCHANGED <<records, selected, payload, compare, comparison>>

-----------------------------------------------------------------------------
(***************************************************************************)
(* The scenario manager.                                                   *)
(***************************************************************************)

OperationIds(ids, edited) == IF ids # {} THEN ids ELSE {edited} \ {None}

Operable(ids, edited) == IF OperationIds(ids, edited) # {} THEN {"operate"} ELSE {}
Copyable(b) == IF b # None THEN {"duplicate"} ELSE {}

\* setActionBusy(false): whichever handlers still await.
Ready(ids, edited, b) == {"act"} \cup Operable(ids, edited) \cup Copyable(b)

\* setScenarioManagerMode enables two groups of buttons by the selection alone.
Moded(ids, edited, b) == (enabled \cap {"act"}) \cup Operable(ids, edited) \cup Copyable(b)

\* renderScenarioLibrary deselects a scenario that is not listed.
Listed(edited, listed) == edited \in listed \cup {None}

ToggleScenario(s) ==
    /\ Click /\ s \in library
    /\ ticked' = IF s \in ticked THEN ticked \ {s} ELSE ticked \cup {s}
    /\ enabled' = (enabled \ {"operate"}) \cup Operable(ticked', editing)
    /\ UNCHANGED <<historyVars, library, editVars, custom, task>>

TypeId(s) ==
    /\ Click /\ form.id # s
    /\ form' = [form EXCEPT !.id = s]
    /\ UNCHANGED <<historyVars, library, ticked, editing, base, title, crossed, enabled,
                   custom, task>>

NewScenario ==
    /\ Click /\ "act" \in enabled
    /\ editing' = None /\ base' = None /\ form' = Draft /\ title' = None /\ crossed' = FALSE
    /\ enabled' = Moded(ticked, None, None)
    /\ task' = Touched("save")
    /\ UNCHANGED <<historyVars, library, ticked, custom>>

\* The copy gets an id that the library does not list.
DuplicateScenario ==
    /\ Click /\ "duplicate" \in enabled /\ base # None
    /\ \E s \in ScenarioIds \ library : form' = [of |-> None, id |-> s]
    /\ editing' = None /\ title' = None /\ crossed' = FALSE
    /\ enabled' = Moded(ticked, None, base)
    /\ task' = Touched("save")
    /\ UNCHANGED <<historyVars, library, ticked, base, custom>>

\* A click in the library loads a scenario, also while other handlers await.
LoadScenario(s) ==
    /\ Click /\ s \in library
    /\ enabled' = {}
    /\ \E t \in Slots : Await(t, [Idle EXCEPT !.kind = "load", !.at = "sent", !.id = s], task)
    /\ UNCHANGED <<historyVars, managerVars, custom>>

LoadArrives(t) ==
    /\ Awaits(t, "load", "served")
    /\ LET s == task[t].id
           edited == IF Listed(s, library) THEN s ELSE None
       IN  /\ editing' = edited /\ base' = edited /\ title' = edited
           /\ form' = [of |-> s, id |-> s]
           /\ ticked' = ticked \cap library
           /\ enabled' = Ready(ticked', edited, edited)
    /\ crossed' = FALSE
    /\ task' = Put(Touched("save"), t, Idle)
    /\ UNCHANGED <<historyVars, library, custom, clicks>>

\* The form is read, and the id it is saved to chosen, when the button is clicked.
SaveScenario(run) ==
    /\ Click /\ "act" \in enabled
    /\ enabled' = {}
    /\ \E t \in Slots : Await(t, [Idle EXCEPT !.kind = "save", !.at = "sent", !.id = form.id,
                           !.target = editing, !.of = form.of, !.run = run], task)
    /\ UNCHANGED <<historyVars, managerVars, custom>>

\* Mutant: the form is taken for the scenario saved, although it was filled since.
SaveArrivesUnnoticed(t) ==
    /\ Awaits(t, "save", "served")
    /\ editing' = task[t].id /\ base' = task[t].id
    /\ UNCHANGED <<form, crossed>>
    /\ task' = Put(Touched("save"), t, [task[t] EXCEPT !.at = "loading"])
    /\ UNCHANGED <<historyVars, library, ticked, title, enabled, custom, clicks>>

\* The scenario saved becomes the one edited; the form holds its text unless it
\* was filled with another since.
SaveArrives(t) ==
    /\ Awaits(t, "save", "served")
    /\ editing' = task[t].id /\ base' = task[t].id
    /\ form' = IF task[t].touched THEN form ELSE [form EXCEPT !.of = task[t].id]
    /\ crossed' = task[t].touched
    /\ task' = Put(Touched("save"), t, [task[t] EXCEPT !.at = "loading"])
    /\ UNCHANGED <<historyVars, library, ticked, title, enabled, custom, clicks>>

DeleteScenarios ==
    /\ Click /\ "operate" \in enabled
    /\ LET ids == OperationIds(ticked, editing)
       IN  /\ ids # {}
           /\ \E t \in Slots : Await(t, [Idle EXCEPT !.kind = "delete", !.at = "sent",
                                  !.todo = ids, !.all = ids], task)
    /\ enabled' = {}
    /\ UNCHANGED <<historyVars, managerVars, custom>>

\* All are deleted: the form is reset if its scenario is one of them.
DeleteArrives(t) ==
    /\ Awaits(t, "delete", "served")
    /\ ticked' = ticked \ task[t].all
    /\ IF editing \in task[t].all
       THEN /\ editing' = None /\ base' = None /\ form' = Draft /\ title' = None
            /\ crossed' = FALSE
            /\ enabled' = Moded(ticked, None, None)
            /\ task' = Put(Touched("save"), t, [task[t] EXCEPT !.at = "loading"])
       ELSE /\ task' = [task EXCEPT ![t].at = "loading"]
            /\ UNCHANGED <<editVars, enabled>>
    /\ UNCHANGED <<historyVars, library, custom, clicks>>

-----------------------------------------------------------------------------
(***************************************************************************)
(* Other buttons, and how handlers end.                                    *)
(***************************************************************************)

\* runTestLabAction and the batch run of ticked scenarios: a run or several, and
\* then loadDashboard.
StartRun ==
    /\ Click
    /\ "act" \in enabled \/ ("operate" \in enabled /\ Cardinality(ticked) > 1)
    /\ enabled' = {}
    /\ \E t \in Slots : Await(t, [Idle EXCEPT !.kind = "run", !.at = "sent"], task)
    /\ UNCHANGED <<historyVars, managerVars, custom>>

RunArrives(t) ==
    /\ Awaits(t, "run", "sent")
    /\ task' = [task EXCEPT ![t].at = "loading"]
    /\ UNCHANGED <<historyVars, managerVars, enabled, custom, clicks>>

\* One scenario is run for its preview.
RunSelected ==
    /\ Click
    /\ "operate" \in enabled /\ Cardinality(OperationIds(ticked, editing)) = 1
    /\ enabled' = {}
    /\ \E t \in Slots : Await(t, [Idle EXCEPT !.kind = "preview", !.at = "sent"], task)
    /\ UNCHANGED <<historyVars, managerVars, custom>>

RefreshArtifacts ==
    /\ Click /\ "act" \in enabled
    /\ enabled' = {}
    /\ \E t \in Slots : Await(t, [Idle EXCEPT !.kind = "refresh", !.at = "loading"], task)
    /\ UNCHANGED <<historyVars, managerVars, custom>>

\* Another choice of what to test calls setActionBusy(false).
SelectTest ==
    /\ Click
    /\ enabled' = Ready(ticked, editing, base)
    /\ UNCHANGED <<historyVars, managerVars, custom, task>>

\* A request is refused or its answer lost, or a preview has run: the handler ends.
Ends(t) ==
    /\ task[t].kind \in {"run", "preview", "save", "load", "delete"}
    /\ task[t].at \in {"sent", "served", "refused"}
    /\ task' = [task EXCEPT ![t] = Idle]
    /\ enabled' = Ready(ticked, editing, base)
    /\ UNCHANGED <<historyVars, managerVars, custom, clicks>>

\* What awaited loadDashboard goes on: a save names its scenario in the title, and
\* may run it; the others release the buttons.
GoesOn(t, edited, b, titled, shown) ==
    /\ editing' = edited /\ base' = b
    /\ IF task[t].kind = "save"
       THEN title' = task[t].id /\ crossed' = (crossed \/ task[t].touched \/ edited # editing)
       ELSE title' = titled /\ UNCHANGED crossed
    /\ enabled' = IF task[t].kind = "open" THEN shown
                  ELSE IF task[t].run THEN {} ELSE Ready(ticked', edited, b)

Finished(t, tasks) ==
    Put(tasks, t, IF task[t].run THEN [Idle EXCEPT !.kind = "preview", !.at = "sent"]
                  ELSE Idle)

\* loadDashboard has all its answers: the library and the history are drawn anew.
DashboardArrives(t) ==
    /\ task[t].at = "listed"
    /\ LET dropped == ~Listed(editing, task[t].all)
       IN  /\ library' = task[t].all
           /\ ticked' = ticked \cap task[t].all
           /\ IF dropped
              THEN GoesOn(t, None, None, None, Moded(ticked', None, None))
              ELSE GoesOn(t, editing, base, title,
                          (enabled \ {"operate"}) \cup Operable(ticked', editing))
           /\ \E listed \in SUBSET RunIds :
                 RenderHistory(listed, matching,
                               Finished(t, IF dropped THEN Touched("save") ELSE task))
    /\ UNCHANGED <<matching, cache, form, custom, clicks>>

\* One of its requests fails.
DashboardFails(t) ==
    /\ task[t].at \in {"loading", "listed"}
    /\ RenderFatalError
    /\ UNCHANGED <<matching, cache, library, ticked, form, custom, clicks>>
    /\ GoesOn(t, editing, base, title, enabled)
    /\ task' = Finished(t, task)

-----------------------------------------------------------------------------
(***************************************************************************)
(* The server: the scenario files of the user.                             *)
(***************************************************************************)

\* POST refuses an id that exists; PUT renames, and refuses to an id that exists.
ServeSave(t) ==
    /\ Awaits(t, "save", "sent")
    /\ LET old == task[t].target
           new == task[t].id
       IN  IF new # old /\ new \in custom
           THEN task' = [task EXCEPT ![t].at = "refused"] /\ UNCHANGED custom
           ELSE /\ task' = [task EXCEPT ![t].at = "served"]
                /\ custom' = (custom \ {old}) \cup {new}
    /\ UNCHANGED <<historyVars, managerVars, enabled, clicks>>

ServeLoad(t) ==
    /\ Awaits(t, "load", "sent")
    /\ task' = [task EXCEPT ![t].at =
                   IF task[t].id \in custom \cup BuiltIns THEN "served" ELSE "refused"]
    /\ UNCHANGED <<historyVars, managerVars, enabled, custom, clicks>>

\* The ids are deleted one request after the other, up to one that is refused.
ServeDelete(t) ==
    /\ Awaits(t, "delete", "sent")
    /\ \E s \in task[t].todo :
          IF s \in custom
          THEN /\ custom' = custom \ {s}
               /\ task' = [task EXCEPT ![t].todo = @ \ {s},
                              ![t].at = IF task[t].todo = {s} THEN "served" ELSE "sent"]
          ELSE task' = [task EXCEPT ![t].at = "refused"] /\ UNCHANGED custom
    /\ UNCHANGED <<historyVars, managerVars, enabled, clicks>>

ServeList(t) ==
    /\ task[t].at = "loading"
    /\ task' = [task EXCEPT ![t].at = "listed", ![t].all = custom \cup BuiltIns]
    /\ UNCHANGED <<historyVars, managerVars, enabled, custom, clicks>>

-----------------------------------------------------------------------------

HistoryClick ==
    \/ \E r \in RunIds : ToggleCompare(r) \/ ToggleDetail(r)
    \/ \E filter \in SUBSET RunIds : FilterHistory(filter)

ManagerClick ==
    \/ \E s \in ScenarioIds : ToggleScenario(s) \/ TypeId(s) \/ LoadScenario(s)
    \/ \E run \in BOOLEAN : SaveScenario(run)
    \/ NewScenario \/ DuplicateScenario \/ DeleteScenarios

OtherClick == StartRun \/ RunSelected \/ RefreshArtifacts \/ SelectTest

Answer(t) ==
    \/ \E r \in RunIds : CompareArrives(t, r) \/ CompareFails(t, r)
    \/ DetailArrives(t) \/ LoadArrives(t) \/ SaveArrives(t) \/ DeleteArrives(t)
    \/ RunArrives(t) \/ Ends(t) \/ DashboardArrives(t) \/ DashboardFails(t)

Serve(t) == ServeSave(t) \/ ServeLoad(t) \/ ServeDelete(t) \/ ServeList(t)

Next ==
    \/ HistoryClick \/ ManagerClick \/ OtherClick
    \/ \E t \in Slots : Answer(t) \/ Serve(t)

Spec == Init /\ [][Next]_vars

-----------------------------------------------------------------------------
(***************************************************************************)
(* Properties.                                                             *)
(***************************************************************************)

\* The detail row is that of the selected run, unless another run was selected or
\* the row closed while its answer was under way (loadHistoryDetail does not look);
\* and it hangs below a row of the table.  A comparison shown is of the runs
\* compared now, and a panel that says it is loading has a request under way that
\* will end it.
HistoryPanelsFollowTheSelection ==
    /\ detail # None => detail.id \in rows /\ (detail.late \/ detail.id = selected)
    /\ Len(compare) < 2 => comparison.shows \in {"notice", "error"}
    /\ comparison.shows = "result" => comparison.ids = compare
    /\ comparison.shows = "loading" =>
          \E t \in Slots : Awaits(t, "compare", "sent") /\ task[t].ids = compare

\* The scenario that the next save goes to is the one whose text the form holds,
\* and the one named in the title once no save is being completed; unless the
\* manager went on to another scenario while a save was under way, which the
\* buttons do not prevent.
SavesGoToTheScenarioShown ==
    \/ crossed
    \/ /\ editing # None => form.of = editing
       /\ title # editing => \E t \in Slots : task[t].kind = "save" /\ task[t].at # "sent"

=============================================================================
