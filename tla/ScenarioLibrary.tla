--------------------------- MODULE ScenarioLibrary ---------------------------
(***************************************************************************)
(* The scenario files of one user: saving, updating, renaming and deleting *)
(* custom scenarios with evaluation/scenario_builder.py, from the handlers *)
(* of api/app.py, while scenario lists and suites read them.               *)
(*                                                                         *)
(* No operation takes a lock, and a file is overwritten in place: open()   *)
(* truncates it and close() writes it.  Data abstractions: an id is one    *)
(* that _safe_scenario_id has normalised; a text is known by its version   *)
(* and fits the buffer of one write; of two texts written to one file the  *)
(* longer leaves its tail, which "mixed" stands for.  A refused call (the  *)
(* id exists, or does not) changes nothing and is a stuttering step.       *)
(***************************************************************************)
EXTENDS Naturals, FiniteSets

CONSTANTS
    Clients,     \* threads of the API that handle a POST, PUT or DELETE
    Readers,     \* threads that list the scenarios or load them for a suite
    Ids,         \* scenario ids
    BuiltIns,    \* those that configs/scenarios has a file for
    Versions,    \* the texts clients write
    MaxFailures, \* bound on calls that raise or die with the server
    Absent, BuiltIn, NoVersion, NoCall

ASSUME BuiltInsAssumption == BuiltIns \subseteq Ids
ASSUME FailuresAssumption == MaxFailures \in Nat
VARIABLES
    custom,    \* the custom file of each id
    pc,        \* where each client's handler is
    call,      \* what it was called with
    linked,    \* clients whose open file still has the name they opened
    failures,  \* the number of failures so far, bounded by MaxFailures
    issued,    \* history: the versions in use
    serial,    \* history: the files that the completed calls leave one by one
    tainted,   \* history: ids with overlapping or failed calls since
    rpc,       \* where each reader is
    kind,      \* "suite" or "list"
    todo,      \* the files it has found and not yet loaded
    loaded,    \* what it has loaded for each id
    touched    \* history: ids whose file changed since it found the files

historyVars == <<issued, serial, tainted>>
clientVars == <<pc, call, linked>>
readVars == <<rpc, kind, todo, loaded>>
vars == <<custom, clientVars, failures, historyVars, readVars, touched>>

Damaged == {"truncated", "mixed"}
Contents == Versions \cup Damaged \cup {Absent}
Calls == [kind : {"create", "replace", "update", "delete"},
          id : Ids, old : Ids, version : Versions \cup {NoVersion}]

ASSUME NoneAssumption ==
    /\ Absent # BuiltIn /\ {Absent, BuiltIn} \cap (Versions \cup Damaged) = {}
    /\ NoVersion \notin Versions /\ Versions \cap Damaged = {}
    /\ \A k \in Calls : k # NoCall

Names(k) == IF k = NoCall THEN {} ELSE {k.id, k.old}

TypeOK ==
    /\ custom \in [Ids -> Contents]
    /\ pc \in [Clients -> {"idle", "opening", "opened", "written", "unlinking"}]
    /\ call \in [Clients -> Calls \cup {NoCall}]
    /\ linked \in SUBSET Clients
    /\ failures \in 0..MaxFailures
    /\ issued \in SUBSET Versions
    /\ serial \in [Ids -> Contents]
    /\ tainted \in SUBSET Ids
    /\ rpc \in [Readers -> {"idle", "loading", "done", "failed"}]
    /\ kind \in [Readers -> {"suite", "list"}]
    /\ todo \in [Readers -> SUBSET (Ids \X {"custom", "built_in"})]
    /\ loaded \in [Readers -> [Ids -> Contents \cup {BuiltIn}]]
    /\ touched \in [Readers -> SUBSET Ids]

Init ==
    /\ custom = [id \in Ids |-> Absent]
    /\ pc = [c \in Clients |-> "idle"]
    /\ call = [c \in Clients |-> NoCall]
    /\ linked = {}
    /\ failures = 0
    /\ issued = {}
    /\ serial = custom
    /\ tainted = {}
    /\ rpc = [r \in Readers |-> "idle"]
    /\ kind = [r \in Readers |-> "list"]
    /\ todo = [r \in Readers |-> {}]
    /\ loaded = [r \in Readers |-> [id \in Ids |-> Absent]]
    /\ touched = [r \in Readers |-> {}]

-----------------------------------------------------------------------------
\* Calls.

\* A call is serial if no other call that is under way names its ids; what damage
\* earlier calls did to them is then the state it starts from.
Begin(c, k, step) ==
    LET others == UNION {Names(call[d]) : d \in Clients \ {c}}
    IN  /\ pc[c] = "idle"
        /\ pc' = [pc EXCEPT ![c] = step]
        /\ call' = [call EXCEPT ![c] = k]
        /\ tainted' = (tainted \ Names(k)) \cup (Names(k) \cap others)
        /\ serial' = [id \in Ids |->
              IF id \in (tainted \cap Names(k)) \ others THEN custom[id] ELSE serial[id]]
        /\ issued' = issued \cup ({k.version} \ {NoVersion})
        /\ UNCHANGED <<custom, linked, failures, readVars, touched>>

\* What a call leaves when calls come one by one.
After(k) ==
    IF k.kind = "delete" THEN [serial EXCEPT ![k.id] = Absent]
    ELSE [serial EXCEPT ![k.old] = Absent, ![k.id] = k.version]

Return(c) ==
    /\ pc' = [pc EXCEPT ![c] = "idle"]
    /\ call' = [call EXCEPT ![c] = NoCall]
    /\ serial' = After(call[c])
    /\ UNCHANGED <<failures, issued, tainted, readVars>>

\* save_scenario without overwrite tests that there is no such file.
Create(c) ==
    \E id \in Ids, v \in Versions \ issued :
        /\ custom[id] = Absent
        /\ Begin(c, [kind |-> "create", id |-> id, old |-> id, version |-> v], "opening")

\* save_scenario with overwrite.
Replace(c) ==
    \E id \in Ids, v \in Versions \ issued :
        Begin(c, [kind |-> "replace", id |-> id, old |-> id, version |-> v], "opening")

\* update_scenario, called with create_if_missing: whether the file of the old id
\* exists does not matter.
Update(c) ==
    \E old, id \in Ids, v \in Versions \ issued :
        /\ id = old \/ custom[id] = Absent
        /\ Begin(c, [kind |-> "update", id |-> id, old |-> old, version |-> v], "opening")

Delete(c) ==
    \E id \in Ids :
        /\ custom[id] # Absent
        /\ Begin(c, [kind |-> "delete", id |-> id, old |-> id, version |-> NoVersion],
                 "unlinking")

-----------------------------------------------------------------------------
\* Writing and unlinking.

SetFile(id, content) ==
    /\ custom' = [custom EXCEPT ![id] = content]
    /\ touched' = [r \in Readers |->
          IF rpc[r] # "idle" /\ content # custom[id] THEN touched[r] \cup {id}
                                                     ELSE touched[r]]

\* Mutant: the handler answers before it closes the file.
OpenOnly(c) ==
    /\ pc[c] = "opening"
    /\ SetFile(call[c].id, "truncated")
    /\ Return(c)
    /\ UNCHANGED linked

\* Mutant: a rename removes the old file first.
OpenForOld(c) ==
    /\ pc[c] = "opening"
    /\ pc' = [pc EXCEPT ![c] = "opened"]
    /\ linked' = linked \cup {c}
    /\ custom' = [custom EXCEPT ![call[c].old] = Absent, ![call[c].id] = "truncated"]
    /\ UNCHANGED <<call, failures, historyVars, readVars, touched>>

\* write_text opens the file, which creates or truncates it.
Open(c) ==
    /\ pc[c] = "opening"
    /\ pc' = [pc EXCEPT ![c] = "opened"]
    /\ linked' = linked \cup {c}
    /\ SetFile(call[c].id, "truncated")
    /\ UNCHANGED <<call, failures, historyVars, readVars>>

\* Mutant: an update removes the file of its old id also when it keeps the id.
AnyUpdate(k) == k.kind = "update"

IsRename(k) == k.kind = "update" /\ k.id # k.old

\* Mutant: the text is lost on its way.
WrittenBlank(c) == {NoVersion}

\* What a write makes of the file at the path: nothing if the file that was
\* opened is no longer there.
WrittenTo(c) ==
    LET now == custom[call[c].id]
    IN  IF c \notin linked THEN {now}
        ELSE IF now = "truncated" THEN {call[c].version}
        ELSE {call[c].version, "mixed"}

\* write_text writes and closes the file; that completes all calls but a rename.
Write(c) ==
    /\ pc[c] = "opened"
    /\ \E content \in WrittenTo(c) : SetFile(call[c].id, content)
    /\ linked' = linked \ {c}
    /\ IF IsRename(call[c])
       THEN /\ pc' = [pc EXCEPT ![c] = "written"]
            /\ UNCHANGED <<call, failures, historyVars, readVars>>
       ELSE Return(c)

\* A rename looks for the file of the old id.
FindOld(c) ==
    /\ pc[c] = "written"
    /\ custom[call[c].old] # Absent
    /\ pc' = [pc EXCEPT ![c] = "unlinking"]
    /\ UNCHANGED <<custom, call, linked, failures, historyVars, readVars, touched>>

MissOld(c) ==
    /\ pc[c] = "written"
    /\ custom[call[c].old] = Absent
    /\ Return(c)
    /\ UNCHANGED <<custom, linked, touched>>

\* Files that are open under the name lose it.
Unlink(c) ==
    LET old == call[c].old
    IN  /\ pc[c] = "unlinking"
        /\ custom[old] # Absent
        /\ SetFile(old, Absent)
        /\ linked' = {d \in linked : call[d].id # old}
        /\ Return(c)

GiveUp(c) ==
    /\ tainted' = tainted \cup Names(call[c])
    /\ linked' = linked \ {c}
    /\ pc' = [pc EXCEPT ![c] = "idle"]
    /\ call' = [call EXCEPT ![c] = NoCall]
    /\ UNCHANGED <<custom, issued, serial, readVars, touched>>

\* The file has gone since the test for it: unlink() raises FileNotFoundError,
\* which no handler expects.
UnlinkMissing(c) ==
    /\ pc[c] = "unlinking"
    /\ custom[call[c].old] = Absent
    /\ GiveUp(c)
    /\ UNCHANGED failures

\* A system call raises, or the server dies under the call.
Fail(c) ==
    /\ failures < MaxFailures
    /\ failures' = failures + 1
    /\ pc[c] # "idle"
    /\ GiveUp(c)

-----------------------------------------------------------------------------
\* Reading.

\* Mutant: the built-in file hides the custom file.
BuiltInFirst ==
    (BuiltIns \X {"built_in"})
        \cup ({id \in Ids \ BuiltIns : custom[id] # Absent} \X {"custom"})

\* _scenario_files: a custom file hides the built-in file of its id.
Files ==
    LET overlay == {id \in Ids : custom[id] # Absent}
    IN  (overlay \X {"custom"}) \cup ((BuiltIns \ overlay) \X {"built_in"})

FindFiles(r) ==
    /\ rpc[r] = "idle"
    /\ rpc' = [rpc EXCEPT ![r] = "loading"]
    /\ \E k \in {"suite", "list"} : kind' = [kind EXCEPT ![r] = k]
    /\ todo' = [todo EXCEPT ![r] = Files]
    /\ UNCHANGED <<custom, clientVars, failures, historyVars, loaded, touched>>

ContentOf(f) == IF f[2] = "built_in" THEN BuiltIn ELSE custom[f[1]]

\* Files are loaded one by one, here in any order.  A mix of two texts may or may
\* not parse.
LoadFile(r) ==
    \E f \in todo[r] :
        /\ ContentOf(f) \notin {Absent, "truncated"}
        /\ todo' = [todo EXCEPT ![r] = @ \ {f}]
        /\ loaded' = [loaded EXCEPT ![r][f[1]] = ContentOf(f)]
        /\ UNCHANGED <<custom, clientVars, failures, historyVars, rpc, kind, touched>>

\* list_scenarios puts a file that does not parse among the parse_errors.
SkipFile(r) ==
    \E f \in todo[r] :
        /\ kind[r] = "list"
        /\ ContentOf(f) \in Damaged
        /\ todo' = [todo EXCEPT ![r] = @ \ {f}]
        /\ UNCHANGED <<custom, clientVars, failures, historyVars, rpc, kind, loaded, touched>>

\* A suite does not run if one of its files does not parse, and neither survives
\* a file that has gone.
FailLoad(r) ==
    \E f \in todo[r] :
        /\ ContentOf(f) \in {Absent} \cup (IF kind[r] = "suite" THEN Damaged ELSE {})
        /\ rpc' = [rpc EXCEPT ![r] = "failed"]
        /\ todo' = [todo EXCEPT ![r] = {}]
        /\ UNCHANGED <<custom, clientVars, failures, historyVars, kind, loaded, touched>>

FinishLoad(r) ==
    /\ rpc[r] = "loading" /\ todo[r] = {}
    /\ rpc' = [rpc EXCEPT ![r] = "done"]
    /\ UNCHANGED <<custom, clientVars, failures, historyVars, kind, todo, loaded, touched>>

Answer(r) ==
    /\ rpc[r] \in {"done", "failed"}
    /\ rpc' = [rpc EXCEPT ![r] = "idle"]
    /\ kind' = [kind EXCEPT ![r] = "list"]
    /\ todo' = [todo EXCEPT ![r] = {}]
    /\ loaded' = [loaded EXCEPT ![r] = [id \in Ids |-> Absent]]
    /\ touched' = [touched EXCEPT ![r] = {}]
    /\ UNCHANGED <<custom, clientVars, failures, historyVars>>

-----------------------------------------------------------------------------

Client(c) ==
    \/ Create(c) \/ Replace(c) \/ Update(c) \/ Delete(c)
    \/ Open(c) \/ Write(c) \/ FindOld(c) \/ MissOld(c)
    \/ Unlink(c) \/ UnlinkMissing(c) \/ Fail(c)

Reader(r) ==
    FindFiles(r) \/ LoadFile(r) \/ SkipFile(r) \/ FailLoad(r) \/ FinishLoad(r) \/ Answer(r)

Next == (\E c \in Clients : Client(c)) \/ (\E r \in Readers : Reader(r))

Spec == Init /\ [][Next]_vars

-----------------------------------------------------------------------------

Busy(id) == \E c \in Clients : id \in Names(call[c])

\* Saves, renames and deletes of scenario_builder.py need no lock as long as no two
\* of them name the same id at a time: the custom file of an id that no call names
\* is then what the completed calls leave one after the other, whatever was going
\* on with other ids, and whatever failed before.
SerialUnlessOverlapping ==
    \A id \in Ids \ tainted : ~Busy(id) => custom[id] = serial[id]

\* A truncated file, which stops every suite run, is being written or is left by a
\* failed write, never by calls that overlap, rename over it or delete it.
TruncatedFilesAreExplained ==
    LET truncated == {id \in Ids : custom[id] = "truncated"}
        opened == {call[c].id : c \in linked}
    IN  Cardinality(truncated \ opened) <= failures

InEffect(id) ==
    IF custom[id] # Absent THEN custom[id]
    ELSE IF id \in BuiltIns THEN BuiltIn ELSE Absent

\* What a list or a suite has loaded for ids whose files did not change meanwhile
\* is what is in effect, and a run is refused only because of a file that changed
\* meanwhile or is damaged: edits of some scenarios do not disturb the others.
UndisturbedReadIsExact ==
    \A r \in Readers :
        /\ rpc[r] = "done" =>
              \A id \in Ids \ touched[r] :
                  loaded[r][id] = InEffect(id) \/ custom[id] \in Damaged
        /\ rpc[r] = "failed" =>
              touched[r] # {} \/ \E id \in Ids : custom[id] \in Damaged

\* A file is removed by a delete, or by a rename whose new file is in place with
\* the text that was sent: wherever a rename fails, the scenario is still there
\* under one of its ids.  Only another call that names the new id can undo that.
RenameNeverLosesTheScenario ==
    [][\A id \in Ids : custom[id] # Absent /\ custom'[id] = Absent =>
          \E c \in Clients :
              /\ call[c] # NoCall /\ call[c].old = id
              /\ \/ call[c].kind = "delete"
                 \/ call[c].id # id /\ custom[call[c].id] = call[c].version
                 \/ call[c].id \in tainted]_vars

\* tests/unit/test_scenario_builder.py:63, requires_overwrite_for_existing_yaml: a
\* text that is in place gives way only to a call that asks for it, a save with
\* overwrite or an update of that id.
ReplacedOnlyOnRequest ==
    [][\A id \in Ids : custom[id] \in Versions /\ custom'[id] \notin {custom[id], Absent} =>
          \E c \in Clients :
              /\ call[c] # NoCall /\ call[c].id = id
              /\ call[c].kind = "replace" \/ (call[c].kind = "update" /\ call[c].old = id)]_vars

=============================================================================
