----------------------- MODULE ScenarioLibrary_proofs -----------------------
(***************************************************************************)
(* Type correctness of ScenarioLibrary, and its properties about edits     *)
(* (SerialUnlessOverlapping, RenameNeverLosesTheScenario), about reads     *)
(* (UndisturbedReadIsExact) and about what failures leave                  *)
(* (TruncatedFilesAreExplained); and which ids ReplacedOnlyOnRequest,      *)
(* which the code violates, does hold of.                                  *)
(***************************************************************************)
EXTENDS ScenarioLibrary, FiniteSetTheorems, TLAPS

-----------------------------------------------------------------------------
\* What a call looks like at each step of its handler.

WellFormed(k) ==
    /\ k \in Calls
    /\ k.kind # "update" => k.id = k.old
    /\ k.kind # "delete" => k.version \in Versions

StepOK(c) ==
    /\ pc[c] = "idle" <=> call[c] = NoCall
    /\ pc[c] # "idle" => WellFormed(call[c])
    /\ pc[c] \in {"opening", "opened"} => call[c].kind # "delete"
    /\ pc[c] = "written" => IsRename(call[c])
    /\ pc[c] = "unlinking" => call[c].kind = "delete" \/ IsRename(call[c])

CallsOK == \A c \in Clients : StepOK(c)

\* A file changes, no other does, and readers at work are told.
LEMMA SetFileEffect ==
    ASSUME TypeOK, NEW id \in Ids, NEW content \in Contents, SetFile(id, content)
    PROVE  /\ custom' \in [Ids -> Contents] /\ touched' \in [Readers -> SUBSET Ids]
           /\ custom'[id] = content
           /\ \A i \in Ids : i # id => custom'[i] = custom[i]
           /\ \A r \in Readers :
                 /\ touched[r] \subseteq touched'[r]
                 /\ rpc[r] # "idle" /\ content # custom[id] => id \in touched'[r]
                 /\ rpc[r] = "idle" => touched'[r] = touched[r]
BY DEF SetFile, TypeOK

\* What a call leaves, applied alone, is a library.
LEMMA AfterIsTyped ==
    ASSUME TypeOK, NEW k, WellFormed(k)
    PROVE  After(k) \in [Ids -> Contents]
BY DEF After, WellFormed, Calls, TypeOK, Contents

\* Every action of a client begins a call, changes what is at the path of one of
\* the ids it names, or ends the call.
LEMMA CallsAreTyped ==
    ASSUME TypeOK, CallsOK, [Next]_vars
    PROVE  TypeOK' /\ CallsOK'
<1>1. CASE UNCHANGED vars
    BY <1>1 DEF TypeOK, CallsOK, StepOK, vars, historyVars, clientVars, readVars
<1>2. ASSUME NEW r \in Readers, Reader(r)
      PROVE  TypeOK' /\ CallsOK'
  <2>1. UNCHANGED <<custom, pc, call, linked, failures, issued, serial, tainted>>
      BY <1>2 DEF Reader, FindFiles, LoadFile, SkipFile, FailLoad, FinishLoad, Answer,
                  clientVars, historyVars
  <2>2. CallsOK'
      BY <2>1 DEF CallsOK, StepOK
  <2>3. rpc' \in [Readers -> {"idle", "loading", "done", "failed"}]
      BY <1>2 DEF TypeOK, Reader, FindFiles, LoadFile, SkipFile, FailLoad, FinishLoad, Answer
  <2>4. kind' \in [Readers -> {"suite", "list"}]
      BY <1>2 DEF TypeOK, Reader, FindFiles, LoadFile, SkipFile, FailLoad, FinishLoad, Answer
  <2>5. Files \in SUBSET (Ids \X {"custom", "built_in"})
      BY BuiltInsAssumption DEF Files
  <2>6. todo' \in [Readers -> SUBSET (Ids \X {"custom", "built_in"})]
      BY <1>2, <2>5
      DEF TypeOK, Reader, FindFiles, LoadFile, SkipFile, FailLoad, FinishLoad, Answer
  <2>7. \A f \in Ids \X {"custom", "built_in"} :
            f[1] \in Ids /\ ContentOf(f) \in Contents \cup {BuiltIn}
      BY DEF TypeOK, ContentOf
  <2>8. loaded' \in [Readers -> [Ids -> Contents \cup {BuiltIn}]]
      BY <1>2, <2>7
      DEF TypeOK, Reader, FindFiles, LoadFile, SkipFile, FailLoad, FinishLoad, Answer, Contents
  <2>9. touched' \in [Readers -> SUBSET Ids]
      BY <1>2 DEF TypeOK, Reader, FindFiles, LoadFile, SkipFile, FailLoad, FinishLoad, Answer
  <2> QED
      BY <2>1, <2>2, <2>3, <2>4, <2>6, <2>8, <2>9 DEF TypeOK
<1>3. ASSUME NEW c \in Clients, NEW k \in Calls, WellFormed(k), NEW step,
             \/ step = "opening" /\ k.kind # "delete"
             \/ step = "unlinking" /\ k.kind = "delete",
             Begin(c, k, step)
      PROVE  TypeOK' /\ CallsOK'
  <2>1. k # NoCall
      BY NoneAssumption
  <2>2. Names(k) \subseteq Ids
      BY <2>1 DEF Names, Calls
  <2>3. tainted' \in SUBSET Ids /\ serial' \in [Ids -> Contents]
      BY <1>3, <2>2 DEF Begin, TypeOK
  <2>4. issued' \in SUBSET Versions
      BY <1>3 DEF Begin, TypeOK, Calls
  <2>5. pc' \in [Clients -> {"idle", "opening", "opened", "written", "unlinking"}]
      BY <1>3 DEF Begin, TypeOK
  <2>6. TypeOK'
      BY <1>3, <2>3, <2>4, <2>5 DEF Begin, TypeOK, readVars
  <2>7. CallsOK'
      BY <1>3, <2>1 DEF Begin, TypeOK, CallsOK, StepOK
  <2> QED
      BY <2>6, <2>7
<1>4. ASSUME NEW c \in Clients, Create(c) \/ Replace(c) \/ Update(c) \/ Delete(c)
      PROVE  TypeOK' /\ CallsOK'
  <2>1. CASE Create(c) \/ Replace(c)
    <3>1. PICK kd \in {"create", "replace"}, id \in Ids, v \in Versions :
              Begin(c, [kind |-> kd, id |-> id, old |-> id, version |-> v], "opening")
        BY <2>1 DEF Create, Replace
    <3> QED
        BY <3>1, <1>3 DEF WellFormed, Calls
  <2>2. CASE Update(c)
    <3>1. PICK old \in Ids, id \in Ids, v \in Versions :
              Begin(c, [kind |-> "update", id |-> id, old |-> old, version |-> v], "opening")
        BY <2>2 DEF Update
    <3> QED
        BY <3>1, <1>3 DEF WellFormed, Calls
  <2>3. CASE Delete(c)
    <3>1. PICK id \in Ids :
              Begin(c, [kind |-> "delete", id |-> id, old |-> id, version |-> NoVersion],
                    "unlinking")
        BY <2>3 DEF Delete
    <3> QED
        BY <3>1, <1>3 DEF WellFormed, Calls
  <2> QED
      BY <1>4, <2>1, <2>2, <2>3
<1>5. ASSUME NEW c \in Clients, Return(c), pc[c] # "idle",
             custom' \in [Ids -> Contents], touched' \in [Readers -> SUBSET Ids],
             linked' \in SUBSET Clients
      PROVE  TypeOK' /\ CallsOK'
  <2>1. WellFormed(call[c])
      BY <1>5 DEF CallsOK, StepOK
  <2>2. serial' \in [Ids -> Contents]
      BY <1>5, <2>1, AfterIsTyped DEF Return
  <2>3. TypeOK'
      BY <1>5, <2>2 DEF Return, TypeOK, readVars
  <2>4. CallsOK'
      BY <1>5 DEF Return, TypeOK, CallsOK, StepOK
  <2> QED
      BY <2>3, <2>4
<1>6. ASSUME NEW c \in Clients, GiveUp(c), pc[c] # "idle",
             failures' \in 0..MaxFailures
      PROVE  TypeOK' /\ CallsOK'
  <2>1. WellFormed(call[c])
      BY <1>6 DEF CallsOK, StepOK
  <2>2. Names(call[c]) \subseteq Ids
      BY <2>1 DEF Names, WellFormed, Calls
  <2>3. TypeOK'
      BY <1>6, <2>2 DEF GiveUp, TypeOK, readVars
  <2>4. CallsOK'
      BY <1>6 DEF GiveUp, TypeOK, CallsOK, StepOK
  <2> QED
      BY <2>3, <2>4
<1>7. ASSUME NEW c \in Clients, Open(c) \/ Write(c) \/ FindOld(c)
      PROVE  TypeOK' /\ CallsOK'
  <2>1. /\ pc[c] \in {"opening", "opened", "written"} /\ WellFormed(call[c])
        /\ call[c].id \in Ids
      BY <1>7 DEF Open, Write, FindOld, CallsOK, StepOK, WellFormed, Calls
  <2>2. CASE Open(c)
    <3>1. custom' \in [Ids -> Contents] /\ touched' \in [Readers -> SUBSET Ids]
        BY <2>1, <2>2, SetFileEffect DEF Open, Contents, Damaged
    <3> QED
        BY <2>2, <3>1 DEF Open, TypeOK, CallsOK, StepOK, historyVars, readVars
  <2>3. CASE Write(c)
    <3>1. PICK content \in WrittenTo(c) : SetFile(call[c].id, content)
        BY <2>3 DEF Write
    <3>2. call[c].version \in Versions
        BY <2>1, <2>3 DEF Write, CallsOK, StepOK, WellFormed
    <3>3. content \in Contents
        BY <2>1, <3>1, <3>2 DEF WrittenTo, TypeOK, Contents, Damaged
    <3>4. custom' \in [Ids -> Contents] /\ touched' \in [Readers -> SUBSET Ids]
        BY <2>1, <3>1, <3>3, SetFileEffect
    <3>5. CASE IsRename(call[c])
        BY <2>3, <3>4, <3>5
        DEF Write, TypeOK, CallsOK, StepOK, historyVars, readVars
    <3>6. CASE ~IsRename(call[c])
        BY <1>5, <2>3, <3>4, <3>6 DEF Write, TypeOK
    <3> QED
        BY <3>5, <3>6
  <2>4. CASE FindOld(c)
      BY <2>4 DEF FindOld, TypeOK, CallsOK, StepOK, historyVars, readVars
  <2> QED
      BY <1>7, <2>2, <2>3, <2>4
<1>8. ASSUME NEW c \in Clients, MissOld(c) \/ Unlink(c)
      PROVE  TypeOK' /\ CallsOK'
  <2>1. CASE MissOld(c)
      BY <1>5, <2>1 DEF MissOld, TypeOK
  <2>2. CASE Unlink(c)
    <3>1. call[c].old \in Ids
        BY <2>2 DEF Unlink, CallsOK, StepOK, WellFormed, Calls
    <3>2. custom' \in [Ids -> Contents] /\ touched' \in [Readers -> SUBSET Ids]
        BY <2>2, <3>1, SetFileEffect DEF Unlink, Contents
    <3> QED
        BY <1>5, <2>2, <3>2 DEF Unlink, TypeOK
  <2> QED
      BY <1>8, <2>1, <2>2
<1>9. ASSUME NEW c \in Clients, UnlinkMissing(c) \/ Fail(c)
      PROVE  TypeOK' /\ CallsOK'
  <2>1. failures' \in 0..MaxFailures
      BY <1>9, FailuresAssumption DEF UnlinkMissing, Fail, TypeOK
  <2> QED
      BY <1>6, <1>9, <2>1 DEF UnlinkMissing, Fail
<1> QED
    BY <1>1, <1>2, <1>4, <1>7, <1>8, <1>9 DEF Next, Client

-----------------------------------------------------------------------------

\* Initially no handler is at work.
LEMMA InitCallsOK == Init => TypeOK /\ CallsOK
BY FailuresAssumption
DEF Init, TypeOK, CallsOK, StepOK, Contents

\* Variables and calls keep their types, and each handler is at a step that its
\* call has.
THEOREM TypeCorrect == Spec => [](TypeOK /\ CallsOK)
<1>1. TypeOK /\ CallsOK /\ [Next]_vars => (TypeOK /\ CallsOK)'
    BY CallsAreTyped
<1> QED
    BY <1>1, InitCallsOK, PTL DEF Spec

-----------------------------------------------------------------------------
\* Edits.  A client works alone on an id unless the id is tainted; on an id of its
\* own, the file is what the steps of its handler so far have made of it.

WorksAlone ==
    \A c, d \in Clients :
        c # d => Names(call[c]) \cap Names(call[d]) \subseteq tainted

OpenIsLinked ==
    /\ \A c \in linked : pc[c] = "opened"
    /\ \A c \in Clients :
          pc[c] = "opened" /\ call[c].id \notin tainted => c \in linked

SoFar(c, id) ==
    IF id # call[c].id \/ call[c].kind = "delete" \/ pc[c] = "opening" THEN serial[id]
    ELSE IF pc[c] = "opened" THEN "truncated"
    ELSE call[c].version

OwnFilesOK ==
    \A c \in Clients : \A id \in Names(call[c]) \ tainted : custom[id] = SoFar(c, id)

EditInv ==
    TypeOK /\ CallsOK /\ WorksAlone /\ OpenIsLinked /\ OwnFilesOK
        /\ SerialUnlessOverlapping

\* A step of one client that leaves the calls, the history and the files of other
\* ids alone leaves the files of the other clients as they expect them.
LEMMA OthersUndisturbed ==
    ASSUME EditInv, NEW c \in Clients,
           tainted \subseteq tainted',
           \A d \in Clients \ {c} : pc'[d] = pc[d] /\ call'[d] = call[d],
           Names(call'[c]) \subseteq Names(call[c]),
           \A id \in Ids \ Names(call[c]) : custom'[id] = custom[id] /\ serial'[id] = serial[id],
           \A d \in linked \ {c} : d \in linked' \/ call[d].id \in Names(call[c]),
           linked' \subseteq linked \cup {c},
           c \in linked' => pc'[c] = "opened",
           pc'[c] = "opened" /\ call'[c].id \notin tainted' => c \in linked',
           \A id \in Names(call'[c]) \ tainted' : custom'[id] = SoFar(c, id)',
           \A id \in Names(call[c]) \ tainted' :
               id \in Names(call'[c]) \/ custom'[id] = serial'[id]
    PROVE  WorksAlone' /\ OpenIsLinked' /\ OwnFilesOK' /\ SerialUnlessOverlapping'
<1>1. \A d \in Clients : Names(call[d]) \subseteq Ids
    BY DEF EditInv, CallsOK, StepOK, WellFormed, Calls, Names
<1>2. ASSUME NEW d \in Clients \ {c}
      PROVE  /\ pc'[d] = pc[d] /\ call'[d] = call[d] /\ Names(call'[d]) = Names(call[d])
             /\ Names(call[d]) \cap Names(call[c]) \subseteq tainted
    BY <1>2 DEF EditInv, WorksAlone, Names
<1>3. WorksAlone'
    <2> SUFFICES ASSUME NEW d \in Clients, NEW e \in Clients, d # e
                 PROVE  Names(call'[d]) \cap Names(call'[e]) \subseteq tainted'
        BY DEF WorksAlone, Names
    <2>1. Names(call'[d]) \subseteq Names(call[d]) /\ Names(call'[e]) \subseteq Names(call[e])
        BY <1>2
    <2>2. Names(call[d]) \cap Names(call[e]) \subseteq tainted
        BY DEF EditInv, WorksAlone
    <2> QED
        BY <2>1, <2>2
<1>4. OpenIsLinked'
    <2>1. ASSUME NEW d \in linked'
          PROVE  pc'[d] = "opened"
        BY <1>2, <2>1 DEF EditInv, OpenIsLinked, TypeOK
    <2>2. ASSUME NEW d \in Clients, pc'[d] = "opened", call'[d].id \notin tainted'
          PROVE  d \in linked'
      <3>1. CASE d = c
          BY <2>2, <3>1
      <3>2. CASE d # c
        <4>1. d \in linked
            BY <1>2, <2>2, <3>2 DEF EditInv, OpenIsLinked
        <4>2. call[d].id \in Names(call[d])
            BY <1>2, <2>2, <3>2 DEF EditInv, CallsOK, StepOK, Names
        <4> QED
            BY <1>2, <2>2, <3>2, <4>1, <4>2
      <3> QED
          BY <3>1, <3>2
    <2> QED
        BY <2>1, <2>2 DEF OpenIsLinked
<1>5. OwnFilesOK'
    <2> SUFFICES ASSUME NEW d \in Clients, NEW id \in Names(call'[d]) \ tainted'
                 PROVE  custom'[id] = SoFar(d, id)'
        BY DEF OwnFilesOK, Names
    <2>1. CASE d = c
        BY <2>1
    <2>2. CASE d # c
      <3>1. id \in Ids \ Names(call[c])
          BY <1>1, <1>2, <2>2
      <3>2. custom[id] = SoFar(d, id)
          BY <1>2, <2>2 DEF EditInv, OwnFilesOK
      <3> QED
          BY <1>2, <2>2, <3>1, <3>2 DEF SoFar
    <2> QED
        BY <2>1, <2>2
<1>6. SerialUnlessOverlapping'
    <2> SUFFICES ASSUME NEW id \in Ids \ tainted', ~Busy(id)'
                 PROVE  custom'[id] = serial'[id]
        BY DEF SerialUnlessOverlapping
    <2>1. \A d \in Clients : id \notin Names(call'[d])
        BY DEF Busy, Names
    <2>2. CASE id \in Names(call[c])
        BY <2>1, <2>2
    <2>3. CASE id \notin Names(call[c])
      <3>1. ~Busy(id)
          BY <1>2, <2>1, <2>3 DEF Busy
      <3> QED
          BY <2>3, <3>1 DEF EditInv, SerialUnlessOverlapping
    <2> QED
        BY <2>2, <2>3
<1> QED
    BY <1>3, <1>4, <1>5, <1>6

\* Beginning a call leaves every file as it is; the ids that are no longer tainted
\* afterwards are named by this call alone and start from the file as it is.
LEMMA BeginIsSerial ==
    ASSUME EditInv, NEW c \in Clients, NEW k \in Calls,
           NEW step \in {"opening", "unlinking"},
           step = "unlinking" => k.kind = "delete",
           Begin(c, k, step)
    PROVE  WorksAlone' /\ OpenIsLinked' /\ OwnFilesOK' /\ SerialUnlessOverlapping'
<1> DEFINE others == UNION {Names(call[d]) : d \in Clients \ {c}}
<1>1. /\ pc' = [pc EXCEPT ![c] = step] /\ call' = [call EXCEPT ![c] = k]
      /\ tainted' = (tainted \ Names(k)) \cup (Names(k) \cap others)
      /\ \A id \in Ids : serial'[id] =
            IF id \in (tainted \cap Names(k)) \ others THEN custom[id] ELSE serial[id]
      /\ custom' = custom /\ linked' = linked /\ call[c] = NoCall
    BY DEF Begin, EditInv, CallsOK, StepOK
<1>2. /\ Names(call[c]) = {} /\ call'[c] = k /\ Names(k) \subseteq Ids
      /\ \A d \in Clients \ {c} : pc'[d] = pc[d] /\ call'[d] = call[d]
      /\ pc'[c] = step /\ k # NoCall
    BY <1>1, NoneAssumption DEF EditInv, TypeOK, Names, Calls
<1>3. \A d \in Clients \ {c} : Names(call[d]) \subseteq others
    OBVIOUS
<1>4. \A id \in Names(k) \ tainted' : id \notin others
    BY <1>1
<1> HIDE DEF others
<1>5. WorksAlone'
    <2> SUFFICES ASSUME NEW d \in Clients, NEW e \in Clients, d # e
                 PROVE  Names(call'[d]) \cap Names(call'[e]) \subseteq tainted'
        BY DEF WorksAlone, Names
    <2>1. CASE d = c \/ e = c
        BY <1>1, <1>2, <1>3, <2>1
    <2>2. CASE d # c /\ e # c
      <3>1. Names(call[d]) \cap Names(call[e]) \subseteq tainted
          BY DEF EditInv, WorksAlone
      <3> QED
          BY <1>1, <1>2, <1>3, <2>2, <3>1
    <2> QED
        BY <2>1, <2>2
<1>6. OpenIsLinked'
    <2>1. \A d \in linked' : pc'[d] = "opened"
        BY <1>1, <1>2 DEF EditInv, OpenIsLinked, TypeOK, Begin
    <2>2. ASSUME NEW d \in Clients, pc'[d] = "opened", call'[d].id \notin tainted'
          PROVE  d \in linked'
      <3>1. d # c /\ call[d].id \in Names(call[d])
          BY <1>2, <2>2 DEF EditInv, CallsOK, StepOK, Names
      <3>2. call[d].id \notin tainted
          BY <1>1, <1>2, <1>3, <2>2, <3>1
      <3> QED
          BY <1>1, <1>2, <2>2, <3>1, <3>2 DEF EditInv, OpenIsLinked
    <2> QED
        BY <2>1, <2>2 DEF OpenIsLinked
<1>7. OwnFilesOK'
    <2> SUFFICES ASSUME NEW d \in Clients, NEW id \in Names(call'[d]) \ tainted'
                 PROVE  custom'[id] = SoFar(d, id)'
        BY DEF OwnFilesOK, Names
    <2>1. CASE d = c
      <3>1. id \in Ids /\ id \notin others
          BY <1>2, <1>4, <2>1
      <3>2. id \notin tainted => ~Busy(id)
          BY <1>2, <1>3, <3>1 DEF Busy
      <3>3. serial'[id] = custom[id]
          BY <1>1, <1>2, <2>1, <3>1, <3>2 DEF EditInv, SerialUnlessOverlapping
      <3> QED
          BY <1>1, <1>2, <2>1, <3>3 DEF SoFar
    <2>2. CASE d # c
      <3>1. id \in others /\ id \in Names(call[d]) /\ id \in Ids
          BY <1>2, <1>3, <2>2 DEF EditInv, CallsOK, StepOK, WellFormed, Calls, Names
      <3>2. id \notin tainted /\ id \notin Names(k)
          BY <1>1, <3>1
      <3>3. custom[id] = SoFar(d, id)
          BY <3>1, <3>2 DEF EditInv, OwnFilesOK
      <3> QED
          BY <1>1, <1>2, <2>2, <3>1, <3>2, <3>3 DEF SoFar
    <2> QED
        BY <2>1, <2>2
<1>8. SerialUnlessOverlapping'
    <2> SUFFICES ASSUME NEW id \in Ids \ tainted', ~Busy(id)'
                 PROVE  custom'[id] = serial'[id]
        BY DEF SerialUnlessOverlapping
    <2>1. \A d \in Clients : id \notin Names(call'[d])
        BY DEF Busy, Names
    <2>2. id \notin Names(k) /\ id \notin tainted /\ ~Busy(id)
        BY <1>1, <1>2, <2>1 DEF Busy
    <2> QED
        BY <1>1, <2>2 DEF EditInv, SerialUnlessOverlapping
<1> QED
    BY <1>5, <1>6, <1>7, <1>8

\* Each step preserves the invariant of the edits ...
LEMMA EditInvariance ==
    ASSUME EditInv, [Next]_vars
    PROVE  EditInv'
<1> DEFINE Edits == WorksAlone /\ OpenIsLinked /\ OwnFilesOK /\ SerialUnlessOverlapping
<1>1. TypeOK' /\ CallsOK'
    BY CallsAreTyped DEF EditInv
<1>2. ASSUME UNCHANGED <<custom, pc, call, linked, serial, tainted>>
      PROVE  Edits'
    BY <1>2
    DEF EditInv, WorksAlone, OpenIsLinked, OwnFilesOK, SoFar, SerialUnlessOverlapping, Busy, Names
<1>3. CASE UNCHANGED vars
    BY <1>1, <1>2, <1>3 DEF EditInv, vars, clientVars, historyVars
<1>4. ASSUME NEW r \in Readers, Reader(r)
      PROVE  Edits'
    BY <1>2, <1>4 DEF Reader, FindFiles, LoadFile, SkipFile, FailLoad, FinishLoad, Answer,
                      clientVars, historyVars
<1>5. ASSUME NEW c \in Clients, Create(c) \/ Replace(c) \/ Update(c) \/ Delete(c)
      PROVE  Edits'
  <2>1. \A id, old \in Ids, v \in Versions \cup {NoVersion} :
            \A kd \in {"create", "replace", "update", "delete"} :
                [kind |-> kd, id |-> id, old |-> old, version |-> v] \in Calls
      BY DEF Calls
  <2> QED
      BY <1>5, <2>1, BeginIsSerial DEF Create, Replace, Update, Delete
<1>6. ASSUME NEW c \in Clients, pc[c] # "idle"
      PROVE  /\ WellFormed(call[c]) /\ call[c] # NoCall
             /\ call[c].id \in Ids /\ call[c].old \in Ids
             /\ Names(call[c]) = {call[c].id, call[c].old}
    BY <1>6 DEF EditInv, CallsOK, StepOK, WellFormed, Calls, Names
<1>7. ASSUME NEW c \in Clients, Open(c)
      PROVE  Edits'
  <2>1. /\ pc' = [pc EXCEPT ![c] = "opened"] /\ linked' = linked \cup {c}
        /\ UNCHANGED <<call, serial, tainted>> /\ pc[c] = "opening"
      BY <1>7 DEF Open, historyVars
  <2>2. custom'[call[c].id] = "truncated" /\ \A i \in Ids : i # call[c].id => custom'[i] = custom[i]
      BY <1>6, <1>7, <2>1 DEF Open, SetFile, EditInv, TypeOK
  <2>3. \A id \in Names(call[c]) \ tainted : custom[id] = serial[id]
      BY <2>1 DEF EditInv, OwnFilesOK, SoFar
  <2>4. call[c].kind # "delete" /\ pc'[c] = "opened" /\ \A d \in Clients \ {c} : pc'[d] = pc[d]
      BY <2>1 DEF EditInv, CallsOK, StepOK, TypeOK
  <2>5. \A id \in Names(call[c]) \ tainted : custom'[id] = SoFar(c, id)'
      BY <1>6, <2>1, <2>2, <2>3, <2>4 DEF SoFar
  <2> QED
      BY <1>6, <2>1, <2>2, <2>4, <2>5, OthersUndisturbed
<1>8. ASSUME NEW c \in Clients, pc[c] # "idle", Return(c), UNCHANGED tainted,
             linked' \subseteq linked \ {c},
             \A d \in linked \ {c} : d \in linked' \/ call[d].id \in Names(call[c]),
             \A i \in Ids \ Names(call[c]) : custom'[i] = custom[i],
             \A i \in Names(call[c]) \ tainted : custom'[i] = After(call[c])[i]
      PROVE  Edits'
  <2>1. /\ \A d \in Clients \ {c} : pc'[d] = pc[d] /\ call'[d] = call[d]
        /\ pc'[c] = "idle" /\ Names(call'[c]) = {}
      BY <1>8 DEF Return, EditInv, TypeOK, Names
  <2>2. \A i \in Ids \ Names(call[c]) : serial'[i] = serial[i]
      BY <1>6, <1>8 DEF Return, After, EditInv, TypeOK
  <2>3. \A i \in Names(call[c]) \ tainted : custom'[i] = serial'[i]
      BY <1>8 DEF Return
  <2> QED
      BY <1>8, <2>1, <2>2, <2>3, OthersUndisturbed
<1>9. ASSUME NEW c \in Clients, pc[c] # "idle", WellFormed(call[c])
      PROVE  /\ call[c].kind = "delete" => After(call[c])[call[c].id] = Absent
             /\ call[c].kind # "delete" =>
                   /\ After(call[c])[call[c].id] = call[c].version
                   /\ call[c].old # call[c].id => After(call[c])[call[c].old] = Absent
    BY <1>6, <1>9 DEF After, EditInv, TypeOK
<1>10. ASSUME NEW c \in Clients, Write(c)
       PROVE  Edits'
  <2>1. pc[c] = "opened" /\ UNCHANGED tainted /\ linked' = linked \ {c}
      BY <1>10 DEF Write, Return, historyVars
  <2>2. PICK content \in WrittenTo(c) : SetFile(call[c].id, content)
      BY <1>10 DEF Write
  <2>3. custom'[call[c].id] = content /\ \A i \in Ids : i # call[c].id => custom'[i] = custom[i]
      BY <1>6, <2>1, <2>2 DEF SetFile, EditInv, TypeOK
  <2>4. call[c].kind # "delete"
      BY <2>1 DEF EditInv, CallsOK, StepOK
  <2>5. call[c].id \notin tainted => custom'[call[c].id] = call[c].version
    <3>1. SUFFICES ASSUME call[c].id \notin tainted
                   PROVE  content = call[c].version
        BY <2>3
    <3>2. c \in linked
        BY <2>1, <3>1 DEF EditInv, OpenIsLinked
    <3>3. custom[call[c].id] = "truncated"
        BY <1>6, <2>1, <2>4, <3>1 DEF EditInv, OwnFilesOK, SoFar
    <3> QED
        BY <2>2, <3>2, <3>3 DEF WrittenTo
  <2>6. \A i \in Names(call[c]) \ tainted : i # call[c].id => custom'[i] = serial[i]
      BY <1>6, <2>1, <2>3 DEF EditInv, OwnFilesOK, SoFar
  <2>7. CASE IsRename(call[c])
    <3>1. pc' = [pc EXCEPT ![c] = "written"] /\ UNCHANGED <<call, serial>>
        BY <1>10, <2>7 DEF Write, historyVars
    <3>2. pc'[c] = "written" /\ \A d \in Clients \ {c} : pc'[d] = pc[d]
        BY <3>1 DEF EditInv, TypeOK
    <3>3. \A id \in Names(call[c]) \ tainted : custom'[id] = SoFar(c, id)'
        BY <2>4, <2>5, <2>6, <3>1, <3>2 DEF SoFar
    <3> QED
        BY <1>6, <2>1, <2>3, <3>1, <3>2, <3>3, OthersUndisturbed
  <2>8. CASE ~IsRename(call[c])
    <3>1. call[c].old = call[c].id
        BY <1>6, <2>1, <2>8 DEF IsRename, WellFormed
    <3>2. \A i \in Names(call[c]) \ tainted : custom'[i] = After(call[c])[i]
        BY <1>6, <1>9, <2>1, <2>4, <2>5, <3>1
    <3> QED
        BY <1>6, <1>8, <1>10, <2>1, <2>3, <2>8, <3>2 DEF Write
  <2> QED
      BY <2>7, <2>8
<1>11. ASSUME NEW c \in Clients, pc[c] \in {"written", "unlinking"}
       PROVE  \A i \in Names(call[c]) \ tainted :
                  i = call[c].id /\ call[c].kind # "delete" =>
                      custom[i] = After(call[c])[i]
    BY <1>6, <1>9, <1>11 DEF EditInv, OwnFilesOK, SoFar
<1>12. ASSUME NEW c \in Clients, FindOld(c)
       PROVE  Edits'
  <2>1. /\ pc' = [pc EXCEPT ![c] = "unlinking"] /\ pc[c] = "written"
        /\ UNCHANGED <<custom, call, linked, serial, tainted>>
      BY <1>12 DEF FindOld, historyVars
  <2>2. pc'[c] = "unlinking" /\ \A d \in Clients \ {c} : pc'[d] = pc[d]
      BY <2>1 DEF EditInv, TypeOK
  <2>3. \A id \in Names(call[c]) \ tainted : custom'[id] = SoFar(c, id)'
      BY <2>1, <2>2 DEF EditInv, OwnFilesOK, SoFar
  <2> QED
      BY <1>6, <2>1, <2>2, <2>3, OthersUndisturbed DEF EditInv, OpenIsLinked
<1>13. ASSUME NEW c \in Clients, MissOld(c)
       PROVE  Edits'
  <2>1. /\ pc[c] = "written" /\ UNCHANGED <<custom, linked, tainted>> /\ Return(c)
        /\ custom[call[c].old] = Absent /\ c \notin linked
      BY <1>13 DEF MissOld, Return, EditInv, OpenIsLinked
  <2>2. call[c].kind # "delete" /\ call[c].id # call[c].old
      BY <2>1 DEF EditInv, CallsOK, StepOK, IsRename
  <2>3. \A i \in Names(call[c]) \ tainted : custom'[i] = After(call[c])[i]
      BY <1>6, <1>9, <1>11, <2>1, <2>2
  <2> QED
      BY <1>8, <2>1, <2>3
<1>14. ASSUME NEW c \in Clients, Unlink(c)
       PROVE  Edits'
  <2>1. /\ pc[c] = "unlinking" /\ UNCHANGED tainted /\ Return(c)
        /\ linked' = {d \in linked : call[d].id # call[c].old} /\ c \notin linked
        /\ SetFile(call[c].old, Absent)
      BY <1>14 DEF Unlink, Return, EditInv, OpenIsLinked
  <2>2. custom'[call[c].old] = Absent /\ \A i \in Ids : i # call[c].old => custom'[i] = custom[i]
      BY <1>6, <2>1 DEF SetFile, EditInv, TypeOK
  <2>3. IF call[c].kind = "delete" THEN call[c].id = call[c].old ELSE call[c].id # call[c].old
      BY <1>6, <2>1 DEF EditInv, CallsOK, StepOK, IsRename, WellFormed
  <2>4. \A i \in Names(call[c]) \ tainted : custom'[i] = After(call[c])[i]
      BY <1>6, <1>9, <1>11, <2>1, <2>2, <2>3
  <2> QED
      BY <1>6, <1>8, <2>1, <2>2, <2>4
<1>15. ASSUME NEW c \in Clients, UnlinkMissing(c) \/ Fail(c)
       PROVE  Edits'
  <2>1. GiveUp(c) /\ pc[c] # "idle"
      BY <1>15 DEF UnlinkMissing, Fail
  <2>2. /\ \A d \in Clients \ {c} : pc'[d] = pc[d] /\ call'[d] = call[d]
        /\ pc'[c] = "idle" /\ Names(call'[c]) = {}
        /\ tainted' = tainted \cup Names(call[c]) /\ linked' = linked \ {c}
        /\ UNCHANGED <<custom, serial>>
      BY <2>1 DEF GiveUp, EditInv, TypeOK, Names
  <2> QED
      BY <2>2, OthersUndisturbed
<1> QED
    BY <1>1, <1>3, <1>4, <1>5, <1>7, <1>10, <1>12, <1>13, <1>14, <1>15
    DEF EditInv, Next, Client

\* ... which holds initially.
LEMMA InitEditInv == Init => EditInv
BY InitCallsOK
DEF Init, EditInv, WorksAlone, OpenIsLinked, OwnFilesOK, SerialUnlessOverlapping, Names, TypeOK

\* Edits that do not name the same id at the same time have the effect of edits
\* one after the other, for any number of clients, ids and texts.
THEOREM SerialEdits == Spec => []SerialUnlessOverlapping
<1>1. EditInv /\ [Next]_vars => EditInv'
    BY EditInvariance
<1>2. EditInv => SerialUnlessOverlapping
    BY DEF EditInv
<1> QED
    BY <1>1, <1>2, InitEditInv, PTL DEF Spec

\* A rename removes the old file only when the new one is in place, and nothing but
\* a delete removes a file otherwise.
THEOREM RenamesAreSafe == Spec => RenameNeverLosesTheScenario
<1> DEFINE Removes(c, id) ==
        /\ call[c] # NoCall /\ call[c].old = id
        /\ \/ call[c].kind = "delete"
           \/ call[c].id # id /\ custom[call[c].id] = call[c].version
           \/ call[c].id \in tainted
<1>1. ASSUME EditInv, [Next]_vars, NEW id \in Ids, custom[id] # Absent, custom'[id] = Absent
      PROVE  \E c \in Clients : Removes(c, id)
  <2>1. Absent \notin {"truncated", "mixed"} \cup Versions
      BY NoneAssumption DEF Damaged
  <2>2. PICK c \in Clients : Open(c) \/ Write(c) \/ Unlink(c)
    <3>1. ASSUME NEW r \in Readers, Reader(r) PROVE UNCHANGED custom
        BY <3>1 DEF Reader, FindFiles, LoadFile, SkipFile, FailLoad, FinishLoad, Answer
    <3>2. ASSUME NEW c \in Clients, Create(c) \/ Replace(c) \/ Update(c) \/ Delete(c)
          PROVE  UNCHANGED custom
        BY <3>2 DEF Create, Replace, Update, Delete, Begin
    <3>3. ASSUME NEW c \in Clients, FindOld(c) \/ MissOld(c) \/ UnlinkMissing(c) \/ Fail(c)
          PROVE  UNCHANGED custom
        BY <3>3 DEF FindOld, MissOld, UnlinkMissing, Fail, GiveUp
    <3>4. custom' # custom /\ ~UNCHANGED vars
        BY <1>1 DEF vars
    <3> QED
        BY <1>1, <3>1, <3>2, <3>3, <3>4 DEF Next, Client
  <2>3. pc[c] # "idle" /\ call[c] # NoCall /\ WellFormed(call[c])
      BY <1>1, <2>2 DEF Open, Write, Unlink, EditInv, CallsOK, StepOK
  <2>4. ~Open(c)
      BY <1>1, <2>1 DEF Open, SetFile, EditInv, TypeOK
  <2>5. ~Write(c)
    <3>1. SUFFICES ASSUME Write(c) PROVE FALSE
        OBVIOUS
    <3>2. call[c].kind # "delete" /\ call[c].version \in Versions
        BY <1>1, <2>3, <3>1 DEF Write, EditInv, CallsOK, StepOK, WellFormed
    <3>3. PICK content \in WrittenTo(c) : SetFile(call[c].id, content)
        BY <3>1 DEF Write
    <3> QED
        BY <1>1, <2>1, <3>2, <3>3 DEF SetFile, WrittenTo, EditInv, TypeOK
  <2>6. Unlink(c) /\ pc[c] = "unlinking" /\ call[c].old = id
      BY <1>1, <2>2, <2>4, <2>5 DEF Unlink, SetFile, EditInv, TypeOK
  <2>7. CASE call[c].kind = "delete"
      BY <2>3, <2>6, <2>7
  <2>8. CASE IsRename(call[c])
    <3>1. call[c].id # id /\ call[c].id \in Names(call[c]) /\ call[c].kind # "delete"
        BY <2>3, <2>6, <2>8 DEF IsRename, Names
    <3>2. call[c].id \notin tainted => custom[call[c].id] = call[c].version
        BY <1>1, <2>6, <3>1 DEF EditInv, OwnFilesOK, SoFar
    <3> QED
        BY <2>3, <2>6, <3>1, <3>2
  <2> QED
      BY <1>1, <2>6, <2>7, <2>8 DEF EditInv, CallsOK, StepOK
<1>2. EditInv /\ [Next]_vars => EditInv'
    BY EditInvariance
<1>3. EditInv /\ [Next]_vars =>
          [\A id \in Ids : custom[id] # Absent /\ custom'[id] = Absent =>
              \E c \in Clients : Removes(c, id)]_vars
    BY <1>1
<1> QED
    BY <1>2, <1>3, InitEditInv, PTL DEF Spec, RenameNeverLosesTheScenario

-----------------------------------------------------------------------------
\* Reads.  As long as the file of an id has not changed, what a reader has found
\* for it is still what Files says, and what it has loaded is what is in effect.

FoundIsCurrent(r, id) ==
    /\ \A f \in todo[r] : f[1] = id => f \in Files
    /\ \/ \E f \in todo[r] : f[1] = id
       \/ loaded[r][id] = InEffect(id)
       \/ custom[id] \in Damaged

ReadsOK ==
    \A r \in Readers :
        /\ rpc[r] = "idle" => loaded[r] = [id \in Ids |-> Absent] /\ touched[r] = {}
        /\ rpc[r] # "loading" => todo[r] = {}
        /\ rpc[r] \in {"loading", "done"} =>
              \A id \in Ids \ touched[r] : FoundIsCurrent(r, id)
        /\ rpc[r] = "failed" =>
              touched[r] # {} \/ \E id \in Ids : custom[id] \in Damaged

\* A step of a client leaves the readers alone and tells them what it changes.
LEMMA ClientsTouch ==
    ASSUME TypeOK, CallsOK, NEW c \in Clients, Client(c)
    PROVE  /\ UNCHANGED <<rpc, kind, todo, loaded>>
           /\ \A r \in Readers :
                 /\ rpc[r] = "idle" => touched'[r] = touched[r]
                 /\ touched[r] \subseteq touched'[r]
                 /\ rpc[r] # "idle" =>
                       \A id \in Ids \ touched'[r] : custom'[id] = custom[id]
<1>1. UNCHANGED <<rpc, kind, todo, loaded>>
    BY DEF Client, Create, Replace, Update, Delete, Begin, Open, Write, FindOld, MissOld, Unlink,
           UnlinkMissing, Fail, GiveUp, Return, readVars
<1>2. CASE UNCHANGED <<custom, touched>>
    BY <1>1, <1>2
<1>3. ASSUME NEW id \in Ids, NEW content \in Contents, SetFile(id, content)
      PROVE  \A r \in Readers :
                 /\ rpc[r] = "idle" => touched'[r] = touched[r]
                 /\ touched[r] \subseteq touched'[r]
                 /\ rpc[r] # "idle" =>
                       \A i \in Ids \ touched'[r] : custom'[i] = custom[i]
    BY <1>3, SetFileEffect
<1>4. CASE Open(c) \/ Write(c) \/ Unlink(c)
  <2>1. WellFormed(call[c]) /\ call[c].id \in Ids /\ call[c].old \in Ids
      BY <1>4 DEF Open, Write, Unlink, CallsOK, StepOK, WellFormed, Calls
  <2>2. CASE Open(c) \/ Unlink(c)
      BY <1>1, <1>3, <2>1, <2>2 DEF Open, Unlink, Contents, Damaged
  <2>3. CASE Write(c)
    <3>1. call[c].version \in Versions
        BY <2>1, <2>3 DEF Write, CallsOK, StepOK, WellFormed
    <3>2. WrittenTo(c) \subseteq Contents
        BY <2>1, <3>1 DEF WrittenTo, TypeOK, Contents, Damaged
    <3> QED
        BY <1>1, <1>3, <2>1, <2>3, <3>2 DEF Write
  <2> QED
      BY <1>4, <2>2, <2>3
<1> QED
    BY <1>2, <1>4 DEF Client, Create, Replace, Update, Delete, Begin, FindOld, MissOld,
                      UnlinkMissing, Fail, GiveUp

\* A file that is listed has the content in effect for its id.
LEMMA ContentInEffect ==
    ASSUME NEW id \in Ids, NEW f \in Files, f[1] = id
    PROVE  ContentOf(f) = InEffect(id) /\ ContentOf(f) # Absent
BY NoneAssumption, BuiltInsAssumption DEF Files, ContentOf, InEffect

\* Each step preserves what readers have found.
LEMMA ReadInvariance ==
    ASSUME TypeOK, CallsOK, ReadsOK, [Next]_vars
    PROVE  ReadsOK'
<1>1. CASE UNCHANGED vars
    BY <1>1 DEF ReadsOK, FoundIsCurrent, Files, InEffect, vars, readVars
<1>2. ASSUME NEW c \in Clients, Client(c)
      PROVE  ReadsOK'
  <2> SUFFICES ASSUME NEW r \in Readers
               PROVE  /\ rpc'[r] = "idle" =>
                            loaded'[r] = [id \in Ids |-> Absent] /\ touched'[r] = {}
                      /\ rpc'[r] # "loading" => todo'[r] = {}
                      /\ rpc'[r] \in {"loading", "done"} =>
                            \A id \in Ids \ touched'[r] : FoundIsCurrent(r, id)'
                      /\ rpc'[r] = "failed" =>
                            touched'[r] # {} \/ \E id \in Ids : custom'[id] \in Damaged
      BY DEF ReadsOK
  <2>1. /\ UNCHANGED <<rpc, todo, loaded>> /\ touched[r] \subseteq touched'[r]
        /\ rpc[r] = "idle" => touched'[r] = touched[r]
        /\ rpc[r] # "idle" => \A id \in Ids \ touched'[r] : custom'[id] = custom[id]
      BY <1>2, ClientsTouch
  <2>2. ASSUME rpc[r] \in {"loading", "done"}, NEW id \in Ids \ touched'[r]
        PROVE  FoundIsCurrent(r, id)'
    <3>1. custom'[id] = custom[id] /\ FoundIsCurrent(r, id)
        BY <2>1, <2>2 DEF ReadsOK
    <3>2. \A f \in todo[r] : f[1] = id => (f \in Files <=> f \in Files')
        BY <3>1 DEF Files
    <3> QED
        BY <2>1, <3>1, <3>2 DEF FoundIsCurrent, InEffect
  <2> QED
      BY <2>1, <2>2 DEF ReadsOK
<1>3. ASSUME NEW q \in Readers, Reader(q)
      PROVE  ReadsOK'
  <2>1. UNCHANGED custom
      BY <1>3 DEF Reader, FindFiles, LoadFile, SkipFile, FailLoad, FinishLoad, Answer
  <2>2. ASSUME NEW r \in Readers \ {q}
        PROVE  rpc'[r] = rpc[r] /\ todo'[r] = todo[r] /\ loaded'[r] = loaded[r]
                 /\ touched'[r] = touched[r]
      BY <1>3, <2>2
      DEF Reader, FindFiles, LoadFile, SkipFile, FailLoad, FinishLoad, Answer, TypeOK
  <2>3. ASSUME NEW f \in todo[q], todo' = [todo EXCEPT ![q] = @ \ {f}],
               UNCHANGED <<custom, rpc, touched>>,
               \/ ContentOf(f) \in Damaged /\ UNCHANGED loaded
               \/ loaded' = [loaded EXCEPT ![q][f[1]] = ContentOf(f)]
        PROVE  ReadsOK'
    <3>1. rpc[q] = "loading"
        BY <2>3 DEF ReadsOK
    <3>2. f[1] \in Ids /\ todo'[q] = todo[q] \ {f}
        BY <2>3 DEF TypeOK
    <3>3. \A id \in Ids : id # f[1] => loaded'[q][id] = loaded[q][id]
        BY <2>3 DEF TypeOK
    <3>4. ASSUME NEW id \in Ids \ touched[q]
          PROVE  FoundIsCurrent(q, id)'
      <4>1. FoundIsCurrent(q, id) /\ Files' = Files /\ InEffect(id)' = InEffect(id)
          BY <2>3, <3>1 DEF ReadsOK, Files, InEffect
      <4>2. CASE id = f[1]
        <5>1. f \in Files
            BY <4>1, <4>2 DEF FoundIsCurrent
        <5>2. ContentOf(f) = InEffect(id)
            BY <4>2, <5>1, ContentInEffect
        <5>3. ContentOf(f) \in Damaged => custom[id] \in Damaged
            BY <4>2, NoneAssumption DEF ContentOf
        <5>4. loaded'[q][id] = InEffect(id) \/ custom[id] \in Damaged
            BY <2>3, <4>2, <5>2, <5>3 DEF TypeOK
        <5> QED
            BY <2>3, <3>2, <4>1, <5>4 DEF FoundIsCurrent
      <4>3. CASE id # f[1]
          BY <2>3, <3>2, <3>3, <4>1, <4>3 DEF FoundIsCurrent
      <4> QED
          BY <4>2, <4>3
    <3>5. ASSUME NEW r \in Readers \ {q}, NEW id \in Ids, FoundIsCurrent(r, id)
          PROVE  FoundIsCurrent(r, id)'
        BY <2>2, <2>3, <3>5 DEF FoundIsCurrent, Files, InEffect
    <3> QED
        BY <2>2, <2>3, <3>1, <3>4, <3>5 DEF ReadsOK
  <2>4. CASE FindFiles(q)
    <3>1. /\ rpc[q] = "idle" /\ rpc'[q] = "loading" /\ todo'[q] = Files
          /\ touched[q] = {} /\ touched' = touched /\ loaded'[q] = [id \in Ids |-> Absent]
        BY <2>4 DEF FindFiles, ReadsOK, TypeOK
    <3>2. ASSUME NEW id \in Ids
          PROVE  FoundIsCurrent(q, id)'
      <4>1. Files' = Files /\ InEffect(id)' = InEffect(id)
          BY <2>1 DEF Files, InEffect
      <4>2. CASE InEffect(id) = Absent
          BY <3>1, <4>1, <4>2 DEF FoundIsCurrent
      <4>3. CASE InEffect(id) # Absent
        <5>1. <<id, "custom">> \in Files \/ <<id, "built_in">> \in Files
            BY <4>3 DEF InEffect, Files
        <5> QED
            BY <3>1, <4>1, <5>1 DEF FoundIsCurrent
      <4> QED
          BY <4>2, <4>3
    <3>3. ASSUME NEW r \in Readers \ {q}, NEW id \in Ids, FoundIsCurrent(r, id)
          PROVE  FoundIsCurrent(r, id)'
        BY <2>1, <2>2, <3>3 DEF FoundIsCurrent, Files, InEffect
    <3> QED
        BY <2>1, <2>2, <3>1, <3>2, <3>3 DEF ReadsOK
  <2>5. CASE LoadFile(q) \/ SkipFile(q)
      BY <2>3, <2>5 DEF LoadFile, SkipFile
  <2>6. CASE FailLoad(q)
    <3>1. PICK f \in todo[q] : ContentOf(f) \in {Absent} \cup Damaged
        BY <2>6 DEF FailLoad
    <3>2. rpc[q] = "loading" /\ f[1] \in Ids
        BY <3>1 DEF ReadsOK, TypeOK
    <3>3. touched[q] # {} \/ \E id \in Ids : custom[id] \in Damaged
      <4>1. CASE ContentOf(f) \in Damaged
          BY <3>2, <4>1, NoneAssumption DEF ContentOf
      <4>2. CASE ContentOf(f) = Absent
        <5>1. f \notin Files
            BY <3>2, <4>2, ContentInEffect
        <5> QED
            BY <3>1, <3>2, <5>1 DEF ReadsOK, FoundIsCurrent
      <4> QED
          BY <3>1, <4>1, <4>2
    <3>4. /\ rpc'[q] = "failed" /\ todo'[q] = {} /\ touched' = touched
        BY <2>6 DEF FailLoad, TypeOK
    <3>5. ASSUME NEW r \in Readers \ {q}, NEW id \in Ids, FoundIsCurrent(r, id)
          PROVE  FoundIsCurrent(r, id)'
        BY <2>1, <2>2, <3>5 DEF FoundIsCurrent, Files, InEffect
    <3> QED
        BY <2>1, <2>2, <3>3, <3>4, <3>5 DEF ReadsOK
  <2>7. CASE FinishLoad(q)
    <3>1. /\ rpc[q] = "loading" /\ rpc'[q] = "done" /\ todo[q] = {}
          /\ UNCHANGED <<todo, loaded, touched>>
        BY <2>7 DEF FinishLoad, TypeOK
    <3>2. ASSUME NEW r \in Readers, NEW id \in Ids, FoundIsCurrent(r, id)
          PROVE  FoundIsCurrent(r, id)'
        BY <2>1, <3>1, <3>2 DEF FoundIsCurrent, Files, InEffect
    <3> QED
        BY <2>1, <2>2, <3>1, <3>2 DEF ReadsOK
  <2>8. CASE Answer(q)
    <3>1. /\ rpc'[q] = "idle" /\ todo'[q] = {} /\ touched'[q] = {}
          /\ loaded'[q] = [id \in Ids |-> Absent]
        BY <2>8 DEF Answer, TypeOK
    <3>2. ASSUME NEW r \in Readers \ {q}, NEW id \in Ids, FoundIsCurrent(r, id)
          PROVE  FoundIsCurrent(r, id)'
        BY <2>1, <2>2, <3>2 DEF FoundIsCurrent, Files, InEffect
    <3> QED
        BY <2>1, <2>2, <3>1, <3>2 DEF ReadsOK
  <2> QED
      BY <1>3, <2>4, <2>5, <2>6, <2>7, <2>8 DEF Reader
<1> QED
    BY <1>1, <1>2, <1>3 DEF Next

\* What a list or suite has loaded is what was in effect, up to files edited in the
\* meantime, for any number of readers, clients, ids and built-in scenarios.
THEOREM ReadsAreExact == Spec => []UndisturbedReadIsExact
<1>1. Init => ReadsOK
    BY DEF Init, ReadsOK
<1>2. TypeOK /\ CallsOK /\ ReadsOK /\ [Next]_vars => (TypeOK /\ CallsOK /\ ReadsOK)'
    BY CallsAreTyped, ReadInvariance
<1>3. ReadsOK => UndisturbedReadIsExact
    BY DEF ReadsOK, FoundIsCurrent, UndisturbedReadIsExact
<1> QED
    BY <1>1, <1>2, <1>3, InitCallsOK, PTL DEF Spec

-----------------------------------------------------------------------------
\* Truncated files.  The truncated files that no one is writing are finitely many,
\* one for each failure at most; only a failed call adds to them.

Abandoned ==
    {id \in Ids : custom[id] = "truncated"} \ {call[c].id : c \in linked}

AbandonedInv == IsFiniteSet(Abandoned) /\ Cardinality(Abandoned) <= failures

\* A file is truncated by Open alone, and then open under its name.
LEMMA AbandonedFrame ==
    ASSUME TypeOK,
           \A id \in Ids : custom'[id] = "truncated" =>
              \/ custom[id] = "truncated"
              \/ \E d \in linked' : call'[d].id = id,
           \A d \in linked :
              \/ d \in linked' /\ call'[d].id = call[d].id
              \/ custom'[call[d].id] # "truncated"
    PROVE  Abandoned' \subseteq Abandoned
BY DEF Abandoned

\* Opening a file for writing abandons none: its handler is at work on it.
LEMMA OpenAbandons ==
    ASSUME EditInv, NEW c \in Clients, Open(c)
    PROVE  Abandoned' \subseteq Abandoned
<1>1. pc[c] = "opening" /\ call[c].id \in Ids /\ call' = call /\ linked' = linked \cup {c}
    BY DEF Open, EditInv, CallsOK, StepOK, WellFormed, Calls
<1>2. \A id \in Ids : id # call[c].id => custom'[id] = custom[id]
    BY DEF Open, SetFile, EditInv, TypeOK
<1> QED
    BY <1>1, <1>2, AbandonedFrame DEF EditInv

\* What was written is no longer truncated, unless it was written to a file that
\* has lost its name.
LEMMA WriteAbandons ==
    ASSUME EditInv, NEW c \in Clients, Write(c)
    PROVE  Abandoned' \subseteq Abandoned
<1>1. PICK content \in WrittenTo(c) : SetFile(call[c].id, content)
    BY DEF Write
<1>2. /\ pc[c] = "opened" /\ linked' = linked \ {c}
      /\ \A d \in Clients \ {c} : call'[d] = call[d]
    BY DEF Write, Return, EditInv, TypeOK
<1>3. call[c].id \in Ids /\ call[c].version \in Versions
    BY <1>2 DEF EditInv, CallsOK, StepOK, WellFormed, Calls
<1>4. /\ custom'[call[c].id] = content
      /\ \A id \in Ids : id # call[c].id => custom'[id] = custom[id]
    BY <1>1, <1>3 DEF SetFile, EditInv, TypeOK
<1>5. linked \subseteq Clients
    BY DEF EditInv, TypeOK
<1>6. CASE c \in linked
  <2>1. content # "truncated"
      BY <1>1, <1>3, <1>6, NoneAssumption DEF WrittenTo, Damaged
  <2> QED
      BY <1>2, <1>4, <1>5, <2>1, AbandonedFrame DEF EditInv
<1>7. CASE c \notin linked
  <2>1. content = custom[call[c].id]
      BY <1>1, <1>7 DEF WrittenTo
  <2> QED
      BY <1>2, <1>4, <1>5, <1>7, <2>1, AbandonedFrame DEF EditInv
<1> QED
    BY <1>6, <1>7

\* Nor does a removal, whatever it removes.
LEMMA UnlinkAbandons ==
    ASSUME EditInv, NEW c \in Clients, Unlink(c)
    PROVE  Abandoned' \subseteq Abandoned
<1>1. /\ pc[c] = "unlinking" /\ linked' = {d \in linked : call[d].id # call[c].old}
      /\ \A d \in Clients \ {c} : call'[d] = call[d]
    BY DEF Unlink, Return, EditInv, TypeOK
<1>2. call[c].old \in Ids /\ c \notin linked /\ linked \subseteq Clients
    BY <1>1 DEF EditInv, CallsOK, StepOK, WellFormed, Calls, OpenIsLinked, TypeOK
<1>3. /\ custom'[call[c].old] = Absent
      /\ \A id \in Ids : id # call[c].old => custom'[id] = custom[id]
    BY <1>2 DEF Unlink, SetFile, EditInv, TypeOK
<1>4. Absent # "truncated"
    BY NoneAssumption DEF Damaged
<1> QED
    BY <1>1, <1>2, <1>3, <1>4, AbandonedFrame DEF EditInv

\* A call that fails leaves the file it has open at most, no other.
LEMMA FailAbandons ==
    ASSUME EditInv, AbandonedInv, NEW c \in Clients, Fail(c)
    PROVE  AbandonedInv'
<1> DEFINE more == Abandoned \cup {call[c].id}
<1>1. /\ failures' = failures + 1 /\ linked' = linked \ {c} /\ custom' = custom
      /\ \A d \in Clients \ {c} : call'[d] = call[d]
    BY DEF Fail, GiveUp, EditInv, TypeOK
<1>2. linked \subseteq Clients /\ failures \in Nat
    BY FailuresAssumption DEF EditInv, TypeOK
<1>3. Abandoned' \in SUBSET more
    BY <1>1, <1>2 DEF Abandoned
<1>4. /\ IsFiniteSet(more)
      /\ Cardinality(more) = IF call[c].id \in Abandoned THEN Cardinality(Abandoned)
                                                         ELSE Cardinality(Abandoned) + 1
    BY FS_AddElement DEF AbandonedInv
<1>5. IsFiniteSet(Abandoned') /\ Cardinality(Abandoned') <= Cardinality(more)
    BY <1>3, <1>4, FS_Subset
<1>6. Cardinality(Abandoned) \in Nat /\ Cardinality(Abandoned') \in Nat
    BY <1>5, FS_CardinalityType DEF AbandonedInv
<1> QED
    BY <1>1, <1>2, <1>4, <1>5, <1>6 DEF AbandonedInv

\* Without a new abandoned file their number stays within the number of failures.
LEMMA AbandonedFewer ==
    ASSUME TypeOK, AbandonedInv, Abandoned' \subseteq Abandoned, failures' = failures
    PROVE  AbandonedInv'
<1>1. IsFiniteSet(Abandoned') /\ Cardinality(Abandoned') <= Cardinality(Abandoned)
    BY FS_Subset DEF AbandonedInv
<1>2. Cardinality(Abandoned) \in Nat /\ Cardinality(Abandoned') \in Nat
    BY <1>1, FS_CardinalityType DEF AbandonedInv
<1> QED
    BY <1>1, <1>2, FailuresAssumption DEF AbandonedInv, TypeOK

\* Each step preserves the invariant of the truncated files: only a failure adds one.
LEMMA AbandonedInvariance ==
    ASSUME EditInv, AbandonedInv, [Next]_vars
    PROVE  AbandonedInv'
<1>1. CASE UNCHANGED vars
    BY <1>1 DEF vars, clientVars, AbandonedInv, Abandoned
<1>2. ASSUME NEW r \in Readers, Reader(r) PROVE AbandonedInv'
  <2>1. UNCHANGED <<custom, call, linked, failures>>
      BY <1>2 DEF Reader, FindFiles, LoadFile, SkipFile, FailLoad, FinishLoad, Answer,
                  clientVars
  <2> QED
      BY <2>1 DEF AbandonedInv, Abandoned
<1>3. ASSUME NEW c \in Clients, Client(c) PROVE AbandonedInv'
  <2>1. CASE Create(c) \/ Replace(c) \/ Update(c) \/ Delete(c)
    <3>1. /\ pc[c] = "idle" /\ UNCHANGED <<custom, linked, failures>>
          /\ \A d \in Clients \ {c} : call'[d] = call[d]
        BY <2>1 DEF Create, Replace, Update, Delete, Begin, EditInv, TypeOK
    <3>2. c \notin linked /\ linked \subseteq Clients
        BY <3>1 DEF EditInv, OpenIsLinked, TypeOK
    <3> QED
        BY <3>1, <3>2, AbandonedFrame, AbandonedFewer DEF EditInv
  <2>2. CASE Open(c)
      BY <2>2, OpenAbandons, AbandonedFewer DEF Open, EditInv
  <2>3. CASE Write(c)
    <3>1. failures' = failures
        BY <2>3 DEF Write, Return
    <3> QED
        BY <2>3, <3>1, WriteAbandons, AbandonedFewer DEF EditInv
  <2>4. CASE FindOld(c)
      BY <2>4 DEF FindOld, AbandonedInv, Abandoned
  <2>5. CASE MissOld(c) \/ UnlinkMissing(c)
    <3>1. /\ pc[c] \in {"written", "unlinking"} /\ custom' = custom /\ failures' = failures
          /\ linked \ {c} \subseteq linked'
          /\ \A d \in Clients \ {c} : call'[d] = call[d]
        BY <2>5 DEF MissOld, UnlinkMissing, GiveUp, Return, EditInv, TypeOK
    <3>2. c \notin linked /\ linked \subseteq Clients
        BY <3>1 DEF EditInv, OpenIsLinked, TypeOK
    <3> QED
        BY <3>1, <3>2, AbandonedFrame, AbandonedFewer DEF EditInv
  <2>6. CASE Unlink(c)
      BY <2>6, UnlinkAbandons, AbandonedFewer DEF Unlink, Return, EditInv
  <2>7. CASE Fail(c)
      BY <2>7, FailAbandons
  <2> QED
      BY <1>3, <2>1, <2>2, <2>3, <2>4, <2>5, <2>6, <2>7 DEF Client
<1> QED
    BY <1>1, <1>2, <1>3 DEF Next

\* A truncated file that nobody is writing is left by a failure, and each failure
\* leaves one at most, for any number of clients and ids.
THEOREM TruncationsExplained == Spec => []TruncatedFilesAreExplained
<1>1. Init => AbandonedInv
  <2> SUFFICES ASSUME Init PROVE AbandonedInv
      OBVIOUS
  <2>1. Abandoned = {}
      BY NoneAssumption DEF Init, Abandoned, Damaged
  <2> QED
      BY <2>1, FS_EmptySet DEF Init, AbandonedInv
<1>2. EditInv /\ AbandonedInv /\ [Next]_vars => (EditInv /\ AbandonedInv)'
    BY EditInvariance, AbandonedInvariance
<1>3. AbandonedInv => TruncatedFilesAreExplained
    BY DEF AbandonedInv, Abandoned, TruncatedFilesAreExplained
<1> QED
    BY <1>1, <1>2, <1>3, InitEditInv, PTL DEF Spec

-----------------------------------------------------------------------------
\* Replacing a text.  A save without overwrite and a rename test that there is no
\* file of the id they are about to write.

AsksForNoFile(k) == k.kind = "create" \/ IsRename(k)

AsksToReplace(k, id) ==
    k # NoCall /\ k.id = id /\ (k.kind = "replace" \/ (k.kind = "update" /\ k.old = id))

\* What ReplacedOnlyOnRequest says, up to the ids of overlapping or failed calls.
ReplacedOnRequestOrOverlap ==
    [][\A id \in Ids : custom[id] \in Versions /\ custom'[id] \notin {custom[id], Absent} =>
          id \in tainted \/ \E c \in Clients : AsksToReplace(call[c], id)]_vars

\* There was no file when the call began, and the client has the id to itself since.
TestStillHolds ==
    \A c \in Clients :
        pc[c] = "opening" /\ AsksForNoFile(call[c]) /\ call[c].id \notin tainted =>
            serial[call[c].id] = Absent

\* The steps after the beginning of a call keep the history of the ids of others.
LEMMA TestKept ==
    ASSUME EditInv, TestStillHolds, NEW c \in Clients, tainted \subseteq tainted',
           pc'[c] # "opening",
           \A d \in Clients \ {c} : pc'[d] = pc[d] /\ call'[d] = call[d],
           \A id \in Ids \ Names(call[c]) : serial'[id] = serial[id]
    PROVE  TestStillHolds'
<1> SUFFICES ASSUME NEW d \in Clients, pc'[d] = "opening", AsksForNoFile(call'[d]),
                    call'[d].id \notin tainted'
             PROVE  serial'[call'[d].id] = Absent
    BY DEF TestStillHolds, AsksForNoFile, IsRename
<1>1. d # c /\ pc[d] = "opening" /\ call'[d] = call[d] /\ call[d].id \notin tainted
    OBVIOUS
<1>2. call[d].id \in Names(call[d]) /\ call[d].id \in Ids
    BY <1>1 DEF EditInv, CallsOK, StepOK, WellFormed, Calls, Names
<1>3. call[d].id \notin Names(call[c])
    BY <1>1, <1>2 DEF EditInv, WorksAlone
<1> QED
    BY <1>1, <1>2, <1>3 DEF TestStillHolds

\* A call begins after its test for the file, and taints what others have begun on.
LEMMA BeginTests ==
    ASSUME EditInv, TestStillHolds, NEW c \in Clients, NEW k \in Calls,
           NEW step \in {"opening", "unlinking"},
           AsksForNoFile(k) => custom[k.id] = Absent,
           Begin(c, k, step)
    PROVE  TestStillHolds'
<1> DEFINE others == UNION {Names(call[d]) : d \in Clients \ {c}}
<1>1. /\ pc' = [pc EXCEPT ![c] = step] /\ call' = [call EXCEPT ![c] = k]
      /\ tainted' = (tainted \ Names(k)) \cup (Names(k) \cap others)
      /\ \A id \in Ids : serial'[id] =
            IF id \in (tainted \cap Names(k)) \ others THEN custom[id] ELSE serial[id]
      /\ call[c] = NoCall
    BY DEF Begin, EditInv, CallsOK, StepOK
<1>2. /\ Names(call[c]) = {} /\ call'[c] = k
      /\ k.id \in Names(k) /\ k.id \in Ids
      /\ \A d \in Clients \ {c} : pc'[d] = pc[d] /\ call'[d] = call[d]
    BY <1>1, NoneAssumption DEF EditInv, TypeOK, Names, Calls
<1>3. \A d \in Clients \ {c} : Names(call[d]) \subseteq others
    OBVIOUS
<1> HIDE DEF others
<1> SUFFICES ASSUME NEW d \in Clients, pc'[d] = "opening", AsksForNoFile(call'[d]),
                    call'[d].id \notin tainted'
             PROVE  serial'[call'[d].id] = Absent
    BY DEF TestStillHolds, AsksForNoFile, IsRename
<1>4. CASE d = c
  <2>1. custom[k.id] = Absent /\ k.id \notin others
      BY <1>1, <1>2, <1>4
  <2>2. ~Busy(k.id)
      BY <1>2, <1>3, <2>1 DEF Busy
  <2>3. k.id \in tainted \/ custom[k.id] = serial[k.id]
      BY <1>2, <2>2 DEF EditInv, SerialUnlessOverlapping
  <2> QED
      BY <1>1, <1>2, <1>4, <2>1, <2>3
<1>5. CASE d # c
  <2>1. pc[d] = "opening" /\ call'[d] = call[d]
      BY <1>2, <1>5
  <2>2. call[d].id \in Names(call[d]) /\ call[d].id \in Ids
      BY <2>1 DEF EditInv, CallsOK, StepOK, WellFormed, Calls, Names
  <2>3. call[d].id \notin Names(k) /\ call[d].id \notin tainted
      BY <1>1, <1>3, <1>5, <2>1, <2>2
  <2> QED
      BY <1>1, <2>1, <2>2, <2>3 DEF TestStillHolds
<1> QED
    BY <1>4, <1>5

\* Each step preserves what the tests have found.
LEMMA TestInvariance ==
    ASSUME EditInv, TestStillHolds, [Next]_vars
    PROVE  TestStillHolds'
<1>1. CASE UNCHANGED vars
    BY <1>1 DEF vars, clientVars, historyVars, TestStillHolds, AsksForNoFile, IsRename
<1>2. ASSUME NEW r \in Readers, Reader(r) PROVE TestStillHolds'
  <2>1. UNCHANGED <<pc, call, serial, tainted>>
      BY <1>2 DEF Reader, FindFiles, LoadFile, SkipFile, FailLoad, FinishLoad, Answer,
                  clientVars, historyVars
  <2> QED
      BY <2>1 DEF TestStillHolds, AsksForNoFile, IsRename
<1>3. ASSUME NEW c \in Clients, Client(c) PROVE TestStillHolds'
  <2>1. CASE Create(c) \/ Replace(c)
    <3>1. PICK kd \in {"create", "replace"}, id \in Ids, v \in Versions :
              /\ kd = "create" => custom[id] = Absent
              /\ Begin(c, [kind |-> kd, id |-> id, old |-> id, version |-> v], "opening")
        BY <2>1 DEF Create, Replace
    <3> DEFINE k == [kind |-> kd, id |-> id, old |-> id, version |-> v]
    <3>2. k \in Calls /\ (AsksForNoFile(k) => custom[k.id] = Absent)
        BY <3>1 DEF Calls, AsksForNoFile, IsRename
    <3> HIDE DEF k
    <3> QED
        BY <3>1, <3>2, BeginTests DEF k
  <2>2. CASE Update(c)
    <3>1. PICK old \in Ids, id \in Ids, v \in Versions :
              /\ id = old \/ custom[id] = Absent
              /\ Begin(c, [kind |-> "update", id |-> id, old |-> old, version |-> v], "opening")
        BY <2>2 DEF Update
    <3> DEFINE k == [kind |-> "update", id |-> id, old |-> old, version |-> v]
    <3>2. k \in Calls /\ (AsksForNoFile(k) => custom[k.id] = Absent)
        BY <3>1 DEF Calls, AsksForNoFile, IsRename
    <3> HIDE DEF k
    <3> QED
        BY <3>1, <3>2, BeginTests DEF k
  <2>3. CASE Delete(c)
    <3>1. PICK id \in Ids :
              Begin(c, [kind |-> "delete", id |-> id, old |-> id, version |-> NoVersion],
                    "unlinking")
        BY <2>3 DEF Delete
    <3> DEFINE k == [kind |-> "delete", id |-> id, old |-> id, version |-> NoVersion]
    <3>2. k \in Calls /\ ~AsksForNoFile(k)
        BY DEF Calls, AsksForNoFile, IsRename
    <3> HIDE DEF k
    <3> QED
        BY <3>1, <3>2, BeginTests DEF k
  <2>4. CASE Open(c) \/ FindOld(c) \/ UnlinkMissing(c) \/ Fail(c)
    <3>1. /\ tainted \subseteq tainted' /\ pc'[c] # "opening" /\ serial' = serial
          /\ \A d \in Clients \ {c} : pc'[d] = pc[d] /\ call'[d] = call[d]
        BY <2>4 DEF Open, FindOld, UnlinkMissing, Fail, GiveUp, historyVars, EditInv, TypeOK
    <3> QED
        BY <3>1, TestKept
  <2>5. ASSUME Return(c), pc[c] # "idle" PROVE TestStillHolds'
    <3>1. /\ tainted' = tainted /\ pc'[c] # "opening" /\ call[c] # NoCall
          /\ \A d \in Clients \ {c} : pc'[d] = pc[d] /\ call'[d] = call[d]
        BY <2>5 DEF Return, EditInv, TypeOK, CallsOK, StepOK
    <3>2. \A id \in Ids \ Names(call[c]) : serial'[id] = serial[id]
        BY <2>5, <3>1 DEF Return, After, Names, EditInv, TypeOK
    <3> QED
        BY <3>1, <3>2, TestKept
  <2>6. CASE Write(c)
    <3>1. CASE IsRename(call[c])
      <4>1. /\ tainted' = tainted /\ pc'[c] # "opening" /\ serial' = serial
            /\ \A d \in Clients \ {c} : pc'[d] = pc[d] /\ call'[d] = call[d]
          BY <2>6, <3>1 DEF Write, historyVars, EditInv, TypeOK
      <4> QED
          BY <4>1, TestKept
    <3>2. CASE ~IsRename(call[c])
        BY <2>5, <2>6, <3>2 DEF Write
    <3> QED
        BY <3>1, <3>2
  <2>7. CASE MissOld(c) \/ Unlink(c)
      BY <2>5, <2>7 DEF MissOld, Unlink
  <2> QED
      BY <1>3, <2>1, <2>2, <2>3, <2>4, <2>6, <2>7 DEF Client
<1> QED
    BY <1>1, <1>2, <1>3 DEF Next

\* ReplacedOnlyOnRequest does not hold, but only calls that overlap or fail break it:
\* a client that has an id to itself replaces no text without having been asked to.
THEOREM ReplacementsAreAskedFor == Spec => ReplacedOnRequestOrOverlap
<1>1. ASSUME EditInv, TestStillHolds, [Next]_vars, NEW id \in Ids, id \notin tainted,
             custom[id] \in Versions, custom'[id] \notin {custom[id], Absent}
      PROVE  \E c \in Clients : AsksToReplace(call[c], id)
  <2>1. /\ {Absent, "truncated", "mixed"} \cap Versions = {}
      BY NoneAssumption DEF Damaged
  <2>2. PICK c \in Clients : Open(c) \/ Write(c) \/ Unlink(c)
    <3>1. ASSUME NEW r \in Readers, Reader(r) PROVE UNCHANGED custom
        BY <3>1 DEF Reader, FindFiles, LoadFile, SkipFile, FailLoad, FinishLoad, Answer
    <3>2. ASSUME NEW c \in Clients, Create(c) \/ Replace(c) \/ Update(c) \/ Delete(c)
          PROVE  UNCHANGED custom
        BY <3>2 DEF Create, Replace, Update, Delete, Begin
    <3>3. ASSUME NEW c \in Clients, FindOld(c) \/ MissOld(c) \/ UnlinkMissing(c) \/ Fail(c)
          PROVE  UNCHANGED custom
        BY <3>3 DEF FindOld, MissOld, UnlinkMissing, Fail, GiveUp
    <3>4. custom' # custom /\ ~UNCHANGED vars
        BY <1>1 DEF vars
    <3> QED
        BY <1>1, <3>1, <3>2, <3>3, <3>4 DEF Next, Client
  <2>3. /\ pc[c] # "idle" /\ call[c] # NoCall /\ call[c] \in Calls
        /\ call[c].kind # "update" => call[c].id = call[c].old
      BY <1>1, <2>2 DEF Open, Write, Unlink, EditInv, CallsOK, StepOK, WellFormed
  <2>4. ~Unlink(c)
      BY <1>1 DEF Unlink, SetFile, EditInv, TypeOK
  <2>5. call[c].id = id
      BY <1>1, <2>2, <2>4 DEF Open, Write, SetFile, EditInv, TypeOK
  <2>6. id \in Names(call[c])
      BY <2>3, <2>5 DEF Names
  <2>7. custom[id] = SoFar(c, id)
      BY <1>1, <2>6 DEF EditInv, OwnFilesOK
  <2>8. CASE Write(c)
    <3>1. pc[c] = "opened" /\ call[c].kind # "delete"
        BY <1>1, <2>8 DEF Write, EditInv, CallsOK, StepOK
    <3>2. custom[id] = "truncated"
        BY <2>5, <2>7, <3>1 DEF SoFar
    <3> QED
        BY <1>1, <2>1, <3>2
  <2>9. CASE Open(c)
    <3>1. pc[c] = "opening" /\ call[c].kind # "delete"
        BY <1>1, <2>9 DEF Open, EditInv, CallsOK, StepOK
    <3>2. custom[id] = serial[id]
        BY <2>7, <3>1 DEF SoFar
    <3>3. ~AsksForNoFile(call[c])
        BY <1>1, <2>1, <2>5, <3>1, <3>2 DEF TestStillHolds
    <3>4. call[c].kind \in {"create", "replace", "update", "delete"}
        BY <2>3 DEF Calls
    <3>5. AsksToReplace(call[c], id)
        BY <2>3, <2>5, <3>1, <3>3, <3>4 DEF AsksForNoFile, AsksToReplace, IsRename
    <3> QED
        BY <3>5
  <2> QED
      BY <2>2, <2>4, <2>8, <2>9
<1>2. EditInv /\ TestStillHolds /\ [Next]_vars => (EditInv /\ TestStillHolds)'
    BY EditInvariance, TestInvariance
<1>3. EditInv /\ TestStillHolds /\ [Next]_vars =>
          [\A id \in Ids : custom[id] \in Versions /\ custom'[id] \notin {custom[id], Absent} =>
              id \in tainted \/ \E c \in Clients : AsksToReplace(call[c], id)]_vars
    BY <1>1
<1>4. Init => TestStillHolds
    BY DEF Init, TestStillHolds
<1> QED
    BY <1>2, <1>3, <1>4, InitEditInv, PTL DEF Spec, ReplacedOnRequestOrOverlap

=============================================================================
