----------------------- MODULE MultistepMission_proofs -----------------------
(***************************************************************************)
(* Proofs about MultistepMission, for every timeline, grid and threshold   *)
(* of the observations: what the pipeline decides on any observation, and  *)
(* from it the invariants of a mission.                                    *)
(***************************************************************************)
EXTENDS MultistepMission, TLAPS

\* The numbers an observation holds are numbers.
LEMMA FieldsTyped ==
    ASSUME NEW o, IsObservation(o)
    PROVE  /\ o.sigma \in Nat /\ o.human \in Nat /\ o.battery \in Nat
           /\ o.max_speed \in Nat /\ o.payload_kg \in Nat
           /\ o.priority \in Nat /\ o.peer_priority \in Nat /\ o.elapsed \in Nat
  BY DEF IsObservation, Fields, FieldTypes

\* Every proposal of GRPO is a move at a speed of at most MaxSpeed.
LEMMA ProposalsTyped ==
    ASSUME NEW o, IsObservation(o), NEW a \in Proposals(o)
    PROVE  a \in Actions
  <1>1. Hold \in Actions
    BY DEF Hold, Candidate, Actions, Moves, MaxSpeed
  <1>2. CASE HighGate(o) \/ ShouldEstop(o)
    BY <1>1, <1>2 DEF Proposals
  <1>3. CASE ~(HighGate(o) \/ ShouldEstop(o))
    <2>1. PICK c \in PlannerCandidates(o) : a = Normalize(c)
      BY <1>3 DEF Proposals
    <2>2. c \in [move : Moves, speed : Nat]
      BY FieldsTyped DEF PlannerCandidates, Candidate, Hold, AtMost, Moves, Directions,
                         DockSpeed, ElevatorSpeed
    <2> QED
      BY <2>1, <2>2 DEF Normalize, AtMost, MaxSpeed, Actions
  <1> QED
    BY <1>2, <1>3

\* SEOM returns a hold, the return to the dock, or the move it was given.
LEMMA CheckedCases ==
    ASSUME NEW o, IsObservation(o), NEW a \in Actions
    PROVE  /\ Checked(o, a) \in Actions
           /\ \/ Checked(o, a) = Hold /\ Violations(o, a) # {}
              \/ /\ "C07" \in Violations(o, a)
                 /\ Checked(o, a) = Candidate("return_to_dock", AtMost(a.speed, DockSpeed))
              \/ Checked(o, a) = a
  <1>1. AtMost(a.speed, MaxSpeed) = a.speed
    BY DEF Actions, AtMost, MaxSpeed
  <1>2. Candidate(a.move, a.speed) = a
    BY DEF Actions, Candidate
  <1>3. Hold \in Actions /\ Candidate("return_to_dock", AtMost(a.speed, DockSpeed)) \in Actions
    BY DEF Hold, Candidate, Actions, Moves, MaxSpeed, AtMost, DockSpeed
  <1>4. LifeSafetyViolations(o, a) # {} => Violations(o, a) # {}
    BY DEF LifeSafetyViolations
  <1> QED
    BY <1>1, <1>2, <1>3, <1>4, Zenon DEF Checked

\* A robot never yields the corridor and claims it as well.
LEMMA YieldExcludesClaim ==
    ASSUME NEW o, IsObservation(o), NEW c
    PROVE  ~(ShouldYieldCorridor(o, c) /\ CanClaimCorridor(o, c))
  <1>1. PriorityScore(o, c) \in Nat /\ o.peer_priority \in Nat
    BY FieldsTyped DEF PriorityScore
  <1>2. \A m, n \in Nat : ~(m <= n /\ m > n)
    OBVIOUS
  <1> QED
    BY <1>1, <1>2, Zenon DEF CanClaimCorridor, ShouldYieldCorridor

\* CRL-MRS returns a hold that an adjustment explains, or what it was given; and
\* what it was given only if the fleet leaves it its way.
LEMMA CoordinatedCases ==
    ASSUME NEW o, IsObservation(o), NEW c \in Actions
    PROVE  /\ Coordinated(o, c).adjustment \in Adjustments
           /\ \/ /\ Coordinated(o, c).action = Hold
                 /\ Coordinated(o, c).adjustment \in Deferrals
              \/ /\ Coordinated(o, c).action = c
                 /\ c.move # "hold" =>
                       /\ ~o.deadlock
                       /\ ~ShouldYieldCorridor(o, c)
                       /\ c.move = "return_to_dock" => ~o.dock_queue
                       /\ Enters(c) => ~o.queue /\ ~o.conflict
  <1>1. Hold.move = "hold"
    BY DEF Hold, Candidate
  <1>2. CASE ShouldYieldCorridor(o, c)
    <2>1. ~CanClaimCorridor(o, c)
      BY <1>2, YieldExcludesClaim
    <2> QED
      BY <1>1, <1>2, <2>1 DEF Coordinated, Deferred, Deferrals, Adjustments
  <1>3. CASE ~ShouldYieldCorridor(o, c)
    BY <1>1, <1>3 DEF Coordinated, Deferred, Deferrals, Adjustments
  <1> QED
    BY <1>2, <1>3

SpeedFits(a) == a.speed <= SpeedLimit(a.move)

\* A proposal fits its move, and enters an elevator or hands over a payload only
\* when that is the current subtask.
LEMMA ProposalsFit ==
    ASSUME NEW o, IsObservation(o), NEW a \in Proposals(o)
    PROVE  /\ SpeedFits(a)
           /\ Enters(a) => InElevator(o)
           /\ a.move = "handoff_payload" => CurrentSubtask(o) = "handoff_payload"
  <1> DEFINE Fit(c) == /\ SpeedFits(c)
                       /\ Enters(c) => InElevator(o)
                       /\ c.move = "handoff_payload" =>
                              CurrentSubtask(o) = "handoff_payload"
  <1>1. Fit(Hold)
    BY DEF SpeedFits, SpeedLimit, Hold, Candidate, Enters, Directions
  <1>2. ASSUME NEW c \in PlannerCandidates(o) PROVE Fit(Normalize(c))
    <2>1. o.max_speed \in Nat
      BY FieldsTyped
    <2>2. CASE c = Hold
      BY <2>2 DEF SpeedFits, SpeedLimit, Hold, Candidate, Enters, Directions, Normalize, AtMost,
                  MaxSpeed
    <2>3. CASE c = Candidate("return_to_dock", AtMost(o.max_speed, DockSpeed))
      BY <2>1, <2>3 DEF SpeedFits, SpeedLimit, Candidate, Enters, Normalize, AtMost, MaxSpeed,
                        DockSpeed
    <2>4. CASE InElevator(o) /\ c = Candidate("enter_elevator", AtMost(o.max_speed, ElevatorSpeed))
      BY <2>1, <2>4 DEF SpeedFits, SpeedLimit, Candidate, Enters, Normalize, AtMost, MaxSpeed,
                        ElevatorSpeed
    <2>5. CASE CurrentSubtask(o) = "handoff_payload" /\ c = Candidate("handoff_payload", 0)
      BY <2>5 DEF SpeedFits, SpeedLimit, Candidate, Enters, Normalize, AtMost, MaxSpeed, Directions
    <2>6. ASSUME NEW d \in Directions, c = Candidate(d, o.max_speed)
          PROVE  Fit(Normalize(c))
      BY <2>1, <2>6 DEF SpeedFits, SpeedLimit, Candidate, Enters, Normalize, AtMost, MaxSpeed,
                        Directions
    <2> QED
      BY <2>2, <2>3, <2>4, <2>5, <2>6 DEF PlannerCandidates
  <1> QED
    BY <1>1, <1>2 DEF Proposals

\* The final action fits its move whatever SEOM and CRL-MRS make of a proposal.
LEMMA TickSpeedFits ==
    ASSUME NEW o, IsObservation(o), NEW a \in Proposals(o)
    PROVE  SpeedFits(Tick(o, a).action)
  <1>1. a \in Actions /\ SpeedFits(a)
    BY ProposalsTyped, ProposalsFit
  <1>2. SpeedFits(Hold)
    BY DEF SpeedFits, SpeedLimit, Hold, Candidate, Directions
  <1>3. SpeedFits(Candidate("return_to_dock", AtMost(a.speed, DockSpeed)))
    <2>1. ASSUME NEW c, c = Candidate("return_to_dock", AtMost(a.speed, DockSpeed))
          PROVE  c.move = "return_to_dock" /\ c.speed <= DockSpeed
      BY <1>1, <2>1 DEF Candidate, AtMost, DockSpeed, Actions
    <2>2. SpeedLimit("return_to_dock") = DockSpeed
      BY DEF SpeedLimit, Directions
    <2> QED
      BY <2>1, <2>2 DEF SpeedFits
  <1>4. SpeedFits(Checked(o, a)) /\ Checked(o, a) \in Actions
    BY <1>1, <1>2, <1>3, CheckedCases
  <1> QED
    BY <1>2, <1>4, CoordinatedCases DEF Tick

\* Which rule each reason to hold violates.
LEMMA MustHoldViolates ==
    ASSUME NEW o, IsObservation(o), NEW a \in Actions, MustHold(o)
    PROVE  Violations(o, a) \cap (LifeSafetyRules \cup HoldRules) # {}
  <1>1. o.human \in Nat /\ o.payload_kg \in Nat
    BY FieldsTyped
  <1>2. \E r \in LifeSafetyRules \cup HoldRules : ~RuleResults(o, a)[r]
    <2>1. CASE o.human < PersonStop
      <3>1. ~(o.human >= PersonStop)
        BY <1>1, <2>1 DEF PersonStop
      <3>2. ~RuleResults(o, a)["C01"]
        BY <3>1, <2>1, Zenon DEF RuleResults
      <3> QED BY <3>2 DEF LifeSafetyRules
    <2>2. CASE o.estop
      <3>1. ~RuleResults(o, a)["C12"]
        BY <2>2 DEF RuleResults
      <3> QED BY <3>1 DEF LifeSafetyRules
    <2>3. CASE HighGate(o)
      <3>1. ~RuleResults(o, a)["R1"]
        BY <2>3 DEF RuleResults
      <3> QED BY <3>1 DEF LifeSafetyRules
    <2>4. CASE o.payload_kg > PayloadMax
      <3>1. ~(o.payload_kg <= PayloadMax)
        BY <1>1, <2>4 DEF PayloadMax
      <3>2. ~RuleResults(o, a)["C06"]
        BY <3>1, <2>4, Zenon DEF RuleResults
      <3> QED BY <3>2 DEF HoldRules
    <2>5. CASE o.payload_kg > 0 /\ ~o.locked
      <3>1. ~(o.payload_kg <= 0)
        BY <1>1, <2>5
      <3>2. ~RuleResults(o, a)["C03"]
        BY <3>1, <2>5, Zenon DEF RuleResults
      <3> QED BY <3>2 DEF HoldRules
    <2>6. CASE o.mismatch
      <3>1. ~RuleResults(o, a)["C11"]
        BY <2>6 DEF RuleResults
      <3> QED BY <3>1 DEF HoldRules
    <2>7. CASE ~o.door_held
      <3>1. ~RuleResults(o, a)["C04"]
        BY <2>7 DEF RuleResults
      <3> QED BY <3>1 DEF HoldRules
    <2>8. CASE ~o.route_safe
      <3>1. ~RuleResults(o, a)["C08"]
        BY <2>8 DEF RuleResults
      <3> QED BY <3>1 DEF HoldRules
    <2>9. CASE InElevator(o) /\ ~(o.capacity /\ ~o.queue /\ ~o.conflict)
      <3>1. ~RuleResults(o, a)["C09"]
        BY <2>9 DEF RuleResults, ElevatorCapacityOk
      <3> QED BY <3>1 DEF HoldRules
    <2>10. CASE CurrentSubtask(o) = "handoff_payload" /\ ~o.authenticated
      <3>1. ~RuleResults(o, a)["C10"]
        BY <2>10 DEF RuleResults, HandoffAuthOk
      <3> QED BY <3>1 DEF HoldRules
    <2> QED
      BY <2>1, <2>2, <2>3, <2>4, <2>5, <2>6, <2>7, <2>8, <2>9, <2>10 DEF MustHold
  <1> QED
    BY <1>2 DEF Violations, LifeSafetyRules, HoldRules, Rules

\* SEOM holds exactly when a rule of those that hold is violated.
LEMMA CheckedHolds ==
    ASSUME NEW o, NEW a,
           Violations(o, a) \cap (LifeSafetyRules \cup HoldRules) # {}
    PROVE  Checked(o, a) = Hold
  BY DEF Checked, LifeSafetyViolations

\* A robot that must hold holds.
LEMMA TickHolds ==
    ASSUME NEW o, IsObservation(o), NEW a \in Proposals(o), MustHold(o)
    PROVE  Tick(o, a).action = Hold
  <1>1. a \in Actions
    BY ProposalsTyped
  <1>2. Checked(o, a) = Hold
    BY <1>1, MustHoldViolates, CheckedHolds
  <1>3. Checked(o, a) \in Actions
    BY <1>1, CheckedCases
  <1> QED
    BY <1>2, <1>3, CoordinatedCases DEF Tick

\* A robot with no reason to hold violates no rule that holds: an elevator rule or
\* a handoff rule is only violated in its own subtask.
LEMMA OnlyMustHoldViolates ==
    ASSUME NEW o, IsObservation(o), NEW a \in Proposals(o), ~MustHold(o)
    PROVE  Violations(o, a) \cap (LifeSafetyRules \cup HoldRules) = {}
  <1>1. /\ o.human \in Nat /\ o.payload_kg \in Nat /\ o.sigma \in Nat
        /\ \A b \in {o.estop, o.locked, o.mismatch, o.door_held, o.route_safe,
                     o.capacity, o.queue, o.conflict, o.authenticated} : b \in BOOLEAN
    BY FieldsTyped DEF IsObservation, Fields, FieldTypes
  <1>2. /\ Enters(a) => InElevator(o)
        /\ a.move = "handoff_payload" => CurrentSubtask(o) = "handoff_payload"
    BY ProposalsFit
  <1>3. ~HighGate(o) /\ ~ShouldEstop(o)
    BY <1>1 DEF MustHold, HighGate, ShouldEstop, HighSigma, EstopSigma
  <1>4. o.human >= PersonStop /\ o.payload_kg <= PayloadMax
    BY <1>1 DEF MustHold, PersonStop, PayloadMax
  <1>5. o.payload_kg <= 0 \/ o.locked
    BY <1>1 DEF MustHold
  <1>6. /\ ~o.estop /\ ~o.mismatch /\ o.door_held /\ o.route_safe
        /\ InElevator(o) => o.capacity /\ ~o.conflict /\ ~o.queue
        /\ CurrentSubtask(o) = "handoff_payload" => o.authenticated
    BY Zenon DEF MustHold
  <1>7. ElevatorCapacityOk(o, a) /\ HandoffAuthOk(o, a)
    BY <1>2, <1>6, Zenon DEF ElevatorCapacityOk, HandoffAuthOk, Enters
  <1>8. /\ RuleResults(o, a)["R1"] /\ RuleResults(o, a)["C01"] /\ RuleResults(o, a)["C03"]
        /\ RuleResults(o, a)["C04"] /\ RuleResults(o, a)["C06"] /\ RuleResults(o, a)["C08"]
        /\ RuleResults(o, a)["C09"] /\ RuleResults(o, a)["C10"] /\ RuleResults(o, a)["C11"]
        /\ RuleResults(o, a)["C12"]
    BY <1>3, <1>4, <1>5, <1>6, <1>7, Zenon DEF RuleResults
  <1> QED
    BY <1>8 DEF Violations, LifeSafetyRules, HoldRules

\* At low battery a robot with no reason to hold returns, or the fleet defers it.
LEMMA TickReturns ==
    ASSUME NEW o, IsObservation(o), NEW a \in Proposals(o), ~MustHold(o),
           o.battery <= BatteryReturn
    PROVE  \/ Tick(o, a).action.move = "return_to_dock"
           \/ Tick(o, a).action = Hold /\ Tick(o, a).adjustment \in Deferrals
  <1>1. a \in Actions /\ Checked(o, a) \in Actions
    BY ProposalsTyped, CheckedCases
  <1>2. Checked(o, a).move = "return_to_dock"
    <2>1. Violations(o, a) \cap (LifeSafetyRules \cup HoldRules) = {}
      BY OnlyMustHoldViolates
    <2>2. ~(o.battery > BatteryReturn)
      BY FieldsTyped DEF BatteryReturn
    <2>3. "C07" \in Violations(o, a) \/ a.move = "return_to_dock"
      BY <2>2, Zenon DEF Violations, RuleResults, Rules
    <2> QED
      BY <2>1, <2>3 DEF Checked, LifeSafetyViolations, Candidate
  <1> QED
    BY <1>1, <1>2, CoordinatedCases DEF Tick

\* A robot that does not hold has its way.
LEMMA TickHasItsWay ==
    ASSUME NEW o, IsObservation(o), NEW a \in Proposals(o),
           Tick(o, a).action.move # "hold"
    PROVE  LET b == Tick(o, a).action
           IN  /\ ~o.deadlock
               /\ b.move = "return_to_dock" => ~o.dock_queue
               /\ Enters(b) => o.capacity /\ ~o.queue /\ ~o.conflict
               /\ o.corridor = "free" \/ CanClaimCorridor(o, b)
  <1> DEFINE c == Checked(o, a)
             b == Tick(o, a).action
  <1>1. a \in Actions /\ c \in Actions
    BY ProposalsTyped, CheckedCases
  <1>2. Hold.move = "hold"
    BY DEF Hold, Candidate
  <1>3. /\ b = c
        /\ ~o.deadlock /\ ~ShouldYieldCorridor(o, c)
        /\ c.move = "return_to_dock" => ~o.dock_queue
        /\ Enters(c) => ~o.queue /\ ~o.conflict
    BY <1>1, <1>2, CoordinatedCases DEF Tick
  <1>4. o.corridor = "free" \/ CanClaimCorridor(o, c)
    <2>1. PriorityScore(o, c) \in Nat /\ o.peer_priority \in Nat
      BY FieldsTyped DEF PriorityScore
    <2>2. PriorityScore(o, c) <= o.peer_priority \/ PriorityScore(o, c) > o.peer_priority
      BY <2>1
    <2>3. c.move # "hold"
      BY <1>3
    <2>4. o.corridor \in {"free", "peer unknown", "peer known"}
      BY DEF IsObservation, Fields, FieldTypes
    <2> QED
      BY <1>3, <2>2, <2>3, <2>4, Zenon DEF ShouldYieldCorridor, CanClaimCorridor
  <1>5. Enters(c) => o.capacity
    <2>1. SUFFICES ASSUME Enters(c) PROVE o.capacity
      OBVIOUS
    <2>2. c = a /\ c # Hold
      BY <1>1, <1>2, <2>1, CheckedCases DEF Enters, Candidate
    <2>3. "C09" \notin Violations(o, a)
      BY <2>2, CheckedHolds DEF HoldRules
    <2> QED
      BY <2>1, <2>2, <2>3, Zenon DEF Violations, Rules, RuleResults, ElevatorCapacityOk, Enters
  <1> QED
    BY <1>3, <1>4, <1>5

\* A final move other than the proposed one is explained.
LEMMA TickExplained ==
    ASSUME NEW o, IsObservation(o), NEW a \in Proposals(o)
    PROVE  LET t == Tick(o, a)
           IN  t.action.move # t.proposed.move =>
                   t.violations # {} \/ t.adjustment \in Deferrals
  <1>1. a \in Actions /\ Checked(o, a) \in Actions
    BY ProposalsTyped, CheckedCases
  <1>2. Violations(o, a) # {} \/ Checked(o, a) = a
    BY <1>1, CheckedCases
  <1> QED
    BY <1>1, <1>2, CoordinatedCases DEF Tick

\* The result of a tick is well typed.
LEMMA TickTyped ==
    ASSUME NEW o, IsObservation(o), NEW a \in Proposals(o)
    PROVE  Tick(o, a) \in [proposed : Actions, violations : SUBSET Rules,
                           action : Actions, adjustment : Adjustments]
  <1>1. a \in Actions /\ Checked(o, a) \in Actions
    BY ProposalsTyped, CheckedCases
  <1>2. Hold \in Actions
    BY DEF Hold, Candidate, Actions, Moves, MaxSpeed
  <1>3. Violations(o, a) \in SUBSET Rules
    BY DEF Violations
  <1> QED
    BY <1>1, <1>2, <1>3, CoordinatedCases DEF Tick

-----------------------------------------------------------------------------
(***************************************************************************)
(* The mission.  The tick shown is one the pipeline made of the current    *)
(* observation, or none while the next observation waits to be decided on. *)
(***************************************************************************)

TickIsOfObservation ==
    IF Decided THEN \E a \in Proposals(observation) : tick = Tick(observation, a)
    ELSE tick = NoTick

IInv == TypeOK /\ TickIsOfObservation

\* A cell's neighbour is a cell.
LEMMA AdvancedTyped ==
    ASSUME NEW o, IsObservation(o), NEW a
    PROVE  Advanced(o, a) \in Int \X Int
  <1>1. o.position \in Int \X Int
    BY DEF IsObservation, Fields, FieldTypes
  <1> QED
    BY <1>1 DEF Advanced, NextPosition

\* Draining leaves a battery level, which is at most the one before.
LEMMA DrainedTyped ==
    ASSUME NEW o, IsObservation(o), NEW drain \in Nat, NEW at \in Nat
    PROVE  Drained(o, drain, at) \in Nat /\ Drained(o, drain, at) <= o.battery
  <1>1. o.battery \in Nat /\ o.elapsed \in Nat
    BY FieldsTyped
  <1>2. ASSUME NEW delta \in Nat PROVE DrainPerSecond * delta \in Nat
    BY <1>2, BoundsAssumption
  <1>3. PICK delta \in Nat : delta = IF at > o.elapsed THEN at - o.elapsed ELSE 0
    BY <1>1
  <1>4. DrainPerSecond * delta \in Nat
    BY <1>2
  <1>5. Drained(o, drain, at) =
            LET left == o.battery - (drain + DrainPerSecond * delta)
            IN  IF left < 0 THEN 0 ELSE left
    BY <1>3 DEF Drained
  <1> QED
    BY <1>1, <1>4, <1>5

\* What BuildObservation does, its choices named: the observation gets the robot's
\* new cell, a battery that is no fuller, the patch, and the clock.
LEMMA BuildCases ==
    ASSUME TypeOK, BuildObservation
    PROVE  \E patch \in Patches, at \in Nat, position \in Int \X Int, battery \in Nat :
              /\ battery <= observation.battery
              /\ \/ position = observation.position
                 \/ ticks > 0 /\ position = Advanced(observation, tick.action)
              /\ charged' = ("battery" \in DOMAIN patch)
              /\ observation' =
                    [Patched([observation EXCEPT !.position = position, !.battery = battery],
                             patch) EXCEPT !.elapsed = at]
  <1>1. PICK patch \in Patches, at \in StepTimes, advance \in BOOLEAN, drains \in BOOLEAN,
             drain \in Drains :
          /\ observation' =
                [Patched([observation EXCEPT
                    !.position = IF advance /\ ticks > 0
                                 THEN Advanced(observation, tick.action) ELSE @,
                    !.battery = IF drains THEN Drained(observation, drain, at) ELSE @],
                  patch) EXCEPT !.elapsed = at]
          /\ charged' = ("battery" \in DOMAIN patch)
    BY DEF BuildObservation
  <1>2. IsObservation(observation)
    BY DEF TypeOK
  <1>3. observation.elapsed \in Nat /\ observation.battery \in Nat
        /\ observation.position \in Int \X Int
    BY <1>2, FieldsTyped DEF IsObservation, Fields, FieldTypes
  <1>4. at \in Nat /\ drain \in Nat
    BY <1>3, TimesAssumption DEF StepTimes
  <1> DEFINE position == IF advance /\ ticks > 0
                         THEN Advanced(observation, tick.action) ELSE observation.position
             battery == IF drains THEN Drained(observation, drain, at)
                        ELSE observation.battery
  <1>5. position \in Int \X Int
    BY <1>2, <1>3, AdvancedTyped
  <1>6. battery \in Nat /\ battery <= observation.battery
    <2>1. observation.battery <= observation.battery
      BY <1>3
    <2>2. /\ Drained(observation, drain, at) \in Nat
          /\ Drained(observation, drain, at) <= observation.battery
      BY <1>2, <1>4, DrainedTyped
    <2> QED
      BY <1>3, <2>1, <2>2, Zenon
  <1>7. observation' =
            [Patched([observation EXCEPT !.position = position, !.battery = battery],
                     patch) EXCEPT !.elapsed = at]
    BY <1>1
  <1>8. \/ position = observation.position
        \/ ticks > 0 /\ position = Advanced(observation, tick.action)
    OBVIOUS
  <1> HIDE DEF position, battery
  <1> QED
    BY <1>1, <1>4, <1>5, <1>6, <1>7, <1>8

\* Giving a field a value of its type leaves an observation.
LEMMA SetField ==
    ASSUME NEW o, IsObservation(o), NEW f \in Fields, NEW v \in FieldTypes[f]
    PROVE  IsObservation([o EXCEPT ![f] = v])
  BY DEF IsObservation

\* Moving, draining and patching leave an observation an observation.
LEMMA BuildTyped ==
    ASSUME TypeOK, BuildObservation
    PROVE  IsObservation(observation')
  <1>1. PICK patch \in Patches, at \in Nat, position \in Int \X Int, battery \in Nat :
            observation' =
                [Patched([observation EXCEPT !.position = position, !.battery = battery],
                         patch) EXCEPT !.elapsed = at]
    BY BuildCases
  <1> DEFINE placed == [observation EXCEPT !["position"] = position]
             moved == [placed EXCEPT !["battery"] = battery]
  <1>2. IsObservation(observation)
    BY DEF TypeOK
  <1>3. /\ {"position", "battery", "elapsed"} \subseteq Fields
        /\ position \in FieldTypes["position"]
        /\ battery \in FieldTypes["battery"]
        /\ at \in FieldTypes["elapsed"]
    BY DEF Fields, FieldTypes
  <1>4. IsObservation(placed)
    BY <1>2, <1>3, SetField
  <1>5. IsObservation(moved)
    BY <1>3, <1>4, SetField
  <1>6. moved = [observation EXCEPT !.position = position, !.battery = battery]
    OBVIOUS
  <1> HIDE DEF moved
  <1>7. IsObservation(Patched(moved, patch))
    BY <1>5, PatchesAssumption DEF IsObservation, Patched
  <1>8. observation' = [Patched(moved, patch) EXCEPT !["elapsed"] = at]
    BY <1>1, <1>6
  <1> QED
    BY <1>3, <1>7, <1>8, SetField

\* The invariant is inductive.
THEOREM Invariance == Spec => []IInv
  <1>1. Init => IInv
    <2> SUFFICES ASSUME Init PROVE IInv
      OBVIOUS
    <2>1. NoTick \in [proposed : Actions, violations : SUBSET Rules,
                      action : Actions, adjustment : Adjustments]
      BY DEF NoTick, Hold, Candidate, Actions, Moves, MaxSpeed, Adjustments
    <2>2. IsObservation(observation)
      BY InitialAssumption DEF Init
    <2>3. ~Decided
      BY DEF Init, Decided
    <2> QED
      BY <2>1, <2>2, <2>3 DEF Init, IInv, TypeOK, TickIsOfObservation
  <1>2. IInv /\ [Next]_vars => IInv'
    <2> SUFFICES ASSUME IInv, [Next]_vars PROVE IInv'
      OBVIOUS
    <2>1. CASE BuildObservation
      <3>1. IsObservation(observation')
        BY <2>1, BuildTyped DEF IInv
      <3>2. /\ phase' = "step" /\ tick' = NoTick /\ ticks' = ticks
            /\ charged' \in BOOLEAN
        BY <2>1 DEF BuildObservation
      <3>3. NoTick \in [proposed : Actions, violations : SUBSET Rules,
                        action : Actions, adjustment : Adjustments]
        BY DEF NoTick, Hold, Candidate, Actions, Moves, MaxSpeed, Adjustments
      <3> QED
        BY <3>1, <3>2, <3>3 DEF IInv, TypeOK, TickIsOfObservation, Decided
    <2>2. CASE RunTick
      <3>1. PICK a \in Proposals(observation) : tick' = Tick(observation, a)
        BY <2>2 DEF RunTick
      <3>2. /\ observation' = observation /\ charged' = charged
            /\ phase' \in {"build", "done"} /\ ticks' = ticks + 1
        BY <2>2 DEF RunTick
      <3>3. IsObservation(observation)
        BY DEF IInv, TypeOK
      <3>4. tick' \in [proposed : Actions, violations : SUBSET Rules,
                       action : Actions, adjustment : Adjustments]
        BY <3>1, <3>3, TickTyped
      <3> QED
        BY <3>1, <3>2, <3>4 DEF IInv, TypeOK, TickIsOfObservation, Decided
    <2>3. CASE UNCHANGED vars
      BY <2>3 DEF vars, IInv, TypeOK, TickIsOfObservation, Decided
    <2> QED
      BY <2>1, <2>2, <2>3 DEF Next
  <1> QED
    BY <1>1, <1>2, PTL DEF Spec

\* Every variable keeps its type.
THEOREM TypeCorrect == Spec => []TypeOK
  <1>1. IInv => TypeOK
    BY DEF IInv
  <1> QED
    BY <1>1, Invariance, PTL

\* A robot that must hold holds, whatever was proposed.
THEOREM UnsafeHolds == Spec => []UnsafeMeansHold
  <1>1. IInv => UnsafeMeansHold
    BY TickHolds DEF IInv, TypeOK, TickIsOfObservation, UnsafeMeansHold
  <1> QED
    BY <1>1, Invariance, PTL

\* A robot at low battery returns unless it must hold or is deferred.
THEOREM LowBatteryGoesBack == Spec => []LowBatteryReturns
  <1>1. IInv => LowBatteryReturns
    BY TickReturns DEF IInv, TypeOK, TickIsOfObservation, LowBatteryReturns
  <1> QED
    BY <1>1, Invariance, PTL

\* The speed of a final action fits its move.
THEOREM SpeedsFit == Spec => []SpeedFitsMove
  <1>1. IInv => SpeedFitsMove
    <2>1. SpeedFits(NoTick.action)
      BY DEF SpeedFits, SpeedLimit, NoTick, Hold, Candidate, Directions
    <2> QED
      BY <2>1, TickSpeedFits
      DEF IInv, TypeOK, TickIsOfObservation, SpeedFitsMove, SpeedFits
  <1> QED
    BY <1>1, Invariance, PTL

\* A robot that moves is in no conflict with the fleet.
THEOREM FleetIsRespected == Spec => []FleetConflictsYield
  <1>1. IInv => FleetConflictsYield
    BY TickHasItsWay DEF IInv, TypeOK, TickIsOfObservation, FleetConflictsYield
  <1> QED
    BY <1>1, Invariance, PTL

\* An override leaves its reason in the audit entry.
THEOREM OverridesExplained == Spec => []OverridesAreExplained
  <1>1. IInv => OverridesAreExplained
    <2>1. NoTick.action.move = NoTick.proposed.move
      BY DEF NoTick
    <2> QED
      BY <2>1, TickExplained DEF IInv, TypeOK, TickIsOfObservation, OverridesAreExplained
  <1> QED
    BY <1>1, Invariance, PTL

\* The battery of the observation only rises when the scenario sets it.
THEOREM BatteryFalls == Spec => BatteryNeverRises
  <1>1. IInv /\ [Next]_vars =>
            [phase = "build" /\ ~charged' =>
                 observation'.battery <= observation.battery]_vars
    <2> SUFFICES ASSUME IInv, Next, phase = "build", ~charged'
                 PROVE  observation'.battery <= observation.battery
      BY DEF vars
    <2>1. BuildObservation
      BY DEF Next, RunTick
    <2>2. PICK patch \in Patches, at \in Nat, position \in Int \X Int, battery \in Nat :
              /\ battery <= observation.battery
              /\ charged' = ("battery" \in DOMAIN patch)
              /\ observation' =
                    [Patched([observation EXCEPT !.position = position, !.battery = battery],
                             patch) EXCEPT !.elapsed = at]
      BY <2>1, BuildCases DEF IInv
    <2>3. "battery" \in Fields /\ observation = [f \in Fields |-> observation[f]]
      BY DEF IInv, TypeOK, IsObservation, Fields, FieldTypes
    <2>4. observation'.battery = battery
      BY <2>2, <2>3 DEF Patched
    <2> QED
      BY <2>2, <2>4
  <1> QED
    BY <1>1, Invariance, PTL DEF Spec, BatteryNeverRises

\* One greedy step brings a robot one cell nearer, unless it is there.
LEMMA GreedyNearer ==
    ASSUME NEW p \in Int \X Int, NEW q \in Int \X Int
    PROVE  LET n == NextPosition(p, GreedyMove(p, q))
           IN  Distance(n, q) = Distance(p, q) \/ Distance(n, q) = Distance(p, q) - 1
  <1>1. PICK x \in Int, y \in Int, u \in Int, v \in Int : p = <<x, y>> /\ q = <<u, v>>
    OBVIOUS
  <1> DEFINE d == GreedyMove(p, q)
             n == NextPosition(p, d)
  <1>2. \A k \in Int : Abs(k) = IF k < 0 THEN -k ELSE k
    BY DEF Abs
  <1>3. /\ d = "east" => u > x
        /\ d = "west" => u < x
        /\ d = "north" => v > y
        /\ d = "south" => v < y
        /\ d \in {"east", "west", "north", "south", "hold"}
    BY <1>1, <1>2 DEF GreedyMove
  <1>4. n = CASE d = "east"  -> <<x + 1, y>>
              [] d = "west"  -> <<x - 1, y>>
              [] d = "north" -> <<x, y + 1>>
              [] d = "south" -> <<x, y - 1>>
              [] OTHER -> <<x, y>>
    BY <1>1 DEF NextPosition
  <1>5. \A a, b \in Int : Distance(<<a, b>>, q) = Abs(u - a) + Abs(v - b)
    BY <1>1 DEF Distance
  <1> SUFFICES Distance(n, q) = Distance(p, q) \/ Distance(n, q) = Distance(p, q) - 1
    OBVIOUS
  <1> HIDE DEF n, d
  <1>6. Distance(p, q) = Abs(u - x) + Abs(v - y)
    BY <1>1, <1>5
  <1>7. CASE d = "east"
    <2>1. n = <<x + 1, y>> /\ u > x
      BY <1>3, <1>4, <1>7
    <2>2. Distance(n, q) = Abs(u - (x + 1)) + Abs(v - (y))
      BY <1>5, <2>1
    <2> QED
      BY <1>2, <1>6, <2>1, <2>2
  <1>8. CASE d = "west"
    <2>1. n = <<x - 1, y>> /\ u < x
      BY <1>3, <1>4, <1>8
    <2>2. Distance(n, q) = Abs(u - (x - 1)) + Abs(v - (y))
      BY <1>5, <2>1
    <2> QED
      BY <1>2, <1>6, <2>1, <2>2
  <1>9. CASE d = "north"
    <2>1. n = <<x, y + 1>> /\ v > y
      BY <1>3, <1>4, <1>9
    <2>2. Distance(n, q) = Abs(u - (x)) + Abs(v - (y + 1))
      BY <1>5, <2>1
    <2> QED
      BY <1>2, <1>6, <2>1, <2>2
  <1>10. CASE d = "south"
    <2>1. n = <<x, y - 1>> /\ v < y
      BY <1>3, <1>4, <1>10
    <2>2. Distance(n, q) = Abs(u - (x)) + Abs(v - (y - 1))
      BY <1>5, <2>1
    <2> QED
      BY <1>2, <1>6, <2>1, <2>2
  <1>11. CASE d = "hold"
    <2>1. n = <<x, y>>
      BY <1>3, <1>4, <1>11
    <2>2. Distance(n, q) = Abs(u - (x)) + Abs(v - (y))
      BY <1>5, <2>1
    <2> QED
      BY <1>2, <1>6, <2>1, <2>2
  <1> QED
    BY <1>3, <1>7, <1>8, <1>9, <1>10, <1>11

\* From a tick at low battery to the next a robot gets no farther from its dock.
THEOREM LowBatteryStaysNear == Spec => LowBatteryNeverLeavesDock
  <1>1. IInv /\ [Next]_vars =>
            [phase = "build" /\ ticks > 0 /\ observation.battery <= BatteryReturn =>
                LET before == Distance(observation.position, observation.dock)
                    after == Distance(observation'.position, observation.dock)
                IN  after = before \/ after = before - 1]_vars
    <2> SUFFICES ASSUME IInv, Next, phase = "build", ticks > 0,
                        observation.battery <= BatteryReturn
                 PROVE  LET before == Distance(observation.position, observation.dock)
                            after == Distance(observation'.position, observation.dock)
                        IN  after = before \/ after = before - 1
      BY DEF vars
    <2>1. BuildObservation
      BY DEF Next, RunTick
    <2>2. PICK patch \in Patches, at \in Nat, position \in Int \X Int, battery \in Nat :
              /\ \/ position = observation.position
                 \/ position = Advanced(observation, tick.action)
              /\ observation' =
                    [Patched([observation EXCEPT !.position = position, !.battery = battery],
                             patch) EXCEPT !.elapsed = at]
      BY <2>1, BuildCases DEF IInv
    <2>3. /\ IsObservation(observation)
          /\ observation.position \in Int \X Int /\ observation.dock \in Int \X Int
          /\ "position" \in Fields /\ observation = [f \in Fields |-> observation[f]]
      BY DEF IInv, TypeOK, IsObservation, Fields, FieldTypes
    <2>4. observation'.position = position
      BY <2>2, <2>3, PatchesAssumption DEF Patched
    <2>5. PICK a \in Proposals(observation) : tick = Tick(observation, a)
      BY DEF IInv, TickIsOfObservation, Decided
    <2>6. tick.action = Hold \/ tick.action.move = "return_to_dock"
      BY <2>3, <2>5, TickHolds, TickReturns
    <2>7. CASE position = observation.position
      BY <2>4, <2>7
    <2>8. CASE position = Advanced(observation, tick.action) /\ tick.action = Hold
      <3>1. position = observation.position
        BY <2>8 DEF Advanced, NextPosition, Hold, Candidate
      <3> QED
        BY <3>1, <2>7
    <2>9. CASE /\ position = Advanced(observation, tick.action)
               /\ tick.action.move = "return_to_dock"
      BY <2>3, <2>4, <2>9, GreedyNearer DEF Advanced
    <2> QED
      BY <2>2, <2>6, <2>7, <2>8, <2>9
  <1> QED
    BY <1>1, Invariance, PTL DEF Spec, LowBatteryNeverLeavesDock

=============================================================================
