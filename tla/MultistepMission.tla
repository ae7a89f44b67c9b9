-------------------------- MODULE MultistepMission --------------------------
(***************************************************************************)
(* A multi-step scenario of evaluation/multistep_runner.py: a robot on a   *)
(* grid whose observation is carried from tick to tick.  Every tick moves  *)
(* it by the action of the tick before, drains its battery, merges the     *)
(* scenario's patch for that step into the observation, where it stays,    *)
(* and runs the pipeline (module CarryGoPipeline) on the result.           *)
(*                                                                         *)
(* The scenario is any timeline made of the given patches, clock steps and *)
(* drains; a repeated step is the same patch again.  What a step expects   *)
(* is the scenario's business: a step may pass or fail, and a failed one   *)
(* ends the run when the scenario says stop_on_failure.                    *)
(***************************************************************************)
EXTENDS CarryGoPipeline

CONSTANTS
    InitialObservations, \* initial_observation of the scenarios
    Patches,    \* observation_patch: functions from some fields to values
    Times,      \* at_s of a step, seconds since the mission began
    Intervals,  \* interval_s of a step without at_s, or time_step_s
    Drains,     \* battery_drain_pct of a step, or battery_drain_pct_per_step
    DrainPerSecond,
    MaxTicks    \* bound on the length of the timeline

ASSUME InitialAssumption == \A o \in InitialObservations : IsObservation(o)
ASSUME PatchesAssumption ==
    \A p \in Patches :
        /\ DOMAIN p \subseteq Fields \ {"position", "dock"}
        /\ \A f \in DOMAIN p : p[f] \in FieldTypes[f]
ASSUME TimesAssumption ==
    Times \subseteq Nat /\ Intervals \subseteq Nat /\ Drains \subseteq Nat
ASSUME BoundsAssumption == DrainPerSecond \in Nat /\ MaxTicks \in Nat

VARIABLES
    observation,  \* current_observation
    tick,         \* the PipelineResult of the last step, whose action is
                  \* previous_action, until the next observation is built from it
    ticks,        \* the number of steps run
    phase,        \* "build" the next observation, "step" the pipeline, or "done"
    charged       \* history: the scenario set the battery of the last observation

vars == <<observation, tick, ticks, phase, charged>>

NoTick == [proposed |-> Hold, violations |-> {}, action |-> Hold, adjustment |-> "none"]

Actions == [move : Moves, speed : 0..MaxSpeed]

TypeOK ==
    /\ IsObservation(observation)
    /\ tick \in [proposed : Actions, violations : SUBSET Rules,
                 action : Actions, adjustment : Adjustments]
    /\ ticks \in Nat
    /\ phase \in {"build", "step", "done"}
    /\ charged \in BOOLEAN

Init ==
    /\ observation \in InitialObservations
    /\ tick = NoTick
    /\ ticks = 0
    /\ phase = "build"
    /\ charged = FALSE

-----------------------------------------------------------------------------

Abs(n) == IF n < 0 THEN -n ELSE n

Distance(p, q) == Abs(q[1] - p[1]) + Abs(q[2] - p[2])

\* Mutant: the signs of the two axes are taken from the wrong end.
AwayFrom(p, q) ==
    IF p[1] # q[1] THEN IF q[1] > p[1] THEN "west" ELSE "east"
    ELSE IF p[2] # q[2] THEN IF q[2] > p[2] THEN "south" ELSE "north" ELSE "hold"

\* _greedy_move: along the longer axis first, the horizontal one on a tie.
GreedyMove(p, q) ==
    LET dx == q[1] - p[1]
        dy == q[2] - p[2]
        across == Abs(dx) >= Abs(dy)
    IN  IF across /\ dx > 0 THEN "east"
        ELSE IF across /\ dx < 0 THEN "west"
        ELSE IF dy > 0 THEN "north"
        ELSE IF dy < 0 THEN "south"
        ELSE "hold"

NextPosition(p, move) ==
    CASE move = "east"  -> <<p[1] + 1, p[2]>>
      [] move = "west"  -> <<p[1] - 1, p[2]>>
      [] move = "north" -> <<p[1], p[2] + 1>>
      [] move = "south" -> <<p[1], p[2] - 1>>
      [] OTHER -> p

\* A robot that returns to its dock moves one cell towards it, at any speed.
Advanced(o, a) ==
    NextPosition(o.position,
                 IF a.move = "return_to_dock" THEN GreedyMove(o.position, o.dock) ELSE a.move)

\* Mutant: a clock that goes back charges the battery.
DrainedBySignedTime(o, drain, at) ==
    LET left == o.battery - (drain + DrainPerSecond * (at - o.elapsed))
    IN  IF left < 0 THEN 0 ELSE left

\* at_s is free to lie before the previous step's.
Drained(o, drain, at) ==
    LET delta == IF at > o.elapsed THEN at - o.elapsed ELSE 0
        left == o.battery - (drain + DrainPerSecond * delta)
    IN  IF left < 0 THEN 0 ELSE left

\* _deep_merge, of a patch that sets whole fields.
Patched(o, patch) ==
    [f \in Fields |-> IF f \in DOMAIN patch THEN patch[f] ELSE o[f]]

\* Without at_s the first step keeps the clock and the others add an interval.
StepTimes ==
    Times \cup (IF ticks = 0 THEN {observation.elapsed}
                ELSE {observation.elapsed + i : i \in Intervals})

\* _build_step_observation: move, drain, merge the patch, set the clock.  A step
\* may say advance_position: false, and apply_battery_drain: false.
BuildObservation ==
    /\ phase = "build"
    /\ phase' = "step"
    /\ \E patch \in Patches, at \in StepTimes, advance, drains \in BOOLEAN,
          drain \in Drains :
          LET o == observation
              moved == [o EXCEPT
                  !.position = IF advance /\ ticks > 0 THEN Advanced(o, tick.action) ELSE @,
                  !.battery = IF drains THEN Drained(o, drain, at) ELSE @]
          IN  /\ observation' = [Patched(moved, patch) EXCEPT !.elapsed = at]
              /\ charged' = ("battery" \in DOMAIN patch)
    /\ tick' = NoTick
    /\ UNCHANGED ticks

\* The pipeline runs and the step is evaluated; the run is over after the last
\* step, or after a failed one.
RunTick ==
    /\ phase = "step"
    /\ \E a \in Proposals(observation) : tick' = Tick(observation, a)
    /\ ticks' = ticks + 1
    /\ phase' \in IF ticks + 1 < MaxTicks THEN {"build", "done"} ELSE {"done"}
    /\ UNCHANGED <<observation, charged>>

Next == BuildObservation \/ RunTick

Spec == Init /\ [][Next]_vars

-----------------------------------------------------------------------------
(***************************************************************************)
(* Properties.                                                             *)
(***************************************************************************)

\* tick.action was decided on the current observation.
Decided == phase # "step" /\ ticks > 0

\* What the rules are there for, as conditions on the robot's surroundings.
MustHold(o) ==
    \/ o.human < PersonStop \/ o.estop \/ HighGate(o)
    \/ o.payload_kg > PayloadMax \/ (o.payload_kg > 0 /\ ~o.locked) \/ o.mismatch
    \/ ~o.door_held \/ ~o.route_safe
    \/ InElevator(o) /\ ~(o.capacity /\ ~o.queue /\ ~o.conflict)
    \/ CurrentSubtask(o) = "handoff_payload" /\ ~o.authenticated

\* Whatever GRPO proposes, and however low the battery is, a robot that must hold
\* holds: the return to the dock, applied between two overrides, and the fleet
\* adjustments, applied last, never set it going again.
UnsafeMeansHold == Decided /\ MustHold(observation) => tick.action = Hold

\* At or below the return threshold the robot goes to its dock unless it must
\* hold or the fleet makes it wait, also when HTD-IRL, whose own threshold is
\* lower, plans the delivery on as normal.
LowBatteryReturns ==
    Decided /\ observation.battery <= BatteryReturn /\ ~MustHold(observation) =>
        \/ tick.action.move = "return_to_dock"
        \/ tick.action = Hold /\ tick.adjustment \in Deferrals

SpeedLimit(move) ==
    CASE move = "return_to_dock" -> DockSpeed
      [] move = "enter_elevator" -> ElevatorSpeed
      [] move \in Directions -> MaxSpeed
      [] OTHER -> 0

\* The speed fits the final move, although it may be left over from another one:
\* the override to return_to_dock keeps the speed of the move it replaces.
SpeedFitsMove == tick.action.speed <= SpeedLimit(tick.action.move)

\* A robot that does not hold has its way: no deadlock risk, no slot awaited at
\* the dock, no elevator contended, no corridor peer of its priority or a higher
\* one.  The dock move is SEOM's as often as the planner's.
FleetConflictsYield ==
    LET o == observation
        a == tick.action
    IN  Decided /\ a.move # "hold" =>
            /\ ~o.deadlock
            /\ a.move = "return_to_dock" => ~o.dock_queue
            /\ Enters(a) => o.capacity /\ ~o.queue /\ ~o.conflict
            /\ o.corridor = "free" \/ CanClaimCorridor(o, a)

\* A final move other than the proposed one is explained in the audit entry: by a
\* violation, or by an adjustment that defers.
OverridesAreExplained ==
    tick.action.move # tick.proposed.move =>
        tick.violations # {} \/ tick.adjustment \in Deferrals

\* From a tick at low battery to the next the robot never gets farther from the
\* dock, and it gets nearer, or is there, when it moves and nothing holds it.
LowBatteryNeverLeavesDock ==
    [][phase = "build" /\ ticks > 0 /\ observation.battery <= BatteryReturn =>
          LET before == Distance(observation.position, observation.dock)
              after == Distance(observation'.position, observation.dock)
          IN  after = before \/ after = before - 1]_vars

\* The battery of the observation falls or stays unless the scenario sets it,
\* also over steps whose clock goes back.
BatteryNeverRises ==
    [][phase = "build" /\ ~charged' =>
          observation'.battery <= observation.battery]_vars

=============================================================================
