--------------------------- MODULE CarryGoPipeline ---------------------------
(***************************************************************************)
(* One tick of PIC2Pipeline.step: how an observation becomes an action.    *)
(* STUM gates the uncertainty, HTD-IRL offers candidate actions, GRPO      *)
(* proposes one of them, SEOM checks it and overrides it, CRL-MRS adjusts  *)
(* it to the rest of the fleet.  The stages run in one thread and hand on  *)
(* copies, so a tick is a function of the observation and of the proposal. *)
(*                                                                         *)
(* Data abstractions: an observation is what AMDC and STUM make of the     *)
(* sensors (sigma is sigma_total in hundredths, payload_kg is the          *)
(* corrected reading); distances and speeds are in centimetres; priorities *)
(* are in halves.  The score of a candidate is a sum of a dozen rewards:   *)
(* GRPO may propose any candidate, whatever the rewards.                   *)
(***************************************************************************)
EXTENDS Integers, Sequences

\* The defaults the pipeline builds its stages with.
HighSigma == 20        \* STUMGate.high_threshold
EstopSigma == 80       \* STUMGate.emergency_threshold
BatteryAbort == 12     \* HTDIRLPlanner.battery_abort_pct
BatteryReturn == 15    \* SEOMChecker.battery_return_pct
PersonStop == 30       \* SEOMChecker.person_stop_distance_m
PayloadMax == 10       \* SEOMChecker.payload_max_kg
MaxSpeed == 40         \* max_speed_mps of GRPOPolicy and SEOMChecker
DockSpeed == 30
ElevatorSpeed == 20

Directions == {"east", "north", "south", "west"}
Moves == Directions \cup {"hold", "return_to_dock", "enter_elevator", "handoff_payload"}

Subtasks == {"localize", "navigate_to_pickup", "verify_payload", "lock_payload",
             "navigate_to_dropoff", "request_elevator", "ride_elevator",
             "handoff_payload", "confirm_delivery", "move_to_target",
             "verify_safe", "complete"}

\* What each field of an observation may be.
FieldTypes ==
    [sigma |-> Nat, human |-> Nat, estop |-> BOOLEAN, battery |-> Nat,
     max_speed |-> Nat, payload_kg |-> Nat, locked |-> BOOLEAN, mismatch |-> BOOLEAN,
     door_held |-> BOOLEAN, private_zone |-> BOOLEAN, route_safe |-> BOOLEAN,
     carry_go |-> BOOLEAN, loaded |-> BOOLEAN, elevator_required |-> BOOLEAN,
     requested |-> Subtasks \cup {"none"}, completed |-> SUBSET Subtasks,
     authenticated |-> BOOLEAN, capacity |-> BOOLEAN,
     queue |-> BOOLEAN, conflict |-> BOOLEAN, deadlock |-> BOOLEAN,
     dock_queue |-> BOOLEAN, nearby |-> BOOLEAN,
     corridor |-> {"free", "peer unknown", "peer known"},
     priority |-> Nat, peer_priority |-> Nat,
     position |-> Int \X Int, dock |-> Int \X Int, elapsed |-> Nat]

Fields == DOMAIN FieldTypes

IsObservation(o) ==
    /\ o = [f \in Fields |-> o[f]]
    /\ \A f \in Fields : o[f] \in FieldTypes[f]

AtMost(n, limit) == IF n <= limit THEN n ELSE limit

Candidate(m, s) == [move |-> m, speed |-> s]
Hold == Candidate("hold", 0)

-----------------------------------------------------------------------------
(***************************************************************************)
(* STUM and HTD-IRL.                                                       *)
(***************************************************************************)

HighGate(o) == o.sigma >= HighSigma
ShouldEstop(o) == o.sigma >= EstopSigma

TaskPlan(o) ==
    IF ~o.carry_go THEN <<"localize", "move_to_target", "verify_safe", "complete">>
    ELSE (IF o.loaded
          THEN <<"localize", "verify_payload", "navigate_to_dropoff">>
          ELSE <<"localize", "navigate_to_pickup", "verify_payload", "lock_payload">>)
         \o (IF o.elevator_required THEN <<"request_elevator", "ride_elevator">> ELSE <<>>)
         \o <<"handoff_payload", "confirm_delivery">>

\* The requested subtask if the plan has it, else the first one not completed,
\* else the last one.
CurrentSubtask(o) ==
    LET plan == TaskPlan(o)
        open == {i \in 1..Len(plan) : plan[i] \notin o.completed}
    IN  IF \E i \in 1..Len(plan) : plan[i] = o.requested THEN o.requested
        ELSE IF open = {} THEN plan[Len(plan)]
        ELSE plan[CHOOSE i \in open : \A j \in open : i <= j]

InElevator(o) == CurrentSubtask(o) \in {"request_elevator", "ride_elevator"}

\* route_strategy is safe_halt_or_return; the other strategies differ in what
\* they report, not in the candidates.
SafeHaltOrReturn(o) == ShouldEstop(o) \/ o.battery <= BatteryAbort \/ o.mismatch

PlannerCandidates(o) ==
    IF SafeHaltOrReturn(o)
    THEN IF o.battery <= BatteryAbort
         THEN {Candidate("return_to_dock", AtMost(o.max_speed, DockSpeed)), Hold}
         ELSE {Hold}
    ELSE IF InElevator(o)
    THEN {Candidate("enter_elevator", AtMost(o.max_speed, ElevatorSpeed)), Hold}
    ELSE IF CurrentSubtask(o) = "handoff_payload"
    THEN {Candidate("handoff_payload", 0), Hold}
    ELSE {Candidate(d, o.max_speed) : d \in Directions} \cup {Hold}

-----------------------------------------------------------------------------
(***************************************************************************)
(* GRPO.                                                                   *)
(***************************************************************************)

\* Mutant: the speed of a candidate is not clamped.
KeepSpeed(c) == c

Normalize(c) == [c EXCEPT !.speed = AtMost(c.speed, MaxSpeed)]

\* decide: any candidate may have the largest advantage, but the uncertainty
\* override replaces it.
Proposals(o) ==
    IF HighGate(o) \/ ShouldEstop(o) THEN {Hold}
    ELSE {Normalize(c) : c \in PlannerCandidates(o)}

-----------------------------------------------------------------------------
(***************************************************************************)
(* SEOM: the thirteen rules, and the overrides of _apply_overrides.        *)
(***************************************************************************)

Rules == {"R1", "C01", "C02", "C03", "C04", "C05", "C06", "C07", "C08", "C09",
          "C10", "C11", "C12"}
LifeSafetyRules == {"R1", "C01", "C10", "C12"}
HoldRules == {"C03", "C04", "C06", "C08", "C09", "C10", "C11"}

ElevatorCapacityOk(o, a) ==
    a.move = "enter_elevator" \/ InElevator(o) => o.capacity /\ ~o.conflict /\ ~o.queue

HandoffAuthOk(o, a) ==
    a.move = "handoff_payload" \/ CurrentSubtask(o) = "handoff_payload" => o.authenticated

RuleResults(o, a) ==
    [R1  |-> ~HighGate(o) /\ ~ShouldEstop(o),
     C01 |-> o.human >= PersonStop,
     C02 |-> a.speed <= MaxSpeed,
     C03 |-> o.payload_kg <= 0 \/ o.locked,
     C04 |-> o.door_held,
     C05 |-> ~o.private_zone,
     C06 |-> o.payload_kg <= PayloadMax,
     C07 |-> o.battery > BatteryReturn \/ a.move = "return_to_dock",
     C08 |-> o.route_safe,
     C09 |-> ElevatorCapacityOk(o, a),
     C10 |-> HandoffAuthOk(o, a),
     C11 |-> ~o.mismatch,
     C12 |-> ~o.estop /\ ~ShouldEstop(o)]

Violations(o, a) == {r \in Rules : ~RuleResults(o, a)[r]}

LifeSafetyViolations(o, a) == Violations(o, a) \cap LifeSafetyRules

\* Mutant: the return to the dock is applied last.
ReturnLast(o, a) ==
    LET v == Violations(o, a)
        speed == AtMost(a.speed, MaxSpeed)
    IN  IF LifeSafetyViolations(o, a) # {} THEN Hold
        ELSE IF "C07" \in v THEN Candidate("return_to_dock", AtMost(speed, DockSpeed))
        ELSE IF v \cap HoldRules # {} THEN Hold
        ELSE Candidate(a.move, speed)

\* Mutant: the return to the dock is for a violation of C07 alone.
ReturnIfAlone(o, a) ==
    LET v == Violations(o, a)
        speed == AtMost(a.speed, MaxSpeed)
    IN  IF LifeSafetyViolations(o, a) # {} \/ v \cap HoldRules # {} THEN Hold
        ELSE IF v = {"C07"} THEN Candidate("return_to_dock", AtMost(speed, DockSpeed))
        ELSE Candidate(a.move, speed)

\* Mutant: the return to the dock keeps the speed of the proposed move.
ReturnAtSpeed(o, a) ==
    LET v == Violations(o, a)
        speed == AtMost(a.speed, MaxSpeed)
    IN  IF LifeSafetyViolations(o, a) # {} \/ v \cap HoldRules # {} THEN Hold
        ELSE IF "C07" \in v THEN Candidate("return_to_dock", speed)
        ELSE Candidate(a.move, speed)

\* The last override wins: life safety, then an operational hold, then the return
\* to the dock, then the proposed move at a capped speed.
Checked(o, a) ==
    LET v == Violations(o, a)
        speed == AtMost(a.speed, MaxSpeed)
    IN  IF LifeSafetyViolations(o, a) # {} \/ v \cap HoldRules # {} THEN Hold
        ELSE IF "C07" \in v THEN Candidate("return_to_dock", AtMost(speed, DockSpeed))
        ELSE Candidate(a.move, speed)

-----------------------------------------------------------------------------
(***************************************************************************)
(* CRL-MRS, on the action SEOM checked.                                    *)
(***************************************************************************)

PriorityScore(o, a) ==
    o.priority + (IF a.move \in {"hold", "return_to_dock"} THEN 2 ELSE 0)
               + (IF o.payload_kg > 0 THEN 1 ELSE 0)

\* Without corridor_peer_priority the peer counts as one more than this robot.
ShouldYieldCorridor(o, a) ==
    /\ o.corridor # "free"
    /\ a.move # "hold"
    /\ o.corridor = "peer known" => PriorityScore(o, a) <= o.peer_priority

CanClaimCorridor(o, a) ==
    /\ o.corridor = "peer known"
    /\ a.move # "hold"
    /\ PriorityScore(o, a) > o.peer_priority

Enters(a) == a.move = "enter_elevator"

Deferred(why) == [action |-> Hold, adjustment |-> why]

\* Mutant: holding for a deadlock risk is not reported.
HoldSilently(o, a) ==
    LET yield  == IF ShouldYieldCorridor(o, a) THEN Deferred("yield_corridor")
                  ELSE [action |-> a, adjustment |-> "none"]
    IN  IF o.deadlock THEN [yield EXCEPT !.action = Hold]
        ELSE IF o.dock_queue /\ a.move = "return_to_dock" THEN Deferred("wait_for_dock_slot")
        ELSE yield

\* Mutant: a corridor claim goes on past a deadlock risk.
ClaimThroughDeadlock(o, a) ==
    IF ShouldYieldCorridor(o, a) THEN Deferred("yield_corridor")
    ELSE IF CanClaimCorridor(o, a)
    THEN [action |-> a, adjustment |-> "claim_corridor_priority"]
    ELSE IF o.deadlock /\ a.move # "hold" THEN Deferred("avoid_deadlock")
    ELSE IF o.dock_queue /\ a.move = "return_to_dock" THEN Deferred("wait_for_dock_slot")
    ELSE [action |-> a, adjustment |-> "none"]

\* coordinate: six adjustments one after the other, each of which may replace
\* what an earlier one did.
Coordinated(o, a) ==
    LET yield  == IF ShouldYieldCorridor(o, a) THEN Deferred("yield_corridor")
                  ELSE [action |-> a, adjustment |-> "none"]
        claim  == IF CanClaimCorridor(o, a)
                  THEN [yield EXCEPT !.adjustment = "claim_corridor_priority"] ELSE yield
        queued == IF o.queue /\ Enters(a) THEN Deferred("stagger_elevator") ELSE claim
        shared == IF o.conflict /\ Enters(a)
                  THEN Deferred("avoid_elevator_conflict") ELSE queued
        lock   == IF o.deadlock /\ shared.action.move # "hold"
                  THEN Deferred("avoid_deadlock") ELSE shared
        dock   == IF o.dock_queue /\ a.move = "return_to_dock"
                  THEN Deferred("wait_for_dock_slot") ELSE lock
    IN  IF o.nearby /\ dock.adjustment = "none"
        THEN [dock EXCEPT !.adjustment = "aware"] ELSE dock

Deferrals == {"wait_for_dock_slot", "avoid_deadlock", "avoid_elevator_conflict",
              "stagger_elevator", "yield_corridor"}
Adjustments == Deferrals \cup {"none", "aware", "claim_corridor_priority"}

\* PIC2Pipeline.step, for one proposal.
Tick(o, a) ==
    LET checked == Checked(o, a)
        final == Coordinated(o, checked)
    IN  [proposed |-> a, violations |-> Violations(o, a),
         action |-> final.action, adjustment |-> final.adjustment]

=============================================================================
