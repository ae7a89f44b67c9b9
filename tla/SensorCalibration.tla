------------------------- MODULE SensorCalibration -------------------------
(***************************************************************************)
(* AMDC and STUM, the first two stages of a tick: AMDCCalibrator.calibrate *)
(* subtracts from the sensors what it has learned of their biases, and     *)
(* STUMGate.evaluate turns what drift is left into an uncertainty and a    *)
(* gate.  AMDC is the only stage with a memory: one moving average per     *)
(* name, which lags behind the drift it follows.                           *)
(*                                                                         *)
(* Real numbers are integers in units of 1/10000, rounded down.            *)
(* exp(decay_k * state_age_s) is a table.                                  *)
(***************************************************************************)
EXTENDS Integers, FiniteSets, Functions

CONSTANTS
    SensorNames,   \* the names sensor_readings may use: any string is legal,
                   \* also one that AMDC itself uses in its memory
    Observations,  \* what the robot may observe in a tick
    AgedSigma,     \* state_sigma per decay context and state_age_s
    MaxTicks       \* bound on the ticks of a pipeline

Unit == 10000

\* The defaults the pipeline builds AMDC and STUM with.
Alpha == 17                   \* alpha, in twentieths
ReferenceTemperature == 25
ReferenceMu == 5500
ReferenceDoorDelay == 23000
ReferenceLux == 500
PayloadMax == 10 * Unit
LowSigma == 1000
HighSigma == 2000
ReplanSigma == 6000
EmergencySigma == 8000

\* The names under which AMDC remembers a bias of its own.
CarryGoNames ==
    {"default", "floor_friction_mu", "elevator_door_delay_s", "camera_depth_m",
     "camera_exposure", "imu_yaw_rate_dps", "wheel_odometry_delta_m", "payload_scale_kg"}

Names == CarryGoNames \cup SensorNames

DriftTypes ==
    {"floor_friction", "elevator_timing", "camera_depth", "imu_vibration", "payload_scale"}

Contexts == {"elevator", "carry_go", "other"}

\* The numeric fields of an observation; one that is absent has a default, or
\* switches a correction off.
Scalars ==
    {"temperature_c", "sensor_bias",
     "floor_mu_observed", "commanded_velocity_mps", "actual_velocity_mps",
     "elevator_observed_door_delay_s", "elevator_expected_door_delay_s",
     "camera_lux_current", "camera_lux_reference", "camera_flicker_hz",
     "camera_sharpness", "depth_reading_m", "depth_reference_m",
     "imu_vibration_rms", "imu_yaw_rate_bias_dps",
     "wheel_odometry_delta_m", "visual_odometry_delta_m",
     "payload_scale_reading_kg", "payload_scale_bias_kg", "payload_reference_kg",
     "perception_uncertainty", "localization_uncertainty", "state_age_s",
     "model_disagreement", "route_ambiguity"}

\* scalars: the numeric fields it has, of any sign.  mapped: it has sensor_readings,
\* and sensor_biases says how far each of them is off.  ages: sensor_age_s with
\* sensor_max_age_s.
IsObservation(o) ==
    /\ DOMAIN o.scalars \subseteq Scalars
    /\ \A f \in DOMAIN o.scalars : o.scalars[f] \in Int
    /\ o.mapped \in BOOLEAN
    /\ DOMAIN o.sensor_biases \subseteq SensorNames
    /\ IsFiniteSet(DOMAIN o.sensor_biases)
    /\ \A s \in DOMAIN o.sensor_biases : o.sensor_biases[s] \in Int
    /\ IsFiniteSet(DOMAIN o.ages)
    /\ \A s \in DOMAIN o.ages : o.ages[s].age \in Int /\ o.ages[s].max_age \in Int
    /\ o.flags \subseteq {"sensor_blackout", "elevator_queue_unknown"}
    /\ o.context \in Contexts

ASSUME ObservationsAssumption == \A o \in Observations : IsObservation(o)
ASSUME BoundsAssumption == MaxTicks \in Nat

VARIABLES
    bias_estimates,  \* the memory of AMDC, where an absent name counts as zero
    observation,     \* the last observation
    calibrated,      \* what AMDC and STUM made of it
    step_index,      \* ticks so far
    drift            \* history, per name: the least and the greatest bias
                     \* observed, the last one, and how far the estimate may be
                     \* off it

vars == <<bias_estimates, observation, calibrated, step_index, drift>>

AtMost(n, limit) == IF n <= limit THEN n ELSE limit
AtLeast(n, limit) == IF n >= limit THEN n ELSE limit
Clamp(low, n, high) == AtLeast(AtMost(n, high), low)
Abs(n) == IF n < 0 THEN -n ELSE n

Has(o, f) == f \in DOMAIN o.scalars
Get(o, f, default) == IF Has(o, f) THEN o.scalars[f] ELSE default

-----------------------------------------------------------------------------
(***************************************************************************)
(* AMDC: what a tick observes of each bias.                                *)
(***************************************************************************)

ThermalOffset(o) ==
    8 * (Get(o, "temperature_c", ReferenceTemperature) - ReferenceTemperature)

\* _calibrate_floor_friction: the friction is observed, or follows from a
\* velocity that falls short of the commanded one.
HasFloor(o) ==
    \/ Has(o, "floor_mu_observed")
    \/ /\ Has(o, "commanded_velocity_mps") /\ Has(o, "actual_velocity_mps")
       /\ o.scalars["commanded_velocity_mps"] > 0

FloorMu(o) ==
    IF Has(o, "floor_mu_observed") THEN o.scalars["floor_mu_observed"]
    ELSE Clamp(0, (ReferenceMu * o.scalars["actual_velocity_mps"])
                       \div o.scalars["commanded_velocity_mps"],
               (ReferenceMu * 12) \div 10)

FloorBias(o) == ReferenceMu - Clamp(500, FloorMu(o), Unit)

\* _calibrate_elevator_timing
HasElevator(o) == Has(o, "elevator_observed_door_delay_s")

ElevatorBias(o) ==
    o.scalars["elevator_observed_door_delay_s"]
        - Get(o, "elevator_expected_door_delay_s", ReferenceDoorDelay)

\* _calibrate_camera_depth; the drift of the exposure is one twentieth of the
\* relative change of the light.
HasCamera(o) ==
    \E f \in {"camera_lux_current", "camera_flicker_hz", "depth_reading_m",
              "depth_reference_m", "camera_sharpness"} : Has(o, f)

HasDepth(o) == Has(o, "depth_reading_m") /\ Has(o, "depth_reference_m")

DepthBias(o) == o.scalars["depth_reading_m"] - o.scalars["depth_reference_m"]

ExposureBias(o) ==
    LET reference == Get(o, "camera_lux_reference", ReferenceLux)
    IN  ((Get(o, "camera_lux_current", ReferenceLux) - reference) * (Unit \div 20))
            \div AtLeast(reference, 1)

\* _calibrate_imu_vibration
HasImu(o) ==
    \E f \in {"imu_vibration_rms", "imu_yaw_rate_bias_dps",
              "wheel_odometry_delta_m", "visual_odometry_delta_m"} : Has(o, f)

HasOdometry(o) == Has(o, "wheel_odometry_delta_m") /\ Has(o, "visual_odometry_delta_m")

OdometryBias(o) ==
    o.scalars["wheel_odometry_delta_m"] - o.scalars["visual_odometry_delta_m"]

\* _calibrate_payload_scale: an explicit bias, or the distance to a reference.
HasPayload(o) == Has(o, "payload_scale_reading_kg")

PayloadBias(o) ==
    (IF Has(o, "payload_scale_bias_kg") THEN o.scalars["payload_scale_bias_kg"]
     ELSE IF Has(o, "payload_reference_kg")
          THEN o.scalars["payload_scale_reading_kg"] - o.scalars["payload_reference_kg"]
     ELSE 0)
    + 10 * ThermalOffset(o)

\* The biases the sensors show, by name: those of the sensor map, or the generic one ...
SensorBiases(o) ==
    IF o.mapped THEN o.sensor_biases ELSE [n \in {"default"} |-> Get(o, "sensor_bias", 0)]

\* ... and those of the Carry & Go drift types, as far as their fields are there.
Shows(o, n) ==
    \/ n = "floor_friction_mu" /\ HasFloor(o)
    \/ n = "elevator_door_delay_s" /\ HasElevator(o)
    \/ n = "camera_depth_m" /\ HasDepth(o)
    \/ n = "camera_exposure" /\ HasCamera(o)
    \/ n = "imu_yaw_rate_dps" /\ HasImu(o)
    \/ n = "wheel_odometry_delta_m" /\ HasOdometry(o)
    \/ n = "payload_scale_kg" /\ HasPayload(o)

CarryGoBiases(o) ==
    [n \in {m \in CarryGoNames : Shows(o, m)} |->
        CASE n = "floor_friction_mu" -> FloorBias(o)
          [] n = "elevator_door_delay_s" -> ElevatorBias(o)
          [] n = "camera_depth_m" -> DepthBias(o)
          [] n = "camera_exposure" -> ExposureBias(o)
          [] n = "imu_yaw_rate_dps" -> Get(o, "imu_yaw_rate_bias_dps", 0)
          [] n = "wheel_odometry_delta_m" -> OdometryBias(o)
          [] n = "payload_scale_kg" -> PayloadBias(o)]

\* Mutant: the observed bias is added at its full weight.
Accumulated(previous, observed) == (Alpha * previous + 20 * observed) \div 20

\* _update_bias: the exponential moving average.
Averaged(previous, observed) == (Alpha * previous + (20 - Alpha) * observed) \div 20

\* Every name in biases is updated once.
Learned(estimates, biases) ==
    [n \in Names |->
        IF n \in DOMAIN biases THEN Averaged(estimates[n], biases[n]) ELSE estimates[n]]

-----------------------------------------------------------------------------
(***************************************************************************)
(* AMDC: the corrections and the residuals, from the estimates e1 after    *)
(* the sensor map and e2 after the tick.                                   *)
(***************************************************************************)

\* Mutant: a scale may read less than nothing.
NegativePayload(o, e) ==
    o.scalars["payload_scale_reading_kg"] - e["payload_scale_kg"]

CorrectedPayload(o, e) ==
    AtLeast(o.scalars["payload_scale_reading_kg"] - e["payload_scale_kg"], 0)

OverLimit(kg) == kg > PayloadMax

CameraResidual(o, e) ==
    Abs(e["camera_exposure"]) + (IF HasDepth(o) THEN Abs(e["camera_depth_m"]) ELSE 0)
        + Abs(ThermalOffset(o))
        + (IF Get(o, "camera_flicker_hz", 0) \in 95..105 THEN 400 ELSE 0)

\* quality_sigma: a blurred image adds to it.
CameraSigma(o, e) ==
    AtMost(CameraResidual(o, e)
               + (AtLeast(Unit - Get(o, "camera_sharpness", Unit), 0) * 8) \div 100, Unit)

ImuResidual(o, e) ==
    Abs(e["imu_yaw_rate_dps"]) \div 10
        + (IF HasOdometry(o) THEN Abs(e["wheel_odometry_delta_m"]) ELSE 0)
        + AtMost(Get(o, "imu_vibration_rms", 0) \div 5, Unit)

\* Mutant: the odometry does not count as localization uncertainty.
VibrationSigma(o, e) == AtMost(Get(o, "imu_vibration_rms", 0) \div 5, Unit)

\* localization_sigma
ImuSigma(o, e) == AtMost(ImuResidual(o, e), Unit)

\* carry_go_drift_types
Drifts(o) ==
    {t \in DriftTypes :
        \/ t = "floor_friction" /\ HasFloor(o)
        \/ t = "elevator_timing" /\ HasElevator(o)
        \/ t = "camera_depth" /\ HasCamera(o)
        \/ t = "imu_vibration" /\ HasImu(o)
        \/ t = "payload_scale" /\ HasPayload(o)}

CarryGoResiduals(o, e) ==
    [t \in Drifts(o) |->
        CASE t = "floor_friction" -> Abs(e["floor_friction_mu"])
          [] t = "elevator_timing" -> Abs(e["elevator_door_delay_s"])
          [] t = "camera_depth" -> CameraResidual(o, e)
          [] t = "imu_vibration" -> ImuResidual(o, e)
          [] t = "payload_scale" -> Abs(e["payload_scale_kg"])]

SensorResiduals(o, e) ==
    IF o.mapped
    THEN [s \in DOMAIN o.sensor_biases |-> Abs(e[s] + ThermalOffset(o))]
    ELSE <<>>

\* _merge_residuals: dict.update.
Merged(sensors, carry_go) ==
    [n \in DOMAIN sensors \cup DOMAIN carry_go |->
        IF n \in DOMAIN carry_go THEN carry_go[n] ELSE sensors[n]]

\* _mean_abs
Mean(residuals) ==
    IF DOMAIN residuals = {} THEN 0
    ELSE SumFunction([n \in DOMAIN residuals |-> Abs(residuals[n])])
             \div SumFunction([n \in DOMAIN residuals |-> 1])

\* The generic residual is one number and no entry of amdc_residuals: when there
\* is a Carry & Go correction, _merge_residuals replaces it.
AmdcResidual(o, e1, residuals) ==
    IF o.mapped \/ DOMAIN residuals # {} THEN Mean(residuals)
    ELSE Abs(e1["default"]) + Abs(ThermalOffset(o))

-----------------------------------------------------------------------------
(***************************************************************************)
(* STUM.  Sums of squares are compared with squared thresholds.            *)
(***************************************************************************)

Weight(n) ==
    CASE n = "floor_friction" -> 5
      [] n = "elevator_timing" -> 3
      [] n = "camera_depth" -> 8
      [] n = "imu_vibration" -> 9
      [] n = "payload_scale" -> 4
      [] OTHER -> 5

WeightedResidual(residuals) ==
    IF DOMAIN residuals = {} THEN 0
    ELSE AtMost(SumFunction([n \in DOMAIN residuals |-> Abs(residuals[n]) * Weight(n)])
                    \div SumFunction([n \in DOMAIN residuals |-> Weight(n)]), Unit)

\* perception and localization are what the observation says or, if larger, what
\* the camera and the IMU do.
SpatialSigma(o, e, residual, residuals) ==
    LET perception == AtLeast(Get(o, "perception_uncertainty", 0),
                              IF HasCamera(o) THEN CameraSigma(o, e) ELSE 0)
        localization == AtLeast(Get(o, "localization_uncertainty", 0),
                                IF HasImu(o) THEN ImuSigma(o, e) ELSE 0)
    IN  AtMost(AtLeast(residual, WeightedResidual(residuals)) + perception + localization
                   + (IF "sensor_blackout" \in o.flags THEN 3500 ELSE 0), Unit)

\* _sensor_freshness_uncertainty: the stalest sensor and the number of stale ones.
FreshnessSigma(o) ==
    LET ratio == [s \in DOMAIN o.ages |->
                     AtLeast((o.ages[s].age * Unit) \div AtLeast(o.ages[s].max_age, 1), 0)]
        excess == {AtLeast(ratio[s] - Unit, 0) : s \in DOMAIN ratio} \cup {0}
        worst == CHOOSE x \in excess : \A y \in excess : x >= y
        stale == [s \in DOMAIN ratio |-> IF ratio[s] > Unit THEN 1 ELSE 0]
    IN  AtMost((worst * 12) \div 100 + 400 * SumFunction(stale), Unit)

StateSigma(o) == AgedSigma[o.context][AtLeast(Get(o, "state_age_s", 0), 0)]

ASSUME AgedSigmaAssumption == \A o \in Observations : StateSigma(o) \in Nat

ModelSigma(o) ==
    AtMost(Get(o, "model_disagreement", 0) + Get(o, "route_ambiguity", 0)
               + (IF "elevator_queue_unknown" \in o.flags THEN 500 ELSE 0), Unit)

Square(n) == n * n

\* The square of sigma_total.
TotalSquare(o, e, residual, residuals) ==
    LET temporal == AtMost(Square(StateSigma(o)) + Square(FreshnessSigma(o)), Square(Unit))
    IN  AtMost(Square(SpatialSigma(o, e, residual, residuals)) + temporal
                   + Square(ModelSigma(o)), Square(Unit))

Gate(total) ==
    IF total < Square(LowSigma) THEN "LOW"
    ELSE IF total < Square(HighSigma) THEN "MEDIUM" ELSE "HIGH"

-----------------------------------------------------------------------------

NoObservation ==
    [scalars |-> <<>>, mapped |-> TRUE, sensor_biases |-> <<>>, flags |-> {},
     context |-> "other", ages |-> <<>>]

Idle == [residuals |-> <<>>, amdc_residual |-> 0, corrected_payload_kg |-> 0,
         over_limit |-> FALSE, stum_gate |-> "LOW", should_replan |-> FALSE, should_estop |-> FALSE]

Calibration(o, e1, e2) ==
    LET residuals == Merged(SensorResiduals(o, e1), CarryGoResiduals(o, e2))
        residual == AmdcResidual(o, e1, residuals)
        total == TotalSquare(o, e2, residual, residuals)
        payload == IF HasPayload(o) THEN CorrectedPayload(o, e2) ELSE 0
    IN  [residuals |-> residuals, amdc_residual |-> residual,
         corrected_payload_kg |-> payload, over_limit |-> OverLimit(payload),
         stum_gate |-> Gate(total), should_replan |-> total >= Square(ReplanSigma),
         should_estop |-> total >= Square(EmergencySigma)]

\* History: what has been observed of one bias.  An estimate starts at zero; its
\* distance to a drift that stands still shrinks by 15% with every tick, and it is
\* at most the range of the drift when it has changed.
Followed(d, b) ==
    LET low == AtMost(d.low, b)
        high == AtLeast(d.high, b)
    IN  [low |-> low, high |-> high, last |-> b,
         lag |-> (Alpha * (IF b = d.last THEN d.lag ELSE high - low) + 19) \div 20]

Watched(d, biases) ==
    [n \in Names |-> IF n \in DOMAIN biases THEN Followed(d[n], biases[n]) ELSE d[n]]

Init ==
    /\ bias_estimates = [n \in Names |-> 0]
    /\ observation = NoObservation
    /\ calibrated = Idle
    /\ step_index = 0
    /\ drift = [n \in Names |-> [low |-> 0, high |-> 0, last |-> 0, lag |-> 0]]

\* The amdc and stum stages of PIC2Pipeline.step.  A sensor with a name of AMDC's
\* own is averaged into the same estimate, and then once more.
Sense ==
    /\ step_index < MaxTicks
    /\ step_index' = step_index + 1
    /\ \E o \in Observations :
          LET e1 == Learned(bias_estimates, SensorBiases(o))
              e2 == Learned(e1, CarryGoBiases(o))
          IN  /\ observation' = o
              /\ bias_estimates' = e2
              /\ calibrated' = Calibration(o, e1, e2)
              /\ drift' = Watched(Watched(drift, SensorBiases(o)), CarryGoBiases(o))

Next == Sense

Spec == Init /\ [][Next]_vars

-----------------------------------------------------------------------------
(***************************************************************************)
(* Properties.                                                             *)
(***************************************************************************)

TypeOK ==
    /\ bias_estimates \in [Names -> Int]
    /\ IsObservation(observation)
    /\ calibrated.corrected_payload_kg \in Nat
    /\ calibrated.over_limit \in BOOLEAN
    /\ calibrated.stum_gate \in {"LOW", "MEDIUM", "HIGH"}
    /\ step_index \in Nat

\* The weight of the package if the scale is off by as much as it is said to be.
TrueWeight(o) == o.scalars["payload_scale_reading_kg"] - PayloadBias(o)

\* AMDC corrects the scale by its estimate, which lags behind the drift it is told
\* of, so the verdict on a package may be wrong either way.  It errs only when the
\* weight is as close to the limit as the estimate may lag: at most the range of
\* the drift since the start, and 15% less with every tick the drift stands still.
VerdictErrsWithinLag ==
    HasPayload(observation) =>
        LET weight == TrueWeight(observation)
            lag == drift["payload_scale_kg"].lag
        IN  /\ weight > PayloadMax + lag => calibrated.over_limit
            /\ weight <= PayloadMax - lag => ~calibrated.over_limit

\* The gate sees means of residuals, so one drift hides behind others that are
\* small.  How far: a residual n times the threshold cannot be averaged away by
\* n - 1 others, and a camera or IMU drift not at all, because it also counts as
\* perception or localization uncertainty.  The generic bias of a tick without a
\* sensor map, when there is any Carry & Go correction, is not seen whatever it is;
\* and an uncertainty that is reported as less than nothing hides as much drift.
DriftsReachTheGate ==
    LET r == calibrated.residuals
        n == SumFunction([t \in DOMAIN r |-> 1])
        o == observation
    IN  \/ calibrated.stum_gate = "HIGH"
        \/ Get(o, "perception_uncertainty", 0) < 0
        \/ Get(o, "localization_uncertainty", 0) < 0
        \/ /\ \A t \in DOMAIN r : r[t] < n * HighSigma
           /\ HasCamera(o) => r["camera_depth"] < HighSigma
           /\ HasImu(o) => r["imu_vibration"] < HighSigma
           /\ ~o.mapped /\ DOMAIN r = {} => Abs(bias_estimates["default"]) < HighSigma

=============================================================================
