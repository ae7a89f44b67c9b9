------------------------ MODULE MC_SensorCalibration ------------------------
\* Observations with one drift each, some drifts that mask each other, and a sensor
\* with a name of AMDC's own.
EXTENDS SensorCalibration, TLC

Plain(scalars) ==
    [scalars |-> scalars, mapped |-> FALSE, sensor_biases |-> <<>>, flags |-> {},
     context |-> "carry_go", ages |-> <<>>]

WithMap(biases, scalars) == [Plain(scalars) EXCEPT !.mapped = TRUE, !.sensor_biases = biases]

One(field, value) == field :> value

\* What the scale reads, and how far it is said to be off, in hectograms.
Package(hg, bias) ==
    One("payload_scale_reading_kg", hg * 1000) @@ One("payload_scale_bias_kg", bias * 1000)

Referenced(hg, reference) ==
    One("payload_scale_reading_kg", hg * 1000) @@ One("payload_reference_kg", reference * 1000)

Dark ==
    One("camera_lux_current", 150) @@ One("camera_flicker_hz", 100)
        @@ One("camera_sharpness", 7500)

Shaken ==
    One("imu_vibration_rms", 2000) @@ One("imu_yaw_rate_bias_dps", 30000)
        @@ One("wheel_odometry_delta_m", 19000) @@ One("visual_odometry_delta_m", 10000)

Slippery == One("floor_mu_observed", 400)

MCObservations ==
    {Plain(<<>>),
     Plain(One("sensor_bias", 14000)),
     Plain(One("sensor_bias", 14000) @@ Package(20, 0)),
     Plain(Package(105, 10)), Plain(Package(105, 0)), Plain(Package(95, -10)),
     Plain(Package(107, 4)), Plain(Package(0, 10)),
     Plain(Referenced(95, 105) @@ One("temperature_c", 45)),
     Plain(Slippery @@ One("elevator_observed_door_delay_s", 43000)),
     Plain(One("commanded_velocity_mps", 4000) @@ One("actual_velocity_mps", 1500)),
     Plain(Dark @@ One("depth_reading_m", 28000) @@ One("depth_reference_m", 20000)),
     Plain(Shaken), Plain(Shaken @@ Slippery @@ Package(20, 0)),
     WithMap("imu" :> 14000, <<>>),
     WithMap("imu" :> 14000 @@ "lidar" :> 0, Dark),
     WithMap("payload_scale_kg" :> -30000, Package(105, 10)),
     [Plain(One("state_age_s", 20)) EXCEPT !.context = "elevator",
                                           !.flags = {"elevator_queue_unknown"}],
     [Plain(One("model_disagreement", 1500) @@ One("route_ambiguity", 400))
          EXCEPT !.flags = {"sensor_blackout"}],
     Plain(One("localization_uncertainty", -5000) @@ One("imu_yaw_rate_bias_dps", 30000)),
     [Plain(One("perception_uncertainty", 300) @@ One("localization_uncertainty", 400))
          EXCEPT !.ages = "camera" :> [age |-> 12, max_age |-> 2]]}

\* 0.02 * exp(k * age), with k = 0.14, 0.10 and 0.08.
MCAgedSigma ==
    [elevator |-> 0 :> 200 @@ 20 :> 3289,
     carry_go |-> 0 :> 200 @@ 20 :> 1478,
     other    |-> 0 :> 200 @@ 20 :> 991]

=============================================================================
