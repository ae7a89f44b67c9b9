SPECIFICATION Spec
CONSTANTS
    SensorNames = {"imu", "lidar", "payload_scale_kg"}
    Observations <- MCObservations
    AgedSigma <- MCAgedSigma
    MaxTicks = 5
INVARIANTS
    TypeOK
    VerdictErrsWithinLag
    DriftsReachTheGate
CHECK_DEADLOCK FALSE
