SPECIFICATION Spec
CONSTANTS
    InitialObservations <- MCInitial
    Patches <- MCPatches
    Times = {0}
    Intervals = {1}
    Drains = {1}
    DrainPerSecond = 1
    MaxTicks = 2
INVARIANTS
    TypeOK
    UnsafeMeansHold
    LowBatteryReturns
    SpeedFitsMove
    FleetConflictsYield
    OverridesAreExplained
PROPERTIES
    LowBatteryNeverLeavesDock
    BatteryNeverRises
CHECK_DEADLOCK FALSE
