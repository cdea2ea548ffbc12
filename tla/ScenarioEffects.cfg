SPECIFICATION Spec
CHECK_DEADLOCK FALSE
CONSTANTS
    Scenarios <- MCScenarios
    Timestep = 3
    Duration = 16
    StepCount = 5
    Nominal <- MCNominal
    Forever = Forever
    Instants = {"demand.step", "sensor.bias", "sensor.freeze", "supervisory.blackout", "setpoint.override"}
    Ramps = {"demand.ramp", "source.depletion"}
    Times = {0, 4, 6, 12, 14}
    Durations = {1, 6, Forever}
    RampDurations = {Forever}
    MayOverlap = FALSE
INVARIANTS
    EffectsTypeOK
    FieldsReverted
    ActiveEffectsHold
    RampsArrive
    EventsHappenOnTime
