SPECIFICATION Spec
CHECK_DEADLOCK FALSE
CONSTANTS
    Specs <- MCSpecs
    Quantities = {0, 1, 3, 4}
    Setpoints = {0, 1, 3}
    MaxSlew = 1
    RateWindow = 4
    MinRateWindow = 2
    Horizon = 6
    None = None
INVARIANTS
    MonitorTypeOK
    ViolationsPersist
    IntervalsAreTheRuns
    TotalsMatchRecord
    PeaksAreWorst
    CommandsAreJudged
