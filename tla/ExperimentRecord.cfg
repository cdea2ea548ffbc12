SPECIFICATION RecordSpec
CHECK_DEADLOCK FALSE
CONSTANTS
    DegradationSustained = 2
    LossSustained = 2
    CatastrophicUnsafe = 3
    Horizon = 5
    Samples <- MCSamples
    Shown <- MCShown
    MinimumSafe = 1000
    MaximumSafe = 4500
    CsvUnit = 10
    MetricUnit = 100
    TelemetryInterval = 3
    Scenarios <- MCScenarios
    Lasting = Lasting
    Nothing = Nothing
    Never = Never
INVARIANTS
    RecordTypeOK
    ClassMatchesTaxonomy
    CatastropheIsEarned
    SummaryMatchesTrace
    EventsTellTheRun
    RecountAgrees
    RecoveryMeansService
