SPECIFICATION FairSpec
CONSTANTS
    Enabled = TRUE
    SetpointMin = 3
    SetpointMax = 5
    MaxTravel = 1
    TripLevel = 7
    ResetLevel = 5
    BackstopMinOff = 5
    SuctionLimit = 0
    FullOpen = 2
    PumpInitiallyOn = FALSE
    OperatorSetpoint = 4
    Deadband = 1
    MinRun = 2
    MinOffControl = 3
    EngageLevel = 2
    ReleaseLevel = 3
    Throttled = 1
    ScanTicks = 2
    NoRequest = NoRequest
    Overflow = 10
    InitialLevel = 4
    InitialSource = 1
    InitialValve = 2
    ValveTravel = 1
    NominalFlow = 2
    PumpCurve <- MCPumpCurve
    ValveCurve <- MCValveCurve
    TransmitterNoise = 1
    ElementNoise = 1
    NoReading = NoReading
    Requests <- MCRequests
    Low = 1
    Between = 4
    High = 9
    SourceLevels = {1}
    Biases <- MCSmallBiases
    Freezes = {FALSE}
    Demands = {1, 2}
    SafeLimit = 9
PROPERTIES
    PumpKeepsCycling
    TripResets
