SPECIFICATION Spec
CONSTANTS
    SuctionLimit = 0
    FullOpen = 2
    PumpInitiallyOn = FALSE
    OperatorSetpoint = 5
    Enabled = TRUE
    SetpointMin = 3
    SetpointMax = 8
    MaxTravel = 2
    Loop = Loop
    First = First
    Second = Second
    Handlers <- MCHandlers
    Startup = Startup
    Requests = {0, 6, 30}
    MaxPosts = 2
SYMMETRY Interchangeable
INVARIANTS
    EffectiveSetpointInRange
