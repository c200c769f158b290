CONSTANTS
    s1 = s1
    s2 = s2
    Slots <- MCOneClient
    Clients <- MCOneClient
    Pool <- MCPool
    ParticipantIds <- MCParticipantIds
    Window = 3
    CatchUp = 1
    Batch = 2
    MaxStepsInDatagram = 2
    MaxStepId = 3
    ReInitStepIds = {0}
    DebugIsFrozen = FALSE
    None = None
    Forced = Forced
    Lookahead = 2
    NetCap = 2
    MaxLosses = 0
    ForcingModes = {TRUE, FALSE}
    MaxCrashes = 0
SPECIFICATION SessionSpec
INVARIANT SessionTypeOK
PROPERTY ClientEventuallyServed
