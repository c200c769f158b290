CONSTANTS
    s1 = s1
    s2 = s2
    Slots <- MCSlots
    Pool <- MCPool
    ParticipantIds <- MCParticipantIds
    Window = 3
    CatchUp = 1
    Batch = 2
    MaxStepsInDatagram = 1
    MaxStepId = 2
    ReInitStepIds = {0}
    DebugIsFrozen = FALSE
    None = None
    Forced = Forced
SPECIFICATION Spec
INVARIANT AssignedConnectionBelongsToSlot
