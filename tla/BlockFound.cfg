\* Blocks found by three sessions of two processes, and their best difficulties.
SPECIFICATION Spec
CONSTANTS
    p0 = p0
    p1 = p1
    a1 = a1
    a2 = a2
    b1 = b1
    Process <- Processes
    Primary = p0
    Session <- Sessions
    ProcessOf <- ServedBy
    IsV1 <- SpeaksV1
    Target <- SessionDifficulty
    NetworkDifficulty = 2
    MaxDifficulty = 3
    MaxHeight = 2
    MaxShares = 3
    MaxFaults = 1
CHECK_DEADLOCK FALSE
INVARIANTS
    RecordedIsAnnounced
    ToldOnce
    AddressHasBest
    RecordAlertedOnce
PROPERTIES
    FoundIsSubmitted
