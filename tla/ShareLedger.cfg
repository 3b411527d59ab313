\* Two sessions, one of them with the process of the roll-up, over four slots.
SPECIFICATION Spec
CONSTANTS
    s1 = s1
    s2 = s2
    Session <- TwoSessions
    Home <- FirstAtHome
    Kind <- Kinds
    Retention = 2
    MaxSlot = 4
    MaxShares = 3
    MaxFailures = 1
    MaxCrashes = 1
INVARIANTS
    TypeOK
    AllTimeExact
CHECK_DEADLOCK FALSE
