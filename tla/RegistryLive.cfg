\* Two sessions served apart from the reaper, with a crash or a failing insert.
SPECIFICATION FairSpec
CONSTANTS
    MaxSession = 2
    Sv2 <- SecondSv2
    Home <- Apart
    Reaper = 0
    Dead = 2
    MaxCrash = 1
PROPERTIES
    GhostsVanish
    WorkerShownAgain
