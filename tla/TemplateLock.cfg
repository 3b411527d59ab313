\* Templates shared by two workers, or loaded by one process without PM2.
SPECIFICATION FairSpec
CONSTANTS
    p1 = p1
    p2 = p2
    alone = alone
    gone = gone
    a1 = a1
    b1 = b1
    c1 = c1
    c2 = c2
    Process <- Workers
    Solo = alone
    Gone = gone
    Call <- Calls
    Caller <- CallerOf
    MaxHeight = 2
    MaxContent = 2
    MaxFaults = 1
PROPERTIES
    AnswerFits
    EveryCallEnds
    NewTipReachesAll
    RefreshReachesAll
