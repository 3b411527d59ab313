\* Polling by timer and by ZMQ messages under fairness: overlapping polls and
\* fetches, a failing call, a dropped connection or a reorganisation, and a
\* build error.
SPECIFICATION FairSpec
CONSTANTS
    b1 = b1
    b2 = b2
    c1 = c1
    c2 = c2
    ZmqModes = {TRUE, FALSE}
    MaxHeight = 2
    Branch <- TwoBranches
    Content <- OneContent
    MaxAge = 0
    MaxPolls = 2
    MaxSessions = 1
    MaxFailures = 1
    MaxBuildErrors = 1
INVARIANTS
    NoWorkBelowTip
    LatestIsOnOffer
PROPERTIES
    NeverBackToLowerTip
    WithdrawnOnlyWithClear
    WorkConverges
