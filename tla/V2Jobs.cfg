\* Job traffic of two channels, and shares of one: two templates, one pass or overtaking.
CONSTANTS
    MaxChannels = 2
    MaxTemplates = 2
    MaxExtras = 1
    MaxUpdates = 1
    MaxChunk = 0
    MaxChannelJobs = 2
    MaxSubmissions = 10000
    Difficulty <- TwoDifficulties
    Resolved <- OneDifficulty
    d1 = d1
    d2 = d2
    Nonce <- OneNonce
SPECIFICATION MCSpec
INVARIANTS TypeOK QuietChannelsAgree SettledOnLatest CreditedOnce
PROPERTY TipsReachMiners
CHECK_DEADLOCK FALSE
