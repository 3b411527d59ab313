\* Two channels, and a frame behind another in its chunk of data.
CONSTANTS
    MaxChannels = 2
    MaxTemplates = 1
    MaxExtras = 0
    MaxUpdates = 0
    MaxChunk = 1
    MaxChannelJobs = 2
    MaxSubmissions = 10000
    Difficulty <- OneDifficulty
    Resolved <- OneDifficulty
    d1 = d1
    d2 = d2
    Nonce <- NoNonce
SPECIFICATION Spec
INVARIANT SessionReleased
CHECK_DEADLOCK FALSE
