\* Two templates, a retarget, one share of every job in two spellings and a failing
\* insert, under fairness.
SPECIFICATION FairSpec
CONSTANTS
    MaxTemplates = 2
    MaxPasses = 1
    MaxFaults = 1
    MaxSubmissions = 1000
    Difficulty <- OneDifficulty
    StartDifficulty = 1
    CpuDifficulty = 0
    Nonce <- OneNonce
    Spelling <- TwoSpellings
INVARIANTS CreditedOnce WorksOnLatest ToldDifficulty
PROPERTIES AckedIsCredited GivenWork
CHECK_DEADLOCK FALSE
