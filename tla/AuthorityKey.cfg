\* Rotations overlap, sessions come and go, files fail, the process crashes.
SPECIFICATION KeySpec
CONSTANTS
    s1 = s1
    s2 = s2
    Session <- TwoSessions
    MaxKeys = 4
    MaxFailures = 2
SYMMETRY Symmetry
INVARIANTS
    PublishedKeyWorks
    OldSessionsDropped
    KeyIsInFile
