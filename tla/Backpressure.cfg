\* The load changes at will, a bind may fail, the process may crash.
SPECIFICATION FairListenerSpec
CONSTANTS
    HealthyChecks = 3
    MaxConnections = 2
    MaxServers = 3
    MaxFailures = 2
INVARIANTS
    OnlyListenerAccepts
PROPERTIES
    ResumeIsEarned
    AcceptsAgain
