\* Two workers that reload, with more channels than prefixes: the scan wraps
\* and runs out, and the odd lane of worker 1 does not fit.
SPECIFICATION Spec
CONSTANTS
    c1 = c1
    c2 = c2
    c3 = c3
    Worker <- TwoWorkers
    Channel <- ThreeChannels
    MaxPrefix = 2
    NamespaceBase = 5
    MaxNamespace = 7
    MaxGeneration = 2
INVARIANTS
    UniqueWirePrefix
PROPERTIES
    ImplementsPool
SYMMETRY Symmetry
CHECK_DEADLOCK FALSE
