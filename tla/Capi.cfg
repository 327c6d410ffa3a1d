\* Two kinds and the events, under changing permissions, with fairness; four machines, two hosts.
CONSTANTS
    machineKind = machineKind
    hostKind = hostKind
    events = events
    Kind <- MCKind
    Events = events
    Machine <- MCMachine
    Hardware <- MCHardware
    OfCluster <- MCOfCluster
    Narrowed = TRUE
SPECIFICATION CapiSpec
INVARIANTS
    NoneMeansNone
    SpareIsSpare
PROPERTIES
    EventuallyReported
