\* A pod of two containers, one of which is done, with a sidecar and a restart policy of
\* OnFailure, as a Job has it.
SPECIFICATION ScreenSpec
CONSTANTS
    MayHold <- MCMayHold
    Contributions <- MCContributions
    OverviewWidths <- MCOverviewWidths
    BlockColumnWidth = 52
    FixedPaneVPad = 1
    CordonExpected = {"gateway"}
    LabelWidth = 12
    Catalogs <- MCCatalogs
    Sizes <- MCSizes
    Contents <- MCContents
    MaxPresses = 1
    PeakHold = 1
    None = None
    Columns <- MCColumns
    MaxRows = 2
    MaxWidth = 60
    MaxHeight = 5
    MaxWeight = 3
    Cluster <- MCCluster
    Machine <- MCMachine
    Host <- MCHost
    Event <- MCEvent
    CollapseAfter = 2
    CardPods = 1
    PagePods = 2
    MaxEvents = 1
    MaxPool = 1
    MaxFailed = 0
    CardNode <- MCCardNode
    ExpectedCordon = {"gateway"}
    InitContainers <- MCInitContainers
    Regular <- MCRegular
    Sidecars = {"proxy"}
    Requests <- MCRequests
    RestartPolicies = {"OnFailure"}
    Named <- MCNamed
    Letters = {"a", "b"}
    Heights = {4, 6}
    MaxTyped = 1
INVARIANT HealthyIsReady
CHECK_DEADLOCK FALSE
