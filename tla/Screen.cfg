\* The program's panes and the other kinds of pane in three sizes of terminal; panes of up
\* to seven rows; two clusters of one namespace with three machines and four hosts;
\* an overview of four blocks in three widths.
SPECIFICATION ScreenSpec
CONSTANTS
    MayHold <- MCMayHold
    Contributions <- MCContributions
    OverviewWidths <- MCOverviewWidths
    BlockColumnWidth = 52
    FixedPaneVPad = 1
    CordonExpected = {"gateway"}
    LabelWidth = 12
    Catalogs <- MCCatalogs
    Sizes <- MCSizes
    Contents <- MCContents
    MaxPresses = 1
    PeakHold = 1
    None = None
    Columns <- MCColumns
    MaxRows = 7
    MaxWidth = 60
    MaxHeight = 5
    MaxWeight = 3
    Cluster <- MCCluster
    Machine <- MCMachine
    Host <- MCHost
    Event <- MCEvent
    CollapseAfter = 2
    CardPods = 1
    PagePods = 2
    MaxEvents = 3
    MaxPool = 2
    MaxFailed = 1
    CardNode <- MCCardNode
    ExpectedCordon = {"gateway"}
    InitContainers <- MCInitContainers
    Regular <- MCRegular
    Sidecars = {"proxy"}
    Requests <- MCRequests
    RestartPolicies = {"Always", "OnFailure", "Never"}
    Named <- MCNamed
    Letters = {"a", "b"}
    Heights = {4, 6}
    MaxTyped = 1
INVARIANT PackingIsSound
INVARIANT PanesAreFilled
INVARIANT CardsTellThePages
 
INVARIANT PodRowsAreRight
INVARIANT CursorIsOnScreen
INVARIANT PluginsNeverMoveTheGrid
PROPERTY ScreenSettles
CHECK_DEADLOCK FALSE
