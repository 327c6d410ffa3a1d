\* Two databases of two members and one, two pods asked by a query, two hosts, one server.
CONSTANTS
    p1 = p1
    p2 = p2
    p3 = p3
    h1 = h1
    h2 = h2
    s1 = s1
    Nobody = Nobody
    Unpublished = Unpublished
    Pod <- MCPod
    Members <- MCMembers
    MaxAttempts = 2
    MaxChange = 2
    Host <- MCHost
    Server <- MCServer
    MaxDrains = 1
    InventoryEvery = 2
    MaxMigration = 2
    MaxTurn = 4
    Context = {1, 2, 3}
    Settings <- MCSettings
    Site <- MCSite
    Kubeconfig <- MCKubeconfig
    Plugin <- MCPlugin
    CoreKeys <- MCCoreKeys
    PluginKeys <- MCPluginKeys
    Attempts = 2
    Unset = Unset
    Name <- MCName
    Place <- MCPlace
    Document <- MCDocument
    MaxExtendsDepth = 3
    CephDocuments <- MCCephDocuments
    CiliumDocuments <- MCCiliumDocuments
SPECIFICATION PluginsSpec
 
INVARIANT StartIsAsAsked
INVARIANT ProfileIsLayered
 
PROPERTY PollingGoesOn
 
CHECK_DEADLOCK FALSE
