\* The nodes-and-pods group of the workload watcher under outages; two publishers, two
\* keys, three snapshots and one reader: with fairness.
CONSTANTS
    o1 = o1
    absent = absent
    Object <- MCObject
    Absent = absent
    MaxQueued = 1
    ListOrder <- NodesAndPods
    PutOrder <- PodsThenNodes
    From <- FromNodesAndPods
    k1 = k1
    k2 = k2
    p1 = p1
    p2 = p2
    s1 = s1
    data = data
    other = other
    failure = failure
    none = none
    Key <- MCKey
    Value <- MCValue
    Typed <- MCTyped
    None <- none
    Publisher <- MCPublisher
    Subscriber <- MCSubscriber
SPECIFICATION WatcherSpec
INVARIANTS
    NoLostChange
    NoLostWakeup
PROPERTIES
    DriftHeals
    ImplementsChangeFeed
