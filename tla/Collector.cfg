\* A group of one kind with the probe; up to two event namespaces, or one watch for
\* all of them; five workloads, of which one gets a new template; one cluster and two
\* streams, bursts of up to three Puts: with fairness.
\* With no event namespace to watch nothing more happens once the empty result is put.
CONSTANTS
    o1 = o1
    absent = absent
    Object <- MCObject
    Absent = absent
    MaxQueued = 2
    ListOrder <- OneKind
    PutOrder <- OneKind
    From <- FromOneKind
    n1 = n1
    n2 = n2
    all = all
    Namespace <- MCNamespace
    All = all
    c1 = c1
    s1 = s1
    s2 = s2
    Cluster <- MCCluster
    Stream <- MCStream
    MaxVersion = 3
    Workload <- MCWorkload
    MaxBump = 1
    MaxFail = 1
    Nowhere = Nowhere
SPECIFICATION CollectorSpec
INVARIANT LostOnlyToOthers
PROPERTY VerdictFollows
PROPERTY EventsAreAnswered
 
 
CHECK_DEADLOCK FALSE
