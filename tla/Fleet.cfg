\* One cluster, up to two collectors started, with fairness; a management cluster of one node and three pods.
CONSTANTS
    c1 = c1
    k1 = k1
    absent = absent
    Absent = absent
    Cluster <- MCCluster
    Credential <- MCCredential
    MaxStart = 2
    MaxNode = 1
    ManagementPod <- MCManagementPod
    MaxManagementPods = 2
    Workload <- MCWorkload
SPECIFICATION FleetSpec
INVARIANTS
    NoLeakedCollector
    
    ManagementIsEarned

    
