------------------------------ MODULE MCCollector ------------------------------
(***************************************************************************)
(* Instances of ClusterCard, EventWatch, Rollouts and FleetFeed for TLC:   *)
(* what is made of one cluster's nodes, events and workloads, and who is   *)
(* told.  The four share nothing but the cluster's store, under different  *)
(* keys, so a behaviour is of one of them and the others are at rest: none *)
(* of their goroutines has anything to do.                                 *)
(***************************************************************************)
EXTENDS ClusterCard, EventWatch, Rollouts, FleetFeed

CONSTANTS o1, absent, n1, n2, all, c1, s1, s2

MCObject == {o1}
OneKind == <<"nodes">>
FromOneKind == [key \in {"nodes"} |-> {"nodes"}]
MCNamespace == {n1, n2}
MCCluster == {c1}
MCStream == {s1, s2}

(* A family whose pods are replaced on deletion, in two DaemonSets; one that *)
(* rolls; a service of two parts.                                            *)
WorkloadOf(kin, name, family, component, manual, nodes) ==
    [kind |-> kin, name |-> name, family |-> family, component |-> component, manual |-> manual, nodes |-> nodes]
MCWorkload ==
    {WorkloadOf("DaemonSet", "vs 1", "openvswitch", Nowhere, TRUE, {1, 2}),
     WorkloadOf("DaemonSet", "vs 2", "openvswitch", Nowhere, TRUE, {3}),
     WorkloadOf("DaemonSet", "ctl", "ovn-controller", Nowhere, FALSE, {1}),
     WorkloadOf("Deployment", "api", "nova", "nova-api", FALSE, {1}),
     WorkloadOf("DaemonSet", "compute", "nova", "nova-compute", TRUE, {1})}

VARIABLE part

NoCard ==
    /\ cluster = Nothing /\ cache = Nothing /\ backlog = Nothing
    /\ up = FALSE /\ dirty = FALSE /\ canceled = TRUE
    /\ fill = [k \in Kind |-> "unlisted"]
    /\ queued = 0
    /\ step = [g \in Goroutine |-> 0]
    /\ held = [g \in Goroutine |-> Nothing]
    /\ initial = "over"
    /\ shown = [key \in ShownKey |-> Absent]
    /\ probe = "failed" /\ old = TRUE

NoEvents ==
    /\ watches = {} /\ served = {} /\ listed = {} /\ reporting = {}
    /\ stale = FALSE /\ noted = TRUE /\ first = "over" /\ published = TRUE
    /\ publishing = [p \in Publisher |-> "idle"]
    /\ pane = "events"

NoFeed ==
    /\ version = [c \in Cluster |-> 0]
    /\ subscribed = [c \in Cluster |-> TRUE]
    /\ tick = [c \in Cluster |-> FALSE]
    /\ window = [c \in Cluster |-> "passed"]
    /\ changed = TRUE
    /\ state = [s \in Stream |-> "closed"]
    /\ toRead = [s \in Stream |-> {}]
    /\ page = [s \in Stream |-> [c \in Cluster |-> 0]]
    /\ announced = version /\ deprived = {}

NoRolling ==
    /\ template = [w \in Workload |-> 0]
    /\ revision = [w \in Workload |-> 0]
    /\ running = [w \in Workload |-> [n \in w.nodes |-> [rev |-> 0, ready |-> TRUE]]]
    /\ counts = [w \in Workload |-> CountsNow(w)]
    /\ bumps = MaxBump /\ fails = MaxFail
    /\ poll = [Idle EXCEPT !.step = 5] /\ components = <<>> /\ moved = FALSE

CollectorInit ==
    \/ part = "card" /\ CardInit /\ NoEvents /\ NoRolling /\ NoFeed
    \/ part = "events" /\ EventsInit /\ NoCard /\ NoRolling /\ NoFeed
    \/ part = "rollouts" /\ RolloutsInit /\ NoCard /\ NoEvents /\ NoFeed
    \/ part = "feed" /\ FeedInit /\ NoCard /\ NoEvents /\ NoRolling

CollectorNext ==
    /\ UNCHANGED part
    /\ \/ part = "card" /\ CardNext /\ UNCHANGED <<eventVars, rolloutVars, feedVars>>
       \/ part = "events" /\ EventsNext /\ UNCHANGED <<allVars, rolloutVars, feedVars>>
       \/ part = "rollouts" /\ RolloutsNext /\ UNCHANGED <<allVars, eventVars, feedVars>>
       \/ part = "feed" /\ FeedNext /\ UNCHANGED <<allVars, eventVars, rolloutVars>>

CollectorSpec ==
    /\ CollectorInit /\ [][CollectorNext]_<<part, allVars, eventVars, rolloutVars, feedVars>>
    /\ CardFairness /\ EventsFairness /\ RolloutsFairness /\ FeedFairness

===============================================================================
