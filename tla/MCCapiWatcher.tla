---------------------------- MODULE MCCapiWatcher ----------------------------
(***************************************************************************)
(* Instances of CapiWatcher and Hosts for TLC: the watcher's keys, and     *)
(* what a pane makes of three of them.  How a key comes to be written is   *)
(* CapiWatcher's, what is in it Hosts', so a behaviour is of one of them.  *)
(***************************************************************************)
EXTENDS CapiWatcher, Hosts

CONSTANTS machineKind, hostKind, events

MCKind == {machineKind, hostKind}

(* A control plane machine whose owner is the second of its owners, a worker *)
(* of the cluster, one of another, and one of no cluster and no hardware.    *)
MCMachine ==
    (1 :> [ns |-> 1, cluster |-> "mine", owners |-> <<"Other", "KubeadmControlPlane">>,
           infra |-> Metal3MachineKind, role |-> 0]) @@
    (2 :> [ns |-> 2, cluster |-> "mine", owners |-> <<"MachineSet">>,
           infra |-> Metal3MachineKind, role |-> 2]) @@
    (3 :> [ns |-> 2, cluster |-> "other", owners |-> <<"MachineSet">>,
           infra |-> Metal3MachineKind, role |-> 2]) @@
    (4 :> [ns |-> 1, cluster |-> "none", owners |-> <<>>, infra |-> "Virtual", role |-> 0])
MCHardware == (11 :> 2) @@ (12 :> 1)
MCOfCluster == {"mine"}

VARIABLE part

NoCapi ==
    /\ present = [s \in Source |-> FALSE] /\ listable = [s \in Source |-> FALSE]
    /\ phase = "resolving"
    /\ unresolved = Kind
    /\ informers = {}
    /\ cache = [s \in Source |-> FALSE] /\ synced = [s \in Source |-> FALSE]
    /\ dirty = [s \in Source |-> FALSE]
    /\ toPublish = {}
    /\ canceled = TRUE
    /\ shown = [s \in Source |-> "absent"]

CapiInit ==
    /\ HostsInit
    /\ \/ part = "watcher" /\ Init
       \/ part = "hosts" /\ NoCapi

CapiNext ==
    /\ UNCHANGED part
    /\ \/ part = "watcher" /\ Next /\ UNCHANGED hostVars
       \/ part = "hosts" /\ HostsNext /\ UNCHANGED vars

CapiSpec == CapiInit /\ [][CapiNext]_<<part, vars, hostVars>> /\ Fairness

===============================================================================
