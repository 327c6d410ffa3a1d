--------------------------------- MODULE Hosts ---------------------------------
(***************************************************************************)
(* Machines and the hardware under them, as the Machines pane shows them   *)
(* (internal/core/capi/project.go and join.go,                             *)
(* internal/core/panes/machines.go, internal/app/debug.go).                *)
(*                                                                         *)
(* Three kinds of object are listed apart, so what the pane joins may be   *)
(* of three different moments.  A provider machine claims a host by an     *)
(* annotation of its own and by the host's consumerRef; either may come    *)
(* first and the annotation may be lost.  Machines are narrowed to one     *)
(* cluster, provider machines and hosts are not.                           *)
(*                                                                         *)
(* Names, namespaces and roles are numbers, in their order; a Machine and  *)
(* its provider machine have the same name.                                *)
(***************************************************************************)
EXTENDS Integers, Sequences, FiniteSets, SequencesExt, FiniteSetsExt, Functions

CONSTANTS
    Machine,    \* name -> [ns, cluster, owners: sequence of kinds, infra: kind, role]
    Hardware,   \* host name -> its namespace
    OfCluster,  \* the clusters the watched name is equal to or a prefix of
    Narrowed    \* whether the watcher was given a name at all

Nothing == 0

ASSUME HostsAssumption ==
    /\ Narrowed \in BOOLEAN
    /\ DOMAIN Machine \subseteq Nat \ {Nothing} /\ DOMAIN Hardware \subseteq Nat \ {Nothing}
    /\ IsFiniteSet(DOMAIN Machine) /\ IsFiniteSet(DOMAIN Hardware)
    /\ \A m \in DOMAIN Machine : Machine[m].ns \in Nat \ {Nothing} /\ Machine[m].role \in Nat
    /\ \A h \in DOMAIN Hardware : Hardware[h] \in Nat \ {Nothing}

VARIABLES
    bound,      \* machine -> the host its provider machine was given
    annotated,  \* the machines whose provider machine says so
    consumer,   \* host -> whose consumerRef it has: a machine, Outsider or Nothing
    machineList, providerList, hostList     \* what the three keys of the store hold

hostVars == <<bound, annotated, consumer, machineList, providerList, hostList>>
hostLists == <<machineList, providerList, hostList>>

Metal3MachineKind == "Metal3Machine"
ControlPlaneRole == 1
Outsider == -1      \* a consumer outside Cluster API
Unlisted == [listed |-> FALSE, items |-> <<>>]
Listed(items) == [listed |-> TRUE, items |-> items]

HostsInit ==
    /\ bound = [m \in DOMAIN Machine |-> Nothing]
    /\ annotated = {}
    /\ consumer = [h \in DOMAIN Hardware |-> Nothing]
    /\ machineList = Unlisted /\ providerList = Unlisted /\ hostList = Unlisted

-------------------------------------------------------------------------------
(* Projection. *)

(* sort.SliceStable, by an order in which no two items are equal: the i-th   *)
(* is the one that all but i come after.                                     *)
SortedBy(items, before) ==
    [i \in 1 .. Cardinality(items) |->
        CHOOSE a \in items : Cardinality({b \in items : <<a, b>> \notin before}) = i]

(* sortByNamespacedName, of items with distinct names. *)
ByName(items) ==
    SortedBy(items, {p \in items \X items : \/ p[1].ns < p[2].ns
                                            \/ p[1].ns = p[2].ns /\ p[1].name < p[2].name})

(* firstOwnerOfKind, among the kinds that own machines. *)
OwnerOf(m) ==
    LET owning == SelectSeq(Machine[m].owners, LAMBDA k : k \in {"KubeadmControlPlane", "MachineSet"})
    IN IF owning = <<>> THEN "none" ELSE owning[1]

MachineOf(m) ==
    [ns |-> Machine[m].ns, name |-> m, owner |-> OwnerOf(m), infra |-> Machine[m].infra,
     phase |-> IF bound[m] = Nothing THEN "Provisioning" ELSE "Running"]

(* ofCluster: one whose cluster is not known is kept. *)
Kept == {m \in DOMAIN Machine : ~Narrowed \/ Machine[m].cluster \in OfCluster \cup {"none"}}

ProjectMachines == ByName({MachineOf(m) : m \in Kept})

(* bareMetalHostRef: the annotation names a namespace and a host, or a host  *)
(* of the provider machine's own namespace.                                  *)
BareMetalHostRef(m) ==
    LET h == bound[m]
    IN IF m \notin annotated THEN [ns |-> Nothing, name |-> Nothing]
       ELSE [ns |-> Hardware[h], name |-> h]

ProviderOf(m) == [ns |-> Machine[m].ns, name |-> m, host |-> BareMetalHostRef(m)]
ProjectMetal3Machines ==
    ByName({ProviderOf(m) : m \in {m \in DOMAIN Machine : Machine[m].infra = Metal3MachineKind}})

(* A consumerRef may leave out the namespace it shares with the host. *)
ConsumerRef(h) ==
    CASE consumer[h] = Nothing -> [kind |-> "none", ns |-> Nothing, name |-> Nothing]
      [] consumer[h] = Outsider -> [kind |-> "Host", ns |-> Nothing, name |-> Outsider]
      [] OTHER ->
           [kind |-> Metal3MachineKind, name |-> consumer[h],
            ns |-> IF Machine[consumer[h]].ns = Hardware[h] THEN Nothing ELSE Machine[consumer[h]].ns]

HostOf(h) ==
    [ns |-> Hardware[h], name |-> h, consumer |-> ConsumerRef(h),
     state |-> IF consumer[h] = Nothing THEN "available" ELSE "provisioned"]
ProjectBareMetalHosts == ByName({HostOf(h) : h \in DOMAIN Hardware})

-------------------------------------------------------------------------------
(* The join. *)

Pick(set) == IF set = {} THEN Nothing ELSE (CHOOSE x \in set : TRUE).name

(* Join, for one machine: its provider machine by the infrastructure         *)
(* reference, then the host that one names, then a host that names it.       *)
HostFor(machine, providers, hosts) ==
    LET m3m == {p \in providers : /\ machine.infra = Metal3MachineKind
                                  /\ p.ns = machine.ns /\ p.name = machine.name}
        named == {h \in hosts : \E p \in m3m :
                    p.host.name # Nothing /\ h.ns = p.host.ns /\ h.name = p.host.name}
        naming == {h \in hosts : \E p \in m3m :
                    /\ h.consumer.kind = Metal3MachineKind
                    /\ h.consumer.name = p.name
                    /\ p.ns = (IF h.consumer.ns = Nothing THEN h.ns ELSE h.consumer.ns)}
    IN [provider |-> m3m # {}, host |-> IF named # {} THEN Pick(named) ELSE Pick(naming)]

(* ActivityRank: a machine or a host on its way, then a broken one. *)
ActivityRank(machine, at, hosts) ==
    LET host == {h \in hosts : h.name = at.host}
    IN IF \/ machine.phase \in {"Pending", "Provisioning", "Deleting", "Deleted"}
          \/ \E h \in host : h.state = "available"
          \/ host = {} /\ at.provider THEN 0
       ELSE IF machine.phase = "Failed" THEN 1 ELSE 2

RowOf(m, providers, hosts) ==
    LET at == HostFor(m, providers, hosts)
        control == m.owner = "KubeadmControlPlane"
    IN [ns |-> m.ns, name |-> m.name, host |-> at.host, provider |-> at.provider,
        seat |-> IF control THEN 0 ELSE 1,
        role |-> IF control THEN ControlPlaneRole ELSE Machine[m.name].role,
        rank |-> ActivityRank(m, at, hosts)]

(* Those on their way first, then the control plane, then by role and name. *)
Before(a, b) ==
    \/ a.rank < b.rank
    \/ a.rank = b.rank /\ a.seat < b.seat
    \/ a.rank = b.rank /\ a.seat = b.seat /\ a.role < b.role
    \/ a.rank = b.rank /\ a.seat = b.seat /\ a.role = b.role /\ a.ns < b.ns
    \/ a.rank = b.rank /\ a.seat = b.seat /\ a.role = b.role /\ a.ns = b.ns /\ a.name < b.name

(* Join: a row for every machine. *)
Join(machines, providers, hosts) ==
    LET rows == {RowOf(m, providers, hosts) : m \in machines}
    IN SortedBy(rows, {p \in rows \X rows : Before(p[1], p[2])})

(* Faulty variant: a host is spare when no row shows it. *)
UnclaimedOnScreen(providers, hosts) ==
    LET shown == ToSet(Join(ToSet(machineList.items), providers, hosts))
    IN {h \in hosts : h.name \notin {r.host : r \in shown}}

(* UnclaimedHosts: claims are read from every provider machine and from the  *)
(* hosts' own consumers.                                                     *)
UnclaimedHosts(providers, hosts) ==
    {h \in hosts : /\ h.consumer.name = Nothing
                   /\ \A p \in providers : <<p.host.ns, p.host.name>> # <<h.ns, h.name>>}

-------------------------------------------------------------------------------
(* The pane and the diagnostic row. *)

(* machineRows: the cell of a row's host. *)
HostCell(row, hosts) ==
    IF row.host # Nothing THEN (CHOOSE h \in hosts : h.name = row.host).state
    ELSE IF row.provider THEN "awaiting" ELSE "unbound"

(* fleet: nothing without machines; the other two may not be listed yet. *)
Pane ==
    LET providers == ToSet(providerList.items)
        hosts == ToSet(hostList.items)
        rows == Join(ToSet(machineList.items), providers, hosts)
    IN IF machineList.items = <<>> THEN [rows |-> <<>>, cells |-> <<>>, spare |-> {}]
       ELSE [rows |-> rows,
             cells |-> [i \in DOMAIN rows |-> HostCell(rows[i], hosts)],
             spare |-> {h.name : h \in UnclaimedHosts(providers, hosts)}]

(* joinRow counts the same join, with no machines too. *)
JoinRow ==
    LET providers == ToSet(providerList.items)
        hosts == ToSet(hostList.items)
        rows == ToSet(Join(ToSet(machineList.items), providers, hosts))
    IN [machines |-> Cardinality(rows),
        withHost |-> Cardinality({r \in rows : r.host # Nothing}),
        unclaimed |-> Cardinality(UnclaimedHosts(providers, hosts))]

-------------------------------------------------------------------------------
(* The controllers and the lists. *)

Free(h) == consumer[h] = Nothing /\ \A m \in DOMAIN Machine : bound[m] # h

(* A host is chosen for a machine, by one mark or the other. *)
Bind(m, h) ==
    /\ Machine[m].infra = Metal3MachineKind
    /\ bound[m] = Nothing /\ Free(h)
    /\ bound' = [bound EXCEPT ![m] = h]
    /\ \/ annotated' = annotated \cup {m} /\ UNCHANGED consumer
       \/ consumer' = [consumer EXCEPT ![h] = m] /\ UNCHANGED annotated
    /\ UNCHANGED hostLists

(* The other mark follows; the annotation may go again. *)
Mark(m) ==
    /\ bound[m] # Nothing
    /\ \/ m \notin annotated /\ annotated' = annotated \cup {m} /\ UNCHANGED consumer
       \/ consumer[bound[m]] = Nothing /\ consumer' = [consumer EXCEPT ![bound[m]] = m] /\ UNCHANGED annotated
       \/ consumer[bound[m]] = m /\ m \in annotated /\ annotated' = annotated \ {m} /\ UNCHANGED consumer
    /\ UNCHANGED <<bound, hostLists>>

Release(m) ==
    /\ bound[m] # Nothing
    /\ bound' = [bound EXCEPT ![m] = Nothing]
    /\ annotated' = annotated \ {m}
    /\ consumer' = [consumer EXCEPT ![bound[m]] = Nothing]
    /\ UNCHANGED hostLists

(* A host taken outside Cluster API. *)
Take(h) ==
    /\ Free(h)
    /\ consumer' = [consumer EXCEPT ![h] = Outsider]
    /\ UNCHANGED <<bound, annotated, hostLists>>

(* The rebuild of one key, and no other. *)
ListMachines ==
    /\ machineList' = Listed(ProjectMachines)
    /\ UNCHANGED <<bound, annotated, consumer, providerList, hostList>>
ListProviders ==
    /\ providerList' = Listed(ProjectMetal3Machines)
    /\ UNCHANGED <<bound, annotated, consumer, machineList, hostList>>
ListHosts ==
    /\ hostList' = Listed(ProjectBareMetalHosts)
    /\ UNCHANGED <<bound, annotated, consumer, machineList, providerList>>

HostsNext ==
    \/ \E m \in DOMAIN Machine : (\E h \in DOMAIN Hardware : Bind(m, h)) \/ Mark(m) \/ Release(m)
    \/ \E h \in DOMAIN Hardware : Take(h)
    \/ ListMachines \/ ListProviders \/ ListHosts

HostsSpec == HostsInit /\ [][HostsNext]_hostVars

-------------------------------------------------------------------------------
(* Properties. *)

AreCurrent ==
    /\ machineList = Listed(ProjectMachines)
    /\ providerList = Listed(ProjectMetal3Machines)
    /\ hostList = Listed(ProjectBareMetalHosts)

(* However far apart the three lists are, a host a row shows is never        *)
(* offered as spare, every machine of the cluster has one row, and none that *)
(* has settled is above one on its way.  Once they are of the present, each  *)
(* row shows the host its machine was given, whichever mark is missing, and  *)
(* the spare hosts are those nobody holds, in this cluster or another        *)
(* (Join, UnclaimedHosts).                                                   *)
SpareIsSpare ==
    LET rows == ToSet(Pane.rows)
    IN /\ Pane.spare \cap {r.host : r \in rows} = {}
       /\ Len(Pane.rows) = Len(machineList.items)
       /\ \A i, j \in DOMAIN Pane.rows : i < j => Pane.rows[i].rank <= Pane.rows[j].rank
       /\ AreCurrent /\ rows # {} =>
            /\ Pane.spare = {h \in DOMAIN Hardware : Free(h)}
            /\ {<<r.name, r.host>> : r \in rows} =
                 {<<m, bound[m]>> : m \in {m \in DOMAIN Machine :
                      ~Narrowed \/ Machine[m].cluster \in OfCluster \cup {"none"}}}
            /\ JoinRow.unclaimed = Cardinality(Pane.spare)

===============================================================================
