-------------------------------- MODULE Pages ---------------------------------
(***************************************************************************)
(* What the fleet's pages say: cluster cards and pages, the management     *)
(* page and the storage layer (internal/fleet; the verdicts of pkg/health  *)
(* and pkg/rollout), as functions of what the collectors' stores hold.     *)
(*                                                                         *)
(* Each cluster has a collector that watches the cluster's own namespace   *)
(* of the management cluster, so hosts and events of one namespace reach   *)
(* several stores, each at its own time: any store may be without one, or  *)
(* hold the error of its watch.  A name is the sequence of its parts       *)
(* between hyphens.  Tables are sets; where they are cut their order is    *)
(* the code's.                                                             *)
(***************************************************************************)
EXTENDS Integers, Sequences, FiniteSets, SequencesExt, FiniteSetsExt

CONSTANTS
    Cluster,        \* [ns, name, at: its place in the order of namespace and name]
    Machine,        \* [cluster, name, infra]
    Host,           \* [ns, name, consumer, role, fsid]; NoText or <<>>: none
    Event,          \* [ns, object]: events of the management cluster
    CollapseAfter,  \* the quiet rows a table shows unfolded
    CardPods, PagePods  \* the unhealthy pods a card and a page list

ASSUME PagesAssumption ==
    /\ {CollapseAfter, CardPods, PagePods} \subseteq Nat \ {0} /\ CardPods <= PagePods

VARIABLES
    phase,      \* Machine -> its phase
    fault,      \* Host -> "none", "message", "error", "degraded"
    stores,     \* Cluster -> [machines, hosts, events: Snap, ceph: fsid]
    troubled,   \* clusters that cannot be read at all
    pods,       \* the pods of a cluster
    pools,      \* [kcps, mds: sets of [desired, updated], kcpsKnown, mdsKnown: Snap]
    batch       \* a sequence of events to be grouped

pageVars == <<phase, fault, stores, troubled, pods, pools, batch>>

Snap == {"none", "failed", "ok"}
Rank == [loading |-> 0, ok |-> 1, warn |-> 2, err |-> 3]
NoText == "no-text"  \* the empty string
NoCell == "no-cell"
Unreported == "unreported"
NoFsid == "no-fsid"

-------------------------------------------------------------------------------
(* Tables. *)

MachineQuiet == 3
HostQuiet == 2

MachineRank(m) ==
    CASE phase[m] \in {"Failed", "Unknown", NoText} -> 0
      [] phase[m] = "Deleting" -> 1
      [] phase[m] = "Running" -> MachineQuiet
      [] OTHER -> 2

HostRank(h) ==
    CASE fault[h] = "message" -> 0
      [] fault[h] \in {"error", "degraded"} -> 1
      [] OTHER -> HostQuiet

(* split: a long tail of quiet rows is folded away. *)
Split(rows, tail) ==
    IF Cardinality(tail) < CollapseAfter
       THEN [shown |-> rows, quiet |-> {}]
       ELSE [shown |-> rows \ tail, quiet |-> tail]

All(s) == s.shown \cup s.quiet

(* hostsFor: those a machine of the cluster consumes. *)
HostsFor(hosts, machines) ==
    {h \in hosts : h.consumer # <<>> /\ \E m \in machines :
                     h.consumer \in {m.name, m.infra} /\ h.ns = m.cluster.ns}

-------------------------------------------------------------------------------
(* Verdicts over pods, pools and hosts. *)

(* A pod is [status, healthy, restarts, young, name]; a step of its start    *)
(* is not yet a problem. *)
Starting(p) ==
    /\ p.young /\ p.restarts = 0
    /\ p.status \in {"ContainerCreating", "PodInitializing", "Pending", "Init:0/1"}
NeedsAttention(p) == ~p.healthy /\ ~Starting(p)

(* unhealthyPods: the worst first, up to a limit, and how many were left. *)
Unhealthy(ps, limit) ==
    LET bad == {p \in ps : NeedsAttention(p)}
        above(p) == {q \in bad : q.restarts > p.restarts \/ (q.restarts = p.restarts /\ q.name < p.name)}
        shown == {p \in bad : Cardinality(above(p)) < limit}
    IN [shown |-> shown, truncated |-> Cardinality(bad \ shown)]

PodsCell(ps) ==
    IF ps = {} THEN [status |-> "loading", n |-> 0]
    ELSE LET n == Cardinality({p \in ps : NeedsAttention(p)})
         IN [status |-> IF n > 0 THEN "warn" ELSE "ok", n |-> n]

(* Pins: a declared workload of which no pod is there is missing. *)
Pin(ps, of) ==
    LET mine == {p \in ps : p.name \in of}
        ready == {p \in mine : p.healthy}
    IN IF mine = {} THEN "missing" ELSE IF ready # mine THEN "degraded" ELSE "healthy"

ItemsOf(known, items) == IF known = "ok" THEN items ELSE {}

(* The numbers of a sequence, added up one after another. *)
AddUp(q) ==
    LET upTo[n \in 0 .. Len(q)] == IF n = 0 THEN 0 ELSE upTo[n - 1] + q[n]
    IN upTo[Len(q)]

Rolling(p) == p.desired > 0 /\ p.updated < p.desired

(* Detect: the pools with replicas still to update. *)
Rollout == {p \in ItemsOf(pools.kcpsKnown, pools.kcps) \cup ItemsOf(pools.mdsKnown, pools.mds) : Rolling(p)}

(* cellRollout: over all pools at once. *)
RolloutCell ==
    LET all == SetToSeq(ItemsOf(pools.kcpsKnown, pools.kcps) \cup ItemsOf(pools.mdsKnown, pools.mds))
        desired == AddUp([i \in DOMAIN all |-> all[i].desired])
        updated == AddUp([i \in DOMAIN all |-> all[i].updated])
    IN IF pools.kcpsKnown # "ok" /\ pools.mdsKnown # "ok" THEN NoCell
       ELSE IF desired = 0 THEN "loading" ELSE IF updated >= desired THEN "ok" ELSE "warn"

HostsCell(hosts) ==
    IF hosts = {} THEN "loading"
    ELSE IF \E h \in hosts : fault[h] \in {"message", "error"} THEN "err" ELSE "ok"

-------------------------------------------------------------------------------
(* What a store holds. *)

MachinesIn(c) == {m \in Machine : m.cluster = c /\ stores[c].machines = "ok"}
HostsIn(c) == {h \in Host : h.ns = c.ns /\ stores[c].hosts = "ok"}
EventsIn(c) == {e \in Event : e.ns = c.ns /\ stores[c].events = "ok"}

(* Faulty variant of CardHosts: the cell is left as the dashboard has it. *)
CardHostsUnscoped(c) == IF stores[c].hosts # "ok" THEN NoCell ELSE HostsCell(HostsIn(c))

(* scopeHostsCell: the cell of a card is about the cluster's own hosts, if   *)
(* it is known to have any.                                                  *)
CardHosts(c) ==
    LET mine == HostsFor(HostsIn(c), MachinesIn(c))
    IN IF stores[c].hosts # "ok" THEN NoCell
       ELSE IF mine # {} THEN HostsCell(mine) ELSE HostsCell(HostsIn(c))

(* Cluster: its page; that of a troubled cluster says so and no more. *)
Page(c) ==
    LET machines == IF c \in troubled THEN {} ELSE MachinesIn(c)
        hosts == IF c \in troubled THEN {} ELSE HostsFor(HostsIn(c), machines)
    IN [machines |-> Split(machines, {m \in machines : MachineRank(m) >= MachineQuiet}),
        hosts |-> Split(hosts, {h \in hosts : HostRank(h) >= HostQuiet})]

OwnedNames(c) ==
    LET page == Page(c)
    IN ({c.name} \cup (UNION {{m.name, m.infra} : m \in All(page.machines)})
        \cup {h.name : h \in All(page.hosts)}) \ {<<>>}

(* ownsName: one of the names, or an extension of one, or extended by one. *)
OwnsName(owned, name) ==
    name # <<>> /\ \E o \in owned : IsPrefix(o, name) \/ IsPrefix(name, o)

(* eventsFor: the events a cluster's page shows. *)
PageEvents(c) ==
    IF c \in troubled THEN {}
    ELSE {e \in EventsIn(c) : OwnsName(OwnedNames(c), e.object)}

(* managementEvents: those of the Cluster API namespace that belong to no    *)
(* cluster, as one collector, whichever comes first, has them.               *)
Unclaimed(lender) ==
    {e \in EventsIn(lender) : ~OwnsName(UNION {OwnedNames(c) : c \in Cluster}, e.object)}

Lenders == {c \in Cluster : stores[c].events = "ok"}

-------------------------------------------------------------------------------
(* Grouping: an event is [key, object, count, first, last]; 0 is no time. *)

Earliest(a, b) == IF a = 0 THEN b ELSE IF b = 0 THEN a ELSE IF b < a THEN b ELSE a
Times(e) == IF e.count < 1 THEN 1 ELSE e.count

(* Faulty variant of Into: the later event brings its own beginning. *)
IntoFirstLost(g, e) ==
    [event |-> IF e.last > g.event.last THEN e ELSE g.event,
     first |-> IF e.last > g.event.last THEN e.first ELSE Earliest(g.first, e.first),
     times |-> g.times + Times(e), objects |-> g.objects \cup {e.object}]

(* An event joins its group: the latest speaks for it, from the earliest on. *)
Into(g, e) ==
    [event |-> IF e.last > g.event.last THEN e ELSE g.event,
     first |-> Earliest(g.first, e.first),
     times |-> g.times + Times(e), objects |-> g.objects \cup {e.object}]

Alone(e) == [event |-> e, first |-> e.first, times |-> Times(e), objects |-> {e.object}]
Joined(gs, e) ==
    [k \in DOMAIN gs \cup {e.key} |->
        IF k # e.key THEN gs[k] ELSE IF k \in DOMAIN gs THEN Into(gs[k], e) ELSE Alone(e)]

(* GroupEvents: one group for all events that say the same. *)
Groups(events) ==
    LET upTo[n \in 0 .. Len(events)] == IF n = 0 THEN <<>> ELSE Joined(upTo[n - 1], events[n])
    IN upTo[Len(events)]

-------------------------------------------------------------------------------
(* Storage: the hosts as the first collector that has them says, and what    *)
(* the clusters' plugins report of Ceph.                                     *)
Borrowed ==
    LET able == {c \in Cluster : stores[c].hosts = "ok"}
    IN IF able = {} THEN {} ELSE HostsIn(CHOOSE c \in able : \A d \in able : c.at <= d.at)

CephRole(h) == h.role \in {"cephmon", "cephosd"}

Attributed(fsid) == {c \in Cluster : stores[c].ceph = fsid /\ fsid # NoFsid}

(* StorageFor: one for each fsid a host is labelled with or a plugin reports. *)
StorageClusters ==
    LET labelled == {h.fsid : h \in {x \in Borrowed : CephRole(x)}}
        reported == {stores[c].ceph : c \in Cluster} \ {Unreported, NoFsid}
    IN {[fsid |-> f, hosts |-> {h \in Borrowed : CephRole(h) /\ h.fsid = f}, by |-> Attributed(f)]
          : f \in labelled \cup reported}

-------------------------------------------------------------------------------
(* The pages are read, not stepped: a state is one the stores can be in.     *)
(* Each disjunct is one question; what it is not about is empty.             *)

CONSTANTS MaxEvents, MaxPool, MaxFailed
ASSUME PagesBounds == {MaxEvents, MaxPool, MaxFailed} \subseteq Nat

Phases == {"Running", "Failed"}
Bare == [machines |-> "none", hosts |-> "none", events |-> "none", ceph |-> Unreported]
NoPools == [kcps |-> {}, mds |-> {}, kcpsKnown |-> "none", mdsKnown |-> "none"]

AtRest == phase = [m \in Machine |-> "Running"] /\ fault = [h \in Host |-> "none"]
NoPods == pods = {} /\ pools = NoPools
NoBatch == batch = <<>>

StoresDiffer ==
    /\ phase \in {p \in [Machine -> Phases] : Cardinality({m \in Machine : p[m] # "Running"}) <= MaxFailed}
    /\ fault \in [Host -> {"none", "message"}]
    /\ stores \in [Cluster -> [machines : {"none", "ok"}, hosts : Snap, events : {"ok"}, ceph : {Unreported}]]
    /\ troubled \in SUBSET Cluster
    /\ NoPods /\ NoBatch

ReportsDiffer ==
    /\ AtRest /\ NoPods /\ NoBatch
    /\ stores \in [Cluster -> [machines : {"ok"}, hosts : Snap, events : Snap,
                               ceph : {Unreported, NoFsid, "fsid-2"} \cup {h.fsid : h \in Host}]]
    /\ troubled = {}

SomePods ==
    {{[name |-> i, status |-> f[i].status, healthy |-> f[i].healthy,
       restarts |-> f[i].restarts, young |-> f[i].young] : i \in 1..4} :
        f \in [1..4 -> [status : {"Pending"}, healthy : {FALSE}, restarts : 0..1, young : BOOLEAN]
                       \cup [status : {"Running"}, healthy : {TRUE}, restarts : {0}, young : {FALSE}]]}
SomePools ==
    [kcps : {{[desired |-> d, updated |-> u]} : d, u \in 0..MaxPool},
     mds : {{[desired |-> d, updated |-> u, name |-> 1]} : d, u \in 0..MaxPool},
     kcpsKnown : Snap, mdsKnown : Snap]

PodsDiffer ==
    /\ AtRest /\ NoBatch
    /\ stores = [c \in Cluster |-> Bare] /\ troubled = {}
    /\ \/ pods \in SomePods /\ pools = NoPools
       \/ pods = {} /\ pools \in SomePools

EventsDiffer ==
    /\ AtRest /\ NoPods
    /\ stores = [c \in Cluster |-> Bare] /\ troubled = {}
    /\ batch \in UNION {[1..n -> {[key |-> k, object |-> l, count |-> f, first |-> f, last |-> l] :
                                     k \in {"k", "l"}, f \in 0..2, l \in 1..2}] : n \in 1..MaxEvents}

PagesInit == StoresDiffer \/ ReportsDiffer \/ PodsDiffer \/ EventsDiffer
PagesNext == UNCHANGED pageVars
PagesSpec == PagesInit /\ [][PagesNext]_pageVars

-------------------------------------------------------------------------------
Settled == \A c \in Cluster \ troubled : stores[c].events = "ok"
BelongsTo(e, c) ==
    \/ OwnsName({c.name} \ {<<>>}, e.object)
    \/ \E m \in MachinesIn(c) : OwnsName({m.name, m.infra} \ {<<>>}, e.object)
    \/ \E h \in HostsFor(HostsIn(c), MachinesIn(c)) : OwnsName({h.name} \ {<<>>}, e.object)

(* A card says what the cluster's page shows: its hosts are red only if one  *)
(* of the rows unfolded there is, its unhealthy pods are those listed and    *)
(* those said to be more, and while a pool is rolling its strip is not at    *)
(* ease (scopeHostsCell, cellPods, cellRollout against splitHosts,           *)
(* unhealthyPods, Detect).                                                   *)
CardTellsThePage ==
    /\ \A c \in Cluster \ troubled :
          /\ CardHosts(c) = "err" /\ HostsFor(HostsIn(c), MachinesIn(c)) # {}
                => \E h \in Page(c).hosts.shown : HostRank(h) < HostQuiet
          /\ \A m \in Page(c).machines.quiet : phase[m] = "Running"
    /\ LET page == Unhealthy(pods, PagePods)
           card == Unhealthy(pods, CardPods)
       IN /\ PodsCell(pods).n = Cardinality(page.shown) + page.truncated
          /\ card.shown \subseteq page.shown
          /\ Pin(pods, {1, 2}) = "degraded" => \E p \in pods : ~p.healthy
    /\ Rollout # {} /\ (\A p \in pools.kcps \cup pools.mds : p.updated <= p.desired)
          => RolloutCell = "warn"

(* Once every cluster that can be read has its namespace's events, an event  *)
(* of an object of such a cluster is on that cluster's page, and one that    *)
(* belongs to no cluster is on the management page and nowhere else,         *)
(* whichever collector it was borrowed from (managementEvents, eventsFor).   *)
EventsHaveAPage ==
    Settled =>
        /\ \A c \in Cluster : LET its == PageEvents(c) IN \A e \in Event :
              /\ c \notin troubled /\ BelongsTo(e, c) /\ e.ns = c.ns => e \in its
              /\ (\A d \in Cluster : ~BelongsTo(e, d)) => e \notin its
        /\ \A l \in Lenders : LET left == Unclaimed(l) IN \A e \in Event :
              /\ (\E c \in Cluster \ troubled : BelongsTo(e, c) /\ e.ns = c.ns) => e \notin left
              /\ (\A c \in Cluster : ~BelongsTo(e, c)) /\ e.ns = l.ns => e \in left

(* "An event cannot be dropped from every page by being claimed here and     *)
(* scoped out there" (managementEvents): of the events a collector holds.    *)
NoEventIsDropped ==
    Settled => \A l \in Lenders : \A e \in EventsIn(l) :
        e \in Unclaimed(l) \/ \E c \in Cluster : e \in PageEvents(c)

(* What is said of a group does not depend on the order its events came in:  *)
(* it lasts from the earliest to the latest of them, counts them all, and is *)
(* told in the words of the latest (GroupEvents).                            *)
GroupsAreOrderless ==
    \A k \in {batch[i].key : i \in DOMAIN batch} :
        LET g == Groups(batch)[k]
            mine == {i \in DOMAIN batch : batch[i].key = k}
            known == {batch[i].first : i \in mine} \ {0}
        IN /\ g.first = (IF known = {} THEN 0 ELSE Min(known))
           /\ g.event.last = Max({batch[i].last : i \in mine})
           /\ g.times = AddUp([i \in DOMAIN batch |-> IF i \in mine THEN Times(batch[i]) ELSE 0])
           /\ g.objects = {batch[i].object : i \in mine}

(* No hardware and no report is lost between the two halves of the storage   *)
(* layer: a Ceph host and what a cluster's plugin reports are each in the    *)
(* one storage cluster with their fsid (StorageFor, Storage).                *)
StorageIsWhole ==
    /\ \A h \in Borrowed : CephRole(h) =>
          {s \in StorageClusters : h \in s.hosts} = {s \in StorageClusters : s.fsid = h.fsid}
    /\ \A c \in Cluster : stores[c].ceph \notin {Unreported, NoFsid} =>
          \E s \in StorageClusters : c \in s.by /\ \A d \in s.by : stores[d].ceph = stores[c].ceph

(* Events are filed whole: on the page they belong to, grouped in whichever  *)
(* order they came.                                                          *)
EventsAreFiled == EventsHaveAPage /\ GroupsAreOrderless

(* Nothing a store holds falls between two pages: no event, no hardware, no  *)
(* report of a plugin.                                                       *)
NothingFallsBetween == EventsAreFiled /\ StorageIsWhole

===============================================================================
