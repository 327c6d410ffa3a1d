---------------------------- MODULE ScreenProofs -----------------------------
(***************************************************************************)
(* Proofs about what is drawn: the cards and pages of the fleet (Pages,    *)
(* Cards) for every cluster, machine, host and event and whatever the      *)
(* stores hold of them, the overview (Overview) for all its inputs, and a  *)
(* pane's columns, rows and sections (Sections) at every size; and about   *)
(* which screen it is drawn on (Sextant), for all bounds and both ways to  *)
(* start.                                                                  *)
(***************************************************************************)
EXTENDS Cards, Overview, Sections, Sextant, Counting

-------------------------------------------------------------------------------
(* The pages.                                                              *)

(* Whatever is shown is shown, or counted as quiet. *)
LEMMA SplitIsAll ==
    ASSUME NEW rows, NEW tail \in SUBSET rows
    PROVE  All(Split(rows, tail)) = rows
BY DEF All, Split

(* A page is about the machines and hosts of its cluster, all of them. *)
LEMMA PageIsAll ==
    \A c \in Cluster :
        /\ All(Page(c).machines) = IF c \in troubled THEN {} ELSE MachinesIn(c)
        /\ All(Page(c).hosts) = IF c \in troubled THEN {} ELSE HostsFor(HostsIn(c), MachinesIn(c))
<1> TAKE c \in Cluster
<1> DEFINE machines == IF c \in troubled THEN {} ELSE MachinesIn(c)
           hosts == IF c \in troubled THEN {} ELSE HostsFor(HostsIn(c), machines)
<1>1. /\ Page(c).machines = Split(machines, {m \in machines : MachineRank(m) >= MachineQuiet})
      /\ Page(c).hosts = Split(hosts, {h \in hosts : HostRank(h) >= HostQuiet})
  BY DEF Page
<1>2. All(Page(c).machines) = machines /\ All(Page(c).hosts) = hosts
  <2> HIDE DEF machines, hosts
  <2> QED BY <1>1, SplitIsAll
<1> QED BY <1>2

(* The names a cluster's page claims events by. *)
LEMMA OwnedNamesAre ==
    \A c \in Cluster : \A name :
        OwnsName(OwnedNames(c), name) <=>
            \/ OwnsName({c.name} \ {<<>>}, name)
            \/ c \notin troubled /\ \E m \in MachinesIn(c) : OwnsName({m.name, m.infra} \ {<<>>}, name)
            \/ c \notin troubled /\ \E h \in HostsFor(HostsIn(c), MachinesIn(c)) : OwnsName({h.name} \ {<<>>}, name)
<1> TAKE c \in Cluster
<1> TAKE name
<1>1. OwnedNames(c) = ({c.name} \cup (UNION {{m.name, m.infra} : m \in All(Page(c).machines)})
                       \cup {h.name : h \in All(Page(c).hosts)}) \ {<<>>}
  BY DEF OwnedNames
<1> DEFINE M == IF c \in troubled THEN {} ELSE MachinesIn(c)
           H == IF c \in troubled THEN {} ELSE HostsFor(HostsIn(c), MachinesIn(c))
           Fits(o) == IsPrefix(o, name) \/ IsPrefix(name, o)
<1>2. All(Page(c).machines) = M /\ All(Page(c).hosts) = H
  BY PageIsAll
<1>3. \A o : o \in OwnedNames(c) <=>
          o # <<>> /\ (o = c.name \/ (\E m \in M : o \in {m.name, m.infra}) \/ \E h \in H : o = h.name)
  <2> HIDE DEF M, H
  <2> DEFINE A == UNION {{m.name, m.infra} : m \in M}
             B == {h.name : h \in H}
  <2>1. OwnedNames(c) = ({c.name} \cup A \cup B) \ {<<>>}
    <3>1. A = UNION {{m.name, m.infra} : m \in All(Page(c).machines)} /\ B = {h.name : h \in All(Page(c).hosts)}
      BY <1>2
    <3> HIDE DEF A, B
    <3> QED BY <1>1, <3>1
  <2>2. \A o : (o \in A <=> \E m \in M : o \in {m.name, m.infra}) /\ (o \in B <=> \E h \in H : o = h.name)
    BY Zenon
  <2> HIDE DEF A, B
  <2> QED BY <2>1, <2>2
<1>4. \A owned : OwnsName(owned, name) <=> name # <<>> /\ \E o \in owned : Fits(o)
  BY DEF OwnsName
<1>5. OwnsName(OwnedNames(c), name) <=>
        \/ OwnsName({c.name} \ {<<>>}, name)
        \/ \E m \in M : OwnsName({m.name, m.infra} \ {<<>>}, name)
        \/ \E h \in H : OwnsName({h.name} \ {<<>>}, name)
  <2> HIDE DEF M, H, Fits
  <2> DEFINE Good(o) == o # <<>> /\ Fits(o)
  <2>1. \A x : OwnsName({x} \ {<<>>}, name) <=> name # <<>> /\ Good(x)
    <3> TAKE x
    <3>1. OwnsName({x} \ {<<>>}, name) <=> name # <<>> /\ \E o \in {x} \ {<<>>} : Fits(o)
      BY <1>4
    <3> QED BY <3>1
  <2>2. \A x, y : OwnsName({x, y} \ {<<>>}, name) <=> name # <<>> /\ (Good(x) \/ Good(y))
    <3> TAKE x, y
    <3>1. OwnsName({x, y} \ {<<>>}, name) <=> name # <<>> /\ \E o \in {x, y} \ {<<>>} : Fits(o)
      BY <1>4
    <3> QED BY <3>1
  <2>3. OwnsName(OwnedNames(c), name) <=> name # <<>> /\ \E o \in OwnedNames(c) : Fits(o)
    BY <1>4
  <2>4. (\E o \in OwnedNames(c) : Fits(o)) <=>
          Good(c.name) \/ (\E m \in M : Good(m.name) \/ Good(m.infra)) \/ (\E h \in H : Good(h.name))
    BY <1>3
  <2> HIDE DEF Good
  <2> QED BY <2>1, <2>2, <2>3, <2>4
<1> QED BY <1>5

(* Every event has its page, and only its page. *)
LEMMA EventsHaveTheirPage == EventsHaveAPage
<1> SUFFICES ASSUME Settled PROVE EventsHaveAPage
  BY DEF EventsHaveAPage
<1>1. \A c \in Cluster \ troubled : stores[c].events = "ok"
  BY DEF Settled
<1>2. \A c \in Cluster \ troubled, e \in Event : BelongsTo(e, c) => OwnsName(OwnedNames(c), e.object)
  BY OwnedNamesAre DEF BelongsTo
<1>3. \A c \in Cluster, e \in Event : ~BelongsTo(e, c) => ~OwnsName(OwnedNames(c), e.object)
  BY OwnedNamesAre DEF BelongsTo
<1>4. \A name : OwnsName(UNION {OwnedNames(c) : c \in Cluster}, name) <=>
                     \E c \in Cluster : OwnsName(OwnedNames(c), name)
  BY DEF OwnsName
<1>5. ASSUME NEW c \in Cluster, NEW e \in Event
      PROVE  /\ c \notin troubled /\ BelongsTo(e, c) /\ e.ns = c.ns => e \in PageEvents(c)
             /\ (\A d \in Cluster : ~BelongsTo(e, d)) => e \notin PageEvents(c)
  BY <1>1, <1>2, <1>3 DEF PageEvents, EventsIn
<1>6. ASSUME NEW l \in Lenders, NEW e \in Event
      PROVE  /\ (\E c \in Cluster \ troubled : BelongsTo(e, c) /\ e.ns = c.ns) => e \notin Unclaimed(l)
             /\ (\A c \in Cluster : ~BelongsTo(e, c)) /\ e.ns = l.ns => e \in Unclaimed(l)
  BY <1>2, <1>3, <1>4 DEF Unclaimed, EventsIn, Lenders
<1> QED BY <1>5, <1>6 DEF EventsHaveAPage

(* No hardware and no report is lost to the storage layer. *)
LEMMA StorageHolds == StorageIsWhole
<1>1. \A s \in StorageClusters : s.hosts = {h \in Borrowed : CephRole(h) /\ h.fsid = s.fsid} /\ s.by = Attributed(s.fsid)
  BY DEF StorageClusters
<1>2. ASSUME NEW h \in Borrowed, CephRole(h)
      PROVE  {s \in StorageClusters : h \in s.hosts} = {s \in StorageClusters : s.fsid = h.fsid}
  BY <1>1, <1>2
<1>3. ASSUME NEW c \in Cluster, stores[c].ceph \notin {Unreported, NoFsid}
      PROVE  \E s \in StorageClusters : c \in s.by /\ \A d \in s.by : stores[d].ceph = stores[c].ceph
  <2> DEFINE f == stores[c].ceph
             s == [fsid |-> f, hosts |-> {h \in Borrowed : CephRole(h) /\ h.fsid = f}, by |-> Attributed(f)]
  <2>1. s \in StorageClusters
    BY <1>3 DEF StorageClusters
  <2>2. c \in s.by /\ \A d \in s.by : stores[d].ceph = stores[c].ceph
    BY <1>3 DEF Attributed
  <2> QED BY <2>1, <2>2
<1> QED BY <1>2, <1>3 DEF StorageIsWhole

(* Events that can be grouped, and what a group of them is made of. *)
BatchOK ==
    /\ batch \in Seq(ToSet(batch))
    /\ \A i \in DOMAIN batch : batch[i].count \in Int /\ batch[i].first \in Nat /\ batch[i].last \in Nat
Joiners == ToSet(batch)
GroupSet == [event : Joiners, first : Nat, times : Nat, objects : SUBSET {e.object : e \in Joiners}]
GroupsSet == UNION {[D -> GroupSet] : D \in SUBSET {e.key : e \in Joiners}}

LEMMA JoinedType ==
    ASSUME BatchOK, NEW e \in Joiners
    PROVE  /\ e.count \in Int /\ e.first \in Nat /\ e.last \in Nat /\ Times(e) \in Nat
           /\ Alone(e) \in GroupSet /\ \A g \in GroupSet : Into(g, e) \in GroupSet
           /\ \A gs \in GroupsSet : Joined(gs, e) \in GroupsSet
<1>1. e.count \in Int /\ e.first \in Nat /\ e.last \in Nat /\ Times(e) \in Nat
  BY DEF BatchOK, Joiners, ToSet, Times
<1>2. {e.object} \in SUBSET {x.object : x \in Joiners} /\ e.key \in {x.key : x \in Joiners}
  OBVIOUS
<1>3. Alone(e) \in GroupSet
  BY <1>1, <1>2 DEF Alone, GroupSet
<1>4. ASSUME NEW g \in GroupSet PROVE Into(g, e) \in GroupSet
  <2>1. /\ g.event \in Joiners /\ g.first \in Nat /\ g.times \in Nat
        /\ g.objects \in SUBSET {x.object : x \in Joiners}
    BY DEF GroupSet
  <2>2. Earliest(g.first, e.first) \in Nat /\ g.times + Times(e) \in Nat
    BY <1>1, <2>1 DEF Earliest
  <2>3. g.objects \cup {e.object} \in SUBSET {x.object : x \in Joiners}
    BY <1>2, <2>1
  <2>4. (IF e.last > g.event.last THEN e ELSE g.event) \in Joiners
    BY <2>1
  <2> QED BY <2>2, <2>3, <2>4 DEF Into, GroupSet
<1>5. ASSUME NEW gs \in GroupsSet PROVE Joined(gs, e) \in GroupsSet
  <2>1. PICK D \in SUBSET {x.key : x \in Joiners} : gs \in [D -> GroupSet]
    BY DEF GroupsSet
  <2> DEFINE of(k) == IF k # e.key THEN gs[k] ELSE IF k \in DOMAIN gs THEN Into(gs[k], e) ELSE Alone(e)
  <2>2. \A k \in D \cup {e.key} : of(k) \in GroupSet
    BY <1>3, <1>4, <2>1
  <2>3. Joined(gs, e) = [k \in D \cup {e.key} |-> of(k)]
    BY <2>1 DEF Joined
  <2> HIDE DEF of
  <2>4. Joined(gs, e) \in [D \cup {e.key} -> GroupSet] /\ D \cup {e.key} \in SUBSET {x.key : x \in Joiners}
    BY <1>2, <2>2, <2>3
  <2> QED BY <2>4 DEF GroupsSet
<1> QED BY <1>1, <1>3, <1>4, <1>5

(* The groups of the first event, of the first two, and so on. *)
LEMMA GroupsAre ==
    ASSUME BatchOK
    PROVE  \E f \in [0 .. Len(batch) -> GroupsSet] :
             /\ f[0] = <<>> /\ Groups(batch) = f[Len(batch)]
             /\ \A n \in 1 .. Len(batch) : f[n] = Joined(f[n - 1], batch[n])
<1> DEFINE N == Len(batch)
           g == [n \in 1 .. N |-> [x \in GroupsSet |-> Joined(x, batch[n])]]
           upTo[n \in 0 .. Len(batch)] == IF n = 0 THEN <<>> ELSE Joined(upTo[n - 1], batch[n])
<1>1. N \in Nat /\ \A n \in 1 .. N, x \in GroupsSet : Joined(x, batch[n]) \in GroupsSet
  <2>1. N \in Nat /\ \A n \in 1 .. N : batch[n] \in Joiners
    BY DEF BatchOK, Joiners
  <2> QED BY <2>1, JoinedType
<1>2. g \in [1 .. N -> [GroupsSet -> GroupsSet]] /\ <<>> \in GroupsSet
  <2>1. <<>> \in [{} -> GroupSet]
    OBVIOUS
  <2>2. <<>> \in GroupsSet
    BY <2>1 DEF GroupsSet
  <2> HIDE DEF N
  <2> QED BY <1>1, <2>2
<1>3. PICK f \in [0 .. N -> GroupsSet] : f[0] = <<>> /\ \A n \in 1 .. N : f[n] = g[n][f[n - 1]]
  <2> HIDE DEF g, N
  <2>1. Steps(GroupsSet, N, <<>>, g)
    BY <1>1, <1>2 DEF Steps
  <2> QED BY <2>1, Computed
<1>4. \A n \in 1 .. N : f[n] = Joined(f[n - 1], batch[n])
  <2> HIDE DEF N
  <2> TAKE n \in 1 .. N
  <2>1. n - 1 \in 0 .. N
    BY <1>1
  <2>2. f[n - 1] \in GroupsSet /\ f[n] = g[n][f[n - 1]]
    BY <1>3, <2>1
  <2> HIDE DEF g
  <2>3. g[n] = [x \in GroupsSet |-> Joined(x, batch[n])]
    BY DEF g
  <2> QED BY <2>2, <2>3
<1>5. f = [n \in 0 .. N |-> IF n = 0 THEN <<>> ELSE Joined(f[n - 1], batch[n])]
  <2> HIDE DEF N
  <2>1. \A n \in 0 .. N : f[n] = IF n = 0 THEN <<>> ELSE Joined(f[n - 1], batch[n])
    BY <1>1, <1>3, <1>4
  <2>2. f = [n \in 0 .. N |-> f[n]]
    BY <1>3
  <2> QED BY <2>1, <2>2
<1>6. upTo = [n \in 0 .. N |-> IF n = 0 THEN <<>> ELSE Joined(upTo[n - 1], batch[n])]
  BY <1>5
<1>7. Groups(batch) = upTo[N]
  BY DEF Groups
<1> HIDE DEF upTo
<1>8. upTo[0] = <<>> /\ \A n \in 1 .. N : upTo[n] = Joined(upTo[n - 1], batch[n])
  <2> HIDE DEF N
  <2>1. \A n \in 0 .. N : upTo[n] = IF n = 0 THEN <<>> ELSE Joined(upTo[n - 1], batch[n])
    BY <1>6
  <2> QED BY <1>1, <2>1
<1>9. \A m \in Nat : m <= N => upTo[m] = f[m]
  <2> HIDE DEF N
  <2> DEFINE S == {m \in Nat : m <= N => upTo[m] = f[m]}
  <2>1. 0 \in S
    BY <1>3, <1>8
  <2>2. ASSUME NEW m \in S PROVE m + 1 \in S
    <3>1. m \in Nat /\ m + 1 - 1 = m /\ (m + 1 <= N => m + 1 \in 1 .. N /\ m <= N)
      BY <1>1
    <3> QED BY <3>1, <2>2, <1>4, <1>8
  <2> HIDE DEF S
  <2>3. S = Nat
    <3>1. S \in SUBSET Nat
      BY DEF S
    <3> QED BY <2>1, <2>2, <3>1, Induct
  <2> QED BY <2>3 DEF S
<1>10. upTo[N] = f[N]
  BY <1>1, <1>9
<1> HIDE DEF g
<1> QED BY <1>3, <1>4, <1>7, <1>10

(* What a group of the first m events says of those with its key. *)
MineOf(k, m) == {i \in 1 .. m : batch[i].key = k}
KnownOf(k, m) == {batch[i].first : i \in MineOf(k, m)} \ {0}
FirstTold(k, m, g) ==
    \/ KnownOf(k, m) = {} /\ g.first = 0
    \/ g.first \in KnownOf(k, m) /\ \A y \in KnownOf(k, m) : g.first <= y
LastTold(k, m, g) ==
    /\ \E i \in MineOf(k, m) : g.event.last = batch[i].last
    /\ \A i \in MineOf(k, m) : batch[i].last <= g.event.last
Told(k, m, g, s) ==
    /\ FirstTold(k, m, g) /\ LastTold(k, m, g) /\ g.times = s
    /\ g.objects = {batch[i].object : i \in MineOf(k, m)}

(* The first event of a key tells it all. *)
LEMMA AloneTells ==
    ASSUME BatchOK, NEW m \in Nat, m + 1 <= Len(batch), MineOf(batch[m + 1].key, m) = {}
    PROVE  Told(batch[m + 1].key, m + 1, Alone(batch[m + 1]), Times(batch[m + 1]))
<1> DEFINE e == batch[m + 1]
           k == e.key
<1>0. e \in Joiners
  BY DEF BatchOK, Joiners
<1>1. MineOf(k, m + 1) = {m + 1}
  <2>1. 1 .. m + 1 = (1 .. m) \cup {m + 1}
    OBVIOUS
  <2> QED BY <2>1 DEF MineOf
<1>2. e.first \in Nat /\ e.last \in Nat
  BY <1>0, JoinedType
<1>3. KnownOf(k, m + 1) = {e.first} \ {0}
  BY <1>1 DEF KnownOf
<1> DEFINE g == Alone(e)
<1>4. g.first = e.first /\ g.event = e /\ g.times = Times(e) /\ g.objects = {e.object}
  BY DEF Alone
<1> HIDE DEF g
<1>5. FirstTold(k, m + 1, g) /\ LastTold(k, m + 1, g)
  BY <1>1, <1>2, <1>3, <1>4 DEF FirstTold, LastTold
<1>6. g.objects = {batch[i].object : i \in MineOf(k, m + 1)}
  BY <1>1, <1>4
<1>7. Told(k, m + 1, g, Times(e))
  <2> HIDE DEF e
  <2> QED BY <1>4, <1>5, <1>6 DEF Told
<1> QED BY <1>7 DEF g

(* An event that joins the others is told with them. *)
LEMMA IntoTells ==
    ASSUME BatchOK, NEW m \in Nat, m + 1 <= Len(batch), NEW g \in GroupSet, NEW s \in Nat,
           Told(batch[m + 1].key, m, g, s)
    PROVE  Told(batch[m + 1].key, m + 1, Into(g, batch[m + 1]), s + Times(batch[m + 1]))
<1> DEFINE e == batch[m + 1]
           k == e.key
           h == Into(g, e)
<1>0. e \in Joiners
  BY DEF BatchOK, Joiners
<1>1. MineOf(k, m + 1) = MineOf(k, m) \cup {m + 1}
  <2>1. 1 .. m + 1 = (1 .. m) \cup {m + 1}
    OBVIOUS
  <2> QED BY <2>1 DEF MineOf
<1>2. e.first \in Nat /\ e.last \in Nat /\ Times(e) \in Nat
  BY <1>0, JoinedType
<1>3. KnownOf(k, m + 1) = KnownOf(k, m) \cup ({e.first} \ {0})
  BY <1>1 DEF KnownOf
<1>4. g.first \in Nat /\ g.event \in Joiners /\ g.times \in Nat /\ g.event.last \in Nat
  <2>1. g.first \in Nat /\ g.event \in Joiners /\ g.times \in Nat
    BY DEF GroupSet
  <2> QED BY <2>1, JoinedType
<1>5. /\ h.event = IF e.last > g.event.last THEN e ELSE g.event
      /\ h.first = Earliest(g.first, e.first)
      /\ h.times = g.times + Times(e) /\ h.objects = g.objects \cup {e.object}
  BY DEF Into
<1>6. /\ FirstTold(k, m, g) /\ LastTold(k, m, g) /\ g.times = s
      /\ g.objects = {batch[i].object : i \in MineOf(k, m)}
  BY DEF Told
<1>7. \A i \in MineOf(k, m) : batch[i].first \in Nat /\ batch[i].last \in Nat
  BY DEF MineOf, BatchOK
<1>8. KnownOf(k, m) \in SUBSET (Nat \ {0})
  BY <1>7 DEF KnownOf
<1> HIDE DEF h
<1>9. FirstTold(k, m + 1, h)
  <2> HIDE DEF k, e
  <2>1. CASE g.first = 0
    <3>1. h.first = e.first /\ KnownOf(k, m) = {}
      BY <1>5, <1>6, <1>8, <2>1 DEF Earliest, FirstTold
    <3> QED BY <3>1, <1>2, <1>3 DEF FirstTold
  <2>2. CASE g.first # 0
    <3>1. g.first \in KnownOf(k, m) /\ \A y \in KnownOf(k, m) : g.first <= y
      BY <1>6, <2>2 DEF FirstTold
    <3>2. CASE e.first = 0
      <4>1. h.first = g.first /\ KnownOf(k, m + 1) = KnownOf(k, m)
        BY <1>3, <1>5, <2>2, <3>2 DEF Earliest
      <4> QED BY <3>1, <4>1 DEF FirstTold
    <3>3. CASE e.first # 0
      <4>1. h.first = IF e.first < g.first THEN e.first ELSE g.first
        BY <1>5, <2>2, <3>3 DEF Earliest
      <4>2. KnownOf(k, m + 1) = KnownOf(k, m) \cup {e.first}
        BY <1>3, <3>3
      <4>3. h.first \in KnownOf(k, m + 1)
        BY <3>1, <4>1, <4>2
      <4>4. \A y \in KnownOf(k, m + 1) : h.first <= y
        BY <1>2, <1>4, <1>8, <3>1, <4>1, <4>2
      <4> QED BY <4>3, <4>4 DEF FirstTold
    <3> QED BY <3>2, <3>3
  <2> QED BY <2>1, <2>2
<1>10. LastTold(k, m + 1, h)
  <2>1. \E i \in MineOf(k, m) : g.event.last = batch[i].last
    BY <1>6 DEF LastTold
  <2>2. \A i \in MineOf(k, m) : batch[i].last <= g.event.last
    BY <1>6 DEF LastTold
  <2>3. h.event.last = IF e.last > g.event.last THEN e.last ELSE g.event.last
    BY <1>5
  <2>4. batch[m + 1].last = e.last
    OBVIOUS
  <2> HIDE DEF k, e
  <2>5. \E i \in MineOf(k, m + 1) : h.event.last = batch[i].last
    BY <1>1, <2>1, <2>3, <2>4
  <2>6. \A i \in MineOf(k, m + 1) : batch[i].last <= h.event.last
    <3>1. g.event.last <= h.event.last /\ e.last <= h.event.last
      BY <1>2, <1>4, <2>3
    <3>2. \A i \in MineOf(k, m) : batch[i].last <= h.event.last
      BY <1>2, <1>4, <1>7, <2>2, <2>3, <3>1
    <3> QED BY <1>1, <2>4, <3>1, <3>2
  <2> QED BY <2>5, <2>6 DEF LastTold
<1>11. h.objects = {batch[i].object : i \in MineOf(k, m + 1)}
  <2>1. e.object = batch[m + 1].object
    OBVIOUS
  <2> HIDE DEF k, e
  <2> QED BY <1>1, <1>5, <1>6, <2>1
<1>12. h.times = s + Times(e)
  BY <1>5, <1>6
<1>13. Told(k, m + 1, h, s + Times(e))
  <2> HIDE DEF k, e
  <2> QED BY <1>9, <1>10, <1>11, <1>12 DEF Told
<1> QED BY <1>13 DEF h

(* An event of another key changes nothing. *)
LEMMA OtherKeepsTold ==
    ASSUME NEW m \in Nat, NEW k, k # batch[m + 1].key
    PROVE  /\ MineOf(k, m + 1) = MineOf(k, m)
           /\ \A g, s : Told(k, m, g, s) => Told(k, m + 1, g, s)
<1>1. 1 .. m + 1 = (1 .. m) \cup {m + 1}
  OBVIOUS
<1>2. MineOf(k, m + 1) = MineOf(k, m)
  BY <1>1 DEF MineOf
<1> QED BY <1>2 DEF Told, FirstTold, LastTold, KnownOf

(* Groups do not depend on the order of their events. *)
LEMMA GroupsHold == ASSUME BatchOK PROVE GroupsAreOrderless
<1> SUFFICES ASSUME NEW k \in {batch[i].key : i \in DOMAIN batch}
             PROVE  LET g == Groups(batch)[k]
                        mine == {i \in DOMAIN batch : batch[i].key = k}
                        known == {batch[i].first : i \in mine} \ {0}
                    IN /\ g.first = (IF known = {} THEN 0 ELSE Min(known))
                       /\ g.event.last = Max({batch[i].last : i \in mine})
                       /\ g.times = AddUp([i \in DOMAIN batch |-> IF i \in mine THEN Times(batch[i]) ELSE 0])
                       /\ g.objects = {batch[i].object : i \in mine}
  BY DEF GroupsAreOrderless
<1> DEFINE N == Len(batch)
           mine == {i \in DOMAIN batch : batch[i].key = k}
           q == [i \in DOMAIN batch |-> IF i \in mine THEN Times(batch[i]) ELSE 0]
<1>0. N \in Nat /\ DOMAIN batch = 1 .. N /\ mine = MineOf(k, N)
  BY DEF BatchOK, MineOf
<1>1. \A i \in 1 .. N : batch[i] \in Joiners /\ Times(batch[i]) \in Nat
  <2>1. \A i \in 1 .. N : batch[i] \in Joiners
    BY DEF BatchOK, Joiners
  <2> QED BY <2>1, JoinedType
<1>2. q \in Seq(Nat) /\ Len(q) = N /\ \A i \in 1 .. N : q[i] = IF batch[i].key = k THEN Times(batch[i]) ELSE 0
  BY <1>0, <1>1
<1>3. PICK s \in [0 .. Len(q) -> Nat] :
        s[0] = 0 /\ SumUp(q) = s[Len(q)] /\ \A n \in 1 .. Len(q) : s[n] = s[n - 1] + q[n]
  BY <1>2, SumIs
<1>4. PICK f \in [0 .. N -> GroupsSet] :
        f[0] = <<>> /\ Groups(batch) = f[N] /\ \A n \in 1 .. N : f[n] = Joined(f[n - 1], batch[n])
  BY GroupsAre
<1>5. AddUp(q) = s[N]
  BY <1>2, <1>3 DEF AddUp, SumUp
<1> HIDE DEF N, q, mine
<1>15. s \in [0 .. N -> Nat] /\ s[0] = 0 /\ \A n \in 1 .. N : s[n] = s[n - 1] + q[n]
  BY <1>2, <1>3
<1> DEFINE Good(m) ==
             /\ k \in DOMAIN f[m] <=> MineOf(k, m) # {}
             /\ MineOf(k, m) = {} => s[m] = 0
             /\ MineOf(k, m) # {} => Told(k, m, f[m][k], s[m])
           S == {m \in Nat : m <= N => Good(m)}
<1>6. 0 \in S
  <2>1. MineOf(k, 0) = {} /\ DOMAIN f[0] = {} /\ s[0] = 0
    BY <1>3, <1>4 DEF MineOf
  <2> QED BY <2>1
<1>7. ASSUME NEW m \in S PROVE m + 1 \in S
  <2> SUFFICES ASSUME m + 1 <= N PROVE Good(m + 1)
    OBVIOUS
  <2>0. m \in Nat /\ m + 1 \in 1 .. N /\ m \in 0 .. N /\ m <= N /\ m + 1 - 1 = m
    BY <1>0
  <2>1. Good(m)
    BY <2>0
  <2> HIDE DEF S
  <2> DEFINE e == batch[m + 1]
  <2>2. /\ f[m + 1] = Joined(f[m], e) /\ s[m + 1] = s[m] + q[m + 1] /\ s[m] \in Nat
        /\ q[m + 1] = IF e.key = k THEN Times(e) ELSE 0
    <3>1. f[m + 1] = Joined(f[m + 1 - 1], batch[m + 1])
      BY <1>4, <2>0
    <3>2. PICK j \in 1 .. N : j = m + 1
      BY <2>0
    <3>3. s[j] = s[j - 1] + q[j]
      BY <1>15
    <3>4. s[m] \in Nat /\ j - 1 = m
      <4>1. j - 1 = m
        BY <2>0, <3>2
      <4>2. s \in [0 .. N -> Nat] /\ m \in 0 .. N
        BY <1>15, <2>0
      <4> QED BY <4>1, <4>2
    <3>5. s[m + 1] = s[m] + q[m + 1]
      BY <3>2, <3>3, <3>4
    <3> QED BY <1>2, <2>0, <3>1, <3>4, <3>5
  <2>3. PICK D : f[m] \in [D -> GroupSet]
    <3>1. f[m] \in GroupsSet
      BY <1>4, <2>0
    <3> QED BY <3>1 DEF GroupsSet
  <2>4. /\ DOMAIN f[m + 1] = DOMAIN f[m] \cup {e.key} /\ (k \in DOMAIN f[m] => f[m][k] \in GroupSet)
        /\ k \in DOMAIN f[m + 1] =>
             f[m + 1][k] = IF k # e.key THEN f[m][k] ELSE IF k \in DOMAIN f[m] THEN Into(f[m][k], e) ELSE Alone(e)
    BY <2>2, <2>3 DEF Joined
  <2>5. CASE k # e.key
    <3>1. MineOf(k, m + 1) = MineOf(k, m) /\ \A g, t : Told(k, m, g, t) => Told(k, m + 1, g, t)
      BY <2>0, <2>5, OtherKeepsTold
    <3>2. s[m + 1] = s[m]
      BY <2>2, <2>5
    <3>3. k \in DOMAIN f[m] => f[m + 1][k] = f[m][k]
      BY <2>4, <2>5
    <3>4. k \in DOMAIN f[m + 1] <=> k \in DOMAIN f[m]
      BY <2>4, <2>5
    <3> HIDE DEF e
    <3> QED BY <2>1, <3>1, <3>2, <3>3, <3>4
  <2>6. CASE k = e.key
    <3>1. k \in DOMAIN f[m + 1] /\ MineOf(k, m + 1) # {}
      <4>1. m + 1 \in MineOf(k, m + 1)
        BY <2>0, <2>6 DEF MineOf
      <4> QED BY <2>4, <2>6, <4>1
    <3>2. s[m + 1] = s[m] + Times(e)
      BY <2>2, <2>6
    <3>3. CASE MineOf(k, m) = {}
      <4>1. k \notin DOMAIN f[m] /\ s[m] = 0 /\ f[m + 1][k] = Alone(e)
        BY <2>1, <2>4, <2>6, <3>1, <3>3
      <4>2. Times(e) \in Nat
        BY <1>1, <2>0
      <4>3. s[m + 1] = Times(e)
        BY <3>2, <4>1, <4>2
      <4>4. Told(k, m + 1, Alone(e), Times(e))
        BY <2>0, <2>6, <3>3, AloneTells DEF N
      <4> HIDE DEF e
      <4> QED BY <3>1, <4>1, <4>3, <4>4
    <3>4. CASE MineOf(k, m) # {}
      <4>1. k \in DOMAIN f[m] /\ Told(k, m, f[m][k], s[m])
        BY <2>1, <3>4
      <4>2. f[m + 1][k] = Into(f[m][k], e) /\ f[m][k] \in GroupSet
        BY <2>4, <2>6, <3>1, <4>1
      <4>3. Told(k, m + 1, Into(f[m][k], e), s[m] + Times(e))
        BY <2>0, <2>2, <2>6, <4>1, <4>2, IntoTells DEF N
      <4> HIDE DEF e
      <4> QED BY <3>1, <3>2, <4>2, <4>3
    <3> QED BY <3>3, <3>4
  <2> QED BY <2>5, <2>6
<1>8. Good(N)
  <2>1. S \in SUBSET Nat
    OBVIOUS
  <2> HIDE DEF S
  <2>2. N \in S
    BY <1>0, <1>6, <1>7, <2>1, Induct
  <2> QED BY <1>0, <2>2 DEF S
<1>9. MineOf(k, N) # {}
  BY <1>0 DEF mine
<1> DEFINE g == f[N][k]
<1>10. Told(k, N, g, s[N])
  BY <1>8, <1>9
<1> HIDE DEF g, Good, S
<1>11. \A i \in mine : batch[i].first \in Nat /\ batch[i].last \in Nat
  BY DEF BatchOK, mine
<1>12. g.first = (IF KnownOf(k, N) = {} THEN 0 ELSE Min(KnownOf(k, N)))
  <2>1. KnownOf(k, N) \in SUBSET Nat
    BY <1>0, <1>11 DEF KnownOf
  <2>2. FirstTold(k, N, g)
    BY <1>10 DEF Told
  <2>3. ASSUME KnownOf(k, N) # {} PROVE g.first = Min(KnownOf(k, N))
    <3> DEFINE T == KnownOf(k, N)
    <3>1. g.first \in T /\ \A y \in T : g.first <= y
      BY <2>2, <2>3 DEF FirstTold
    <3>2. Min(T) \in T /\ \A y \in T : Min(T) <= y
      BY <3>1 DEF Min
    <3> HIDE DEF T
    <3>3. T \in SUBSET Nat
      BY <2>1 DEF T
    <3>4. g.first \in Nat /\ Min(T) \in Nat /\ g.first <= Min(T) /\ Min(T) <= g.first
      BY <3>1, <3>2, <3>3
    <3>5. g.first = Min(T)
      BY <3>4
    <3> QED BY <3>5 DEF T
  <2>4. KnownOf(k, N) = {} => g.first = 0
    BY <2>2 DEF FirstTold
  <2> QED BY <2>3, <2>4
<1>13. g.event.last = Max({batch[i].last : i \in mine})
  <2> DEFINE T == {batch[i].last : i \in mine}
             x == g.event.last
  <2>1. x \in T /\ \A y \in T : y <= x
    BY <1>0, <1>10 DEF Told, LastTold
  <2>2. T \in SUBSET Nat
    BY <1>11
  <2> HIDE DEF T, x
  <2>3. Max(T) \in T /\ \A y \in T : Max(T) >= y
    <3>1. \E z \in T : \A y \in T : z >= y
      BY <2>1, <2>2
    <3> QED BY <3>1 DEF Max
  <2>4. x \in Nat /\ Max(T) \in Nat /\ x <= Max(T) /\ Max(T) <= x
    BY <2>1, <2>2, <2>3
  <2>5. x = Max(T)
    BY <2>4
  <2> QED BY <2>5 DEF T, x
<1>14. g.times = AddUp(q) /\ g.objects = {batch[i].object : i \in mine} /\ Groups(batch)[k] = g
  BY <1>0, <1>4, <1>5, <1>10 DEF Told, g
<1> QED BY <1>0, <1>12, <1>13, <1>14 DEF KnownOf, mine, q

(* Nothing falls between two pages, whatever the stores hold and whatever    *)
(* events are to be grouped.                                                 *)
LEMMA NothingFalls == BatchOK => NothingFallsBetween
BY EventsHaveTheirPage, StorageHolds, GroupsHold DEF NothingFallsBetween, EventsAreFiled

(* What is read of pods and of pools. *)
PodsOK == IsFiniteSet(pods)
PoolsOK ==
    /\ IsFiniteSet(pools.kcps) /\ IsFiniteSet(pools.mds)
    /\ \A p \in pools.kcps \cup pools.mds : p.desired \in Nat /\ p.updated \in Nat
PagesOK == PodsOK /\ PoolsOK /\ BatchOK

LEMMA PagesStart == PagesInit => PagesOK
<1>1. NoBatch => BatchOK
  BY DEF NoBatch, BatchOK, ToSet
<1>2. NoPods => PodsOK /\ PoolsOK
  BY FS_EmptySet DEF NoPods, PodsOK, PoolsOK, NoPools
<1>3. EventsDiffer => BatchOK
  <2> SUFFICES ASSUME EventsDiffer PROVE BatchOK
    OBVIOUS
  <2>1. MaxEvents \in Nat
    BY PagesBounds
  <2> DEFINE E == {[key |-> k, object |-> l, count |-> f, first |-> f, last |-> l] :
                      k \in {"k", "l"}, f \in 0..2, l \in 1..2}
  <2>2. PICK n \in 1 .. MaxEvents : batch \in [1 .. n -> E]
    BY DEF EventsDiffer
  <2>3. n \in Nat /\ \A e \in E : e.count \in Int /\ e.first \in Nat /\ e.last \in Nat
    BY <2>1
  <2> HIDE DEF E
  <2>4. batch \in Seq(ToSet(batch)) /\ DOMAIN batch = 1 .. n
    <3>1. \A i \in 1 .. n : batch[i] \in ToSet(batch)
      BY <2>2 DEF ToSet
    <3>2. batch \in [1 .. n -> ToSet(batch)]
      BY <2>2, <3>1
    <3> QED BY <2>2, <2>3, <3>2
  <2> QED BY <2>2, <2>3, <2>4 DEF BatchOK
<1>4. \A x \in SomePods : IsFiniteSet(x)
  <2> TAKE x \in SomePods
  <2> DEFINE Pod(f, i) == [name |-> i, status |-> f[i].status, healthy |-> f[i].healthy,
                          restarts |-> f[i].restarts, young |-> f[i].young]
  <2>1. PICK f : x = {Pod(f, i) : i \in 1..4}
    BY Zenon DEF SomePods
  <2> HIDE DEF Pod
  <2> DEFINE h == [i \in 1 .. 4 |-> Pod(f, i)]
  <2>2. h \in Surjection(1 .. 4, x)
    <3>1. h \in [1 .. 4 -> x]
      BY <2>1
    <3>2. \A y \in x : \E i \in 1 .. 4 : h[i] = y
      BY <2>1
    <3> HIDE DEF h
    <3> QED BY <3>1, <3>2 DEF Surjection
  <2>3. IsFiniteSet(1 .. 4)
    <3>1. 1 \in Int /\ 4 \in Int
      OBVIOUS
    <3> QED BY <3>1, FS_Interval, Zenon
  <2> HIDE DEF h
  <2> QED BY <2>2, <2>3, FS_Surjection
<1>7. ASSUME pools \in SomePools PROVE PoolsOK
  <2> DEFINE Kcp(d, u) == {[desired |-> d, updated |-> u]}
             Md(d, u) == {[desired |-> d, updated |-> u, name |-> 1]}
             K == {Kcp(d, u) : d, u \in 0..MaxPool}
             M == {Md(d, u) : d, u \in 0..MaxPool}
  <2>5. pools.kcps \in K /\ pools.mds \in M
    <3>1. pools \in [kcps : K, mds : M, kcpsKnown : Snap, mdsKnown : Snap]
      BY <1>7 DEF SomePools
    <3> HIDE DEF K, M
    <3> QED BY <3>1
  <2> HIDE DEF Kcp, Md
  <2>1. PICK d \in 0 .. MaxPool, u \in 0 .. MaxPool : pools.kcps = Kcp(d, u)
    BY <2>5
  <2>2. PICK x \in 0 .. MaxPool, y \in 0 .. MaxPool : pools.mds = Md(x, y)
    BY <2>5
  <2>3. d \in Nat /\ u \in Nat /\ x \in Nat /\ y \in Nat
    BY PagesBounds
  <2>4. IsFiniteSet(pools.kcps) /\ IsFiniteSet(pools.mds)
    <3>1. \A e : IsFiniteSet({e})
      BY FS_Singleton
    <3> QED BY <2>1, <2>2, <3>1, Zenon DEF Kcp, Md
  <2> QED BY <2>1, <2>2, <2>3, <2>4 DEF PoolsOK, Kcp, Md
<1>8. PodsDiffer => PodsOK /\ PoolsOK
  <2>1. pools = NoPools => PoolsOK
    BY FS_EmptySet DEF PoolsOK, NoPools
  <2>2. pods = {} => PodsOK
    BY FS_EmptySet DEF PodsOK
  <2> QED BY <1>4, <1>7, <2>1, <2>2 DEF PodsDiffer, PodsOK
<1>5. PodsDiffer => NoBatch
  BY DEF PodsDiffer
<1>6. EventsDiffer => NoPods
  BY DEF EventsDiffer
<1> QED BY <1>1, <1>2, <1>3, <1>5, <1>6, <1>8 DEF PagesInit, PagesOK, StoresDiffer, ReportsDiffer

LEMMA PagesKeep == PagesOK /\ UNCHANGED pageVars => PagesOK'
BY DEF PagesOK, PodsOK, PoolsOK, BatchOK, pageVars

(* Nothing a store holds falls between two pages (managementEvents,          *)
(* eventsFor, GroupEvents, StorageFor).                                      *)
THEOREM EverythingIsFiled == PagesSpec => []NothingFallsBetween
<1>1. PagesInit => PagesOK
  BY PagesStart
<1>2. PagesOK /\ [PagesNext]_pageVars => PagesOK'
  BY PagesKeep DEF PagesNext
<1>3. PagesOK => NothingFallsBetween
  BY NothingFalls DEF PagesOK
<1> QED BY <1>1, <1>2, <1>3, PTL DEF PagesSpec

-------------------------------------------------------------------------------
(* The cards. *)

(* A host with a fault is not folded away, and a card's is one of the page's. *)
LEMMA RedHostsShow ==
    ASSUME NEW c \in Cluster \ troubled, CardHosts(c) = "err", HostsFor(HostsIn(c), MachinesIn(c)) # {}
    PROVE  \E h \in Page(c).hosts.shown : HostRank(h) < HostQuiet
<1> DEFINE mine == HostsFor(HostsIn(c), MachinesIn(c))
<1>1. HostsCell(mine) = "err"
  BY DEF CardHosts, NoCell
<1>2. PICK h \in mine : fault[h] \in {"message", "error"}
  BY <1>1 DEF HostsCell
<1>3. HostRank(h) \in {0, 1}
  BY <1>2 DEF HostRank
<1>4. Page(c).hosts = Split(mine, {x \in mine : HostRank(x) >= HostQuiet})
  BY DEF Page
<1> HIDE DEF mine
<1>5. h \in Page(c).hosts.shown
  BY <1>2, <1>3, <1>4 DEF Split, HostQuiet
<1> QED BY <1>3, <1>5 DEF HostQuiet

LEMMA QuietMachinesRun ==
    ASSUME NEW c \in Cluster \ troubled, NEW m \in Page(c).machines.quiet
    PROVE  phase[m] = "Running"
<1> DEFINE mine == MachinesIn(c)
<1>1. Page(c).machines = Split(mine, {x \in mine : MachineRank(x) >= MachineQuiet})
  BY DEF Page
<1> HIDE DEF mine
<1>2. MachineRank(m) >= MachineQuiet
  BY <1>1 DEF Split
<1> QED BY <1>2 DEF MachineRank, MachineQuiet, NoText

(* The unhealthy pods are those listed and those said to be more; a longer   *)
(* list has those of a shorter one.                                          *)
LEMMA PodsAddUp ==
    ASSUME PodsOK
    PROVE  /\ PodsCell(pods).n = Cardinality(Unhealthy(pods, PagePods).shown) + Unhealthy(pods, PagePods).truncated
           /\ Unhealthy(pods, CardPods).shown \subseteq Unhealthy(pods, PagePods).shown
<1> DEFINE bad == {p \in pods : NeedsAttention(p)}
           above(p) == {q \in bad : q.restarts > p.restarts \/ (q.restarts = p.restarts /\ q.name < p.name)}
           shown(limit) == {p \in bad : Cardinality(above(p)) < limit}
<1>1. \A limit : Unhealthy(pods, limit).shown = shown(limit)
  BY DEF Unhealthy
<1>9. Unhealthy(pods, PagePods).truncated = Cardinality(bad \ shown(PagePods))
  BY DEF Unhealthy
<1>2. \A T \in SUBSET pods : IsFiniteSet(T) /\ Cardinality(T) \in Nat
  BY FS_Subset, FS_CardinalityType DEF PodsOK
<1>3. \A p : above(p) \in SUBSET pods
  OBVIOUS
<1>4. PodsCell(pods).n = Cardinality(bad)
  <2>1. CASE pods = {}
    <3>1. bad = {}
      BY <2>1
    <3> HIDE DEF bad
    <3> QED BY <2>1, <3>1, FS_EmptySet DEF PodsCell
  <2>2. CASE pods # {}
    BY <2>2 DEF PodsCell
  <2> QED BY <2>1, <2>2
<1>5. bad \in SUBSET pods /\ shown(PagePods) \in SUBSET bad
  OBVIOUS
<1>6. CardPods \in Nat /\ PagePods \in Nat /\ CardPods <= PagePods
  BY PagesAssumption
<1>7. shown(CardPods) \subseteq shown(PagePods)
  <2> HIDE DEF bad
  <2>1. \A p \in bad : Cardinality(above(p)) \in Nat
    BY <1>2, <1>3
  <2> HIDE DEF above
  <2> QED BY <1>6, <2>1
<1>8. Cardinality(bad) = Cardinality(shown(PagePods)) + Cardinality(bad \ shown(PagePods))
  <2> DEFINE T == shown(PagePods)
  <2>1. T \in SUBSET bad
    BY <1>5
  <2> HIDE DEF T, bad
  <2>2. /\ IsFiniteSet(T) /\ IsFiniteSet(bad \ T) /\ Cardinality(T) \in Nat /\ Cardinality(bad \ T) \in Nat
    BY <1>2, <1>5, <2>1
  <2>3. Cardinality(T \cup (bad \ T)) = Cardinality(T) + Cardinality(bad \ T) - Cardinality(T \cap (bad \ T))
    BY <2>2, FS_Union
  <2>4. T \cup (bad \ T) = bad /\ T \cap (bad \ T) = {}
    BY <2>1
  <2>6. Cardinality(T \cap (bad \ T)) = 0
    BY <2>4, FS_EmptySet
  <2>5. Cardinality(bad) = Cardinality(T) + Cardinality(bad \ T)
    BY <2>2, <2>3, <2>4, <2>6
  <2> QED BY <2>5 DEF T
<1>10. Unhealthy(pods, PagePods).shown = shown(PagePods) /\ Unhealthy(pods, CardPods).shown = shown(CardPods)
  BY <1>1
<1> HIDE DEF shown, bad, above
<1> QED BY <1>4, <1>7, <1>8, <1>9, <1>10

(* While a pool is rolling, and none has more than it should, the strip says *)
(* so.                                                                       *)
LEMMA RollingShows ==
    ASSUME PoolsOK, Rollout # {}, \A p \in pools.kcps \cup pools.mds : p.updated <= p.desired
    PROVE  RolloutCell = "warn"
<1> DEFINE all == ItemsOf(pools.kcpsKnown, pools.kcps) \cup ItemsOf(pools.mdsKnown, pools.mds)
           q == SetToSeq(all)
           desired == [i \in DOMAIN q |-> q[i].desired]
           updated == [i \in DOMAIN q |-> q[i].updated]
<1>1. all \subseteq pools.kcps \cup pools.mds
  BY DEF ItemsOf
<1>2. IsFiniteSet(all)
  <2>1. IsFiniteSet(pools.kcps \cup pools.mds)
    BY FS_Union DEF PoolsOK
  <2> HIDE DEF all
  <2> QED BY <1>1, <2>1, FS_Subset
<1>3. PICK p \in all : p.desired > 0 /\ p.updated < p.desired
  BY DEF Rollout, Rolling
<1>4. pools.kcpsKnown = "ok" \/ pools.mdsKnown = "ok"
  BY <1>3 DEF ItemsOf
<1>5. RolloutCell = IF AddUp(desired) = 0 THEN "loading"
                    ELSE IF AddUp(updated) >= AddUp(desired) THEN "ok" ELSE "warn"
  <2>1. RolloutCell = IF pools.kcpsKnown # "ok" /\ pools.mdsKnown # "ok" THEN NoCell
                      ELSE IF AddUp(desired) = 0 THEN "loading"
                      ELSE IF AddUp(updated) >= AddUp(desired) THEN "ok" ELSE "warn"
    BY Zenon DEF RolloutCell
  <2> QED BY <1>4, <2>1
<1> HIDE DEF all
<1>6. q \in Seq(all) /\ ToSet(q) = all
  BY <1>2, SeqOfSet
<1> HIDE DEF q
<1>7. \A i \in 1 .. Len(q) : q[i].desired \in Nat /\ q[i].updated \in Nat /\ q[i].updated <= q[i].desired
  BY <1>1, <1>6 DEF PoolsOK
<1>8. PICK i \in 1 .. Len(q) : q[i] = p
  BY <1>3, <1>6 DEF ToSet
<1>9. DOMAIN q = 1 .. Len(q) /\ Len(q) \in Nat
  BY <1>6
<1>10. /\ desired \in Seq(Nat) /\ updated \in Seq(Nat) /\ Len(desired) = Len(q) /\ Len(updated) = Len(q)
       /\ \A j \in 1 .. Len(q) : desired[j] = q[j].desired /\ updated[j] = q[j].updated
  BY <1>7, <1>9
<1> HIDE DEF desired, updated
<1>11. \A j \in 1 .. Len(q) : updated[j] <= desired[j]
  BY <1>7, <1>10
<1>12. updated[i] < desired[i]
  BY <1>3, <1>8, <1>10
<1>13. SumUp(updated) < SumUp(desired)
  BY <1>10, <1>11, <1>12, SumLess
<1>14. SumUp(updated) \in Nat /\ SumUp(desired) \in Nat
  BY <1>10, SumType
<1>15. AddUp(desired) = SumUp(desired) /\ AddUp(updated) = SumUp(updated)
  BY DEF AddUp, SumUp
<1> QED BY <1>5, <1>13, <1>14, <1>15

LEMMA CardsTell == PagesOK => CardTellsThePage
<1> SUFFICES ASSUME PodsOK, PoolsOK PROVE CardTellsThePage
  BY DEF PagesOK
<1>1. Pin(pods, {1, 2}) = "degraded" => \E p \in pods : ~p.healthy
  BY DEF Pin
<1> QED BY <1>1, RedHostsShow, QuietMachinesRun, PodsAddUp, RollingShows DEF CardTellsThePage

(* What a card is read from. *)
CardOK ==
    /\ strip \in DOMAIN Rank
    /\ list.is \in {"none", "failed", "ok"} /\ list.note \in BOOLEAN /\ list.items \in SUBSET CardNode

Reasons == {"probe", "silence", "not-yet", "error", "note", "empty", NoText}

LEMMA ReasonIs ==
    ASSUME CardOK
    PROVE  Reason \in Reasons /\ (Reason = NoText => list.items # {})
<1>1. CASE list.is = "none"
  BY <1>1 DEF Reason, Reasons, NoText, CardOK
<1>2. CASE list.is = "failed"
  BY <1>2 DEF Reason, Reasons, NoText, CardOK
<1>3. CASE list.is = "ok"
  <2>1. CASE list.items = {}
    BY <1>3, <2>1 DEF Reason, Reasons, NoText, CardOK
  <2>2. CASE list.items # {}
    BY <1>3, <2>2 DEF Reason, Reasons, NoText, CardOK
  <2> QED BY <2>1, <2>2
<1> QED BY <1>1, <1>2, <1>3 DEF CardOK

(* The counts of a card, by role and as a whole. *)
CountOf(nodes, r) ==
    [role |-> r, total |-> Cardinality({n \in nodes : RoleOf(n) = r}),
     ready |-> Cardinality({n \in nodes : RoleOf(n) = r /\ n.ready})]

LEMMA CountsAddUp ==
    ASSUME NEW nodes \in SUBSET CardNode, NEW C, NEW roles \in Seq(C), C \subseteq ToSet(roles),
           \A i, j \in DOMAIN roles : roles[i] = roles[j] => i = j,
           \A c \in C : c = CountOf(nodes, c.role), \A n \in nodes : CountOf(nodes, RoleOf(n)) \in C
    PROVE  /\ AddUp([i \in DOMAIN roles |-> roles[i].total]) = Cardinality(nodes)
           /\ AddUp([i \in DOMAIN roles |-> roles[i].ready]) = Cardinality({n \in nodes : n.ready})
<1> DEFINE N == Len(roles)
           ready == {n \in nodes : n.ready}
           labelOf == [n \in nodes |-> RoleOf(n)]
           q == [i \in DOMAIN roles |-> roles[i].role]
           totals == [i \in DOMAIN roles |-> roles[i].total]
           readies == [i \in DOMAIN roles |-> roles[i].ready]
<1>1. /\ \A T \in SUBSET CardNode : IsFiniteSet(T) /\ Cardinality(T) \in Nat
      /\ \A n \in CardNode : n.ready \in BOOLEAN
  BY FS_Subset, FS_CardinalityType, CardsAssumption
<1>2. N \in Nat /\ DOMAIN roles = 1 .. N /\ \A i \in 1 .. N : roles[i] \in C
  OBVIOUS
<1> HIDE DEF N
<1>3. \A n \in nodes : labelOf[n] = RoleOf(n)
  OBVIOUS
<1>4. \A r : /\ CountOf(nodes, r).role = r
              /\ CountOf(nodes, r).total = Cardinality({n \in nodes : labelOf[n] = r})
              /\ CountOf(nodes, r).ready = Cardinality({n \in ready : labelOf[n] = r})
  <2> TAKE r
  <2>1. {n \in nodes : RoleOf(n) = r} = {n \in nodes : labelOf[n] = r}
    BY <1>3
  <2>2. {n \in nodes : RoleOf(n) = r /\ n.ready} = {n \in ready : labelOf[n] = r}
    BY <1>3
  <2> HIDE DEF labelOf, ready
  <2> QED BY <2>1, <2>2 DEF CountOf
<1> HIDE DEF labelOf
<1>5. \A i \in 1 .. N : q[i] = roles[i].role /\ totals[i] = roles[i].total /\ readies[i] = roles[i].ready
  BY <1>2
<1>6. q = [i \in 1 .. N |-> q[i]] /\ totals = [i \in 1 .. N |-> totals[i]] /\ readies = [i \in 1 .. N |-> readies[i]]
  BY <1>2
<1> HIDE DEF q, totals, readies
<1>7. \A i \in 1 .. N : roles[i] = CountOf(nodes, q[i])
  BY <1>2, <1>5
<1>8. \A i \in 1 .. N : /\ totals[i] = Cardinality({n \in nodes : labelOf[n] = q[i]})
                         /\ readies[i] = Cardinality({n \in ready : labelOf[n] = q[i]})
  <2> TAKE i \in 1 .. N
  <2>1. totals[i] = CountOf(nodes, q[i]).total /\ readies[i] = CountOf(nodes, q[i]).ready
    BY <1>5, <1>7
  <2> QED BY <1>4, <2>1
<1>9. \A i \in 1 .. N : totals[i] \in Nat /\ readies[i] \in Nat
  BY <1>1, <1>8
<1>10. /\ totals \in Seq(Nat) /\ Len(totals) = N /\ readies \in Seq(Nat) /\ Len(readies) = N
       /\ Len(q) = N
  <2>1. totals \in [1 .. N -> Nat] /\ readies \in [1 .. N -> Nat] /\ DOMAIN q = 1 .. N
    BY <1>6, <1>9
  <2>2. q \in Seq({q[i] : i \in 1 .. N})
    BY <1>2, <1>6
  <2> QED BY <1>2, <2>1, <2>2
<1>11. \A i, j \in 1 .. N : q[i] = q[j] => i = j
  <2> SUFFICES ASSUME NEW i \in 1 .. N, NEW j \in 1 .. N, q[i] = q[j] PROVE i = j
    OBVIOUS
  <2>1. roles[i] = roles[j]
    BY <1>7
  <2> QED BY <1>2, <2>1
<1>12. \A n \in nodes : \E i \in 1 .. N : labelOf[n] = q[i]
  <2> TAKE n \in nodes
  <2>1. PICK i \in 1 .. N : roles[i] = CountOf(nodes, RoleOf(n))
    BY <1>2 DEF ToSet
  <2>2. q[i] = RoleOf(n)
    BY <1>4, <1>5, <2>1
  <2> QED BY <1>3, <2>2
<1>13. Labelled(nodes, labelOf, q, totals)
  BY <1>1, <1>2, <1>8, <1>10, <1>11, <1>12 DEF Labelled
<1>14. Labelled(ready, labelOf, q, readies)
  <2>1. ready \in SUBSET nodes
    OBVIOUS
  <2>2. IsFiniteSet(ready)
    BY <1>1, <2>1
  <2> HIDE DEF ready
  <2> QED BY <1>2, <1>8, <1>10, <1>11, <1>12, <2>1, <2>2 DEF Labelled
<1>15. SumUp(totals) = Cardinality(nodes) /\ SumUp(readies) = Cardinality(ready)
  BY <1>13, <1>14, PartsAddUp
<1>16. AddUp(totals) = SumUp(totals) /\ AddUp(readies) = SumUp(readies)
  BY DEF AddUp, SumUp
<1> QED BY <1>15, <1>16 DEF totals, readies, ready

LEMMA RolesAddUp ==
    ASSUME NEW nodes \in SUBSET CardNode
    PROVE  LET roles == SetToSeq({CountOf(nodes, r) : r \in {RoleOf(n) : n \in nodes}})
           IN /\ AddUp([i \in DOMAIN roles |-> roles[i].total]) = Cardinality(nodes)
              /\ AddUp([i \in DOMAIN roles |-> roles[i].ready]) = Cardinality({n \in nodes : n.ready})
<1> DEFINE C == {CountOf(nodes, r) : r \in {RoleOf(n) : n \in nodes}}
           roles == SetToSeq(C)
<1>1. \A c \in C : c = CountOf(nodes, c.role)
  <2>1. \A r : CountOf(nodes, r).role = r
    BY DEF CountOf
  <2> QED BY <2>1
<1>2. \A n \in nodes : CountOf(nodes, RoleOf(n)) \in C
  OBVIOUS
<1>3. IsFiniteSet(C)
  <2> DEFINE h == [n \in nodes |-> CountOf(nodes, RoleOf(n))]
  <2>1. h \in [nodes -> C] /\ IsFiniteSet(nodes)
    BY FS_Subset, CardsAssumption
  <2>2. \A c \in C : \E n \in nodes : h[n] = c
    OBVIOUS
  <2> HIDE DEF h, C
  <2>3. h \in Surjection(nodes, C)
    BY <2>1, <2>2 DEF Surjection
  <2> QED BY <2>1, <2>3, FS_Surjection
<1> HIDE DEF C
<1>4. /\ roles \in Seq(C) /\ C \subseteq ToSet(roles)
      /\ \A i, j \in DOMAIN roles : roles[i] = roles[j] => i = j
  BY <1>3, SeqOfSet
<1> HIDE DEF roles
<1>5. /\ AddUp([i \in DOMAIN roles |-> roles[i].total]) = Cardinality(nodes)
      /\ AddUp([i \in DOMAIN roles |-> roles[i].ready]) = Cardinality({n \in nodes : n.ready})
  BY <1>1, <1>2, <1>4, CountsAddUp
<1> QED BY <1>5 DEF roles, C

(* A card whose reason is not known counts no one. *)
LEMMA CountsAre ==
    ASSUME CardOK
    PROVE  LET counts == View.counts
               roles == SetToSeq(counts.byRole)
           IN /\ counts.known <=> Problem = NoText /\ Reason = NoText
              /\ counts.known => counts.total > 0
              /\ AddUp([i \in DOMAIN roles |-> roles[i].total]) = counts.total
              /\ AddUp([i \in DOMAIN roles |-> roles[i].ready]) = counts.ready
              /\ counts.cordoned <= counts.total
<1> DEFINE nodes == IF Problem = NoText /\ Reason = NoText THEN list.items ELSE {}
           byRole == {CountOf(nodes, r) : r \in {RoleOf(n) : n \in nodes}}
           counts == View.counts
<1>1. nodes \in SUBSET CardNode
  BY DEF CardOK
<1>2. /\ \A T \in SUBSET CardNode : IsFiniteSet(T) /\ Cardinality(T) \in Nat
      /\ \A T \in SUBSET nodes : Cardinality(T) <= Cardinality(nodes)
  BY <1>1, FS_Subset, FS_CardinalityType, CardsAssumption
<1>3. /\ counts.known <=> Problem = NoText /\ Reason = NoText
      /\ counts.total = Cardinality(nodes) /\ counts.ready = Cardinality({n \in nodes : n.ready})
      /\ counts.cordoned = Cardinality({n \in nodes : CordonIsNews(n)}) /\ counts.byRole = byRole
  <2>1. CASE Problem = NoText
    <3>1. counts = ReadWorkload
      BY <2>1 DEF View
    <3>2. nodes = IF Reason = NoText THEN list.items ELSE {}
      BY <2>1
    <3> HIDE DEF counts
    <3> QED BY <2>1, <3>1, <3>2 DEF ReadWorkload, CountOf
  <2>2. CASE Problem # NoText
    <3>1. counts = Blanked /\ nodes = {}
      BY <2>2 DEF View
    <3>2. {n \in nodes : n.ready} = {} /\ {n \in nodes : CordonIsNews(n)} = {} /\ byRole = {}
      BY <3>1
    <3> HIDE DEF counts, byRole, nodes
    <3> QED BY <2>2, <3>1, <3>2, FS_EmptySet DEF Blanked
  <2> QED BY <2>1, <2>2
<1>4. counts.known => counts.total > 0
  <2>1. counts.known => nodes # {}
    BY <1>3, ReasonIs
  <2> HIDE DEF nodes, counts
  <2> QED BY <1>1, <1>2, <1>3, <2>1, FS_EmptySet
<1>5. counts.cordoned <= counts.total
  <2> HIDE DEF nodes, counts
  <2> QED BY <1>2, <1>3
<1> DEFINE roles == SetToSeq(byRole)
<1>6. /\ AddUp([i \in DOMAIN roles |-> roles[i].total]) = Cardinality(nodes)
      /\ AddUp([i \in DOMAIN roles |-> roles[i].ready]) = Cardinality({n \in nodes : n.ready})
  <2> HIDE DEF nodes
  <2> QED BY <1>1, RolesAddUp
<1> HIDE DEF counts, byRole, nodes
<1> QED BY <1>3, <1>4, <1>5, <1>6 DEF counts

LEMMA RowsTell == CardOK => RowTellsTheCard
<1> SUFFICES ASSUME CardOK PROVE RowTellsTheCard
  OBVIOUS
<1>1. Reason \in Reasons
  BY ReasonIs
<1>2. Problem \in {"discovery", "watch", "server", NoText}
  BY DEF Problem
<1>3. /\ Row.known = View.counts.known /\ Row.total = View.counts.total
      /\ Row.problem = IF View.problem # NoText THEN View.problem ELSE View.workloadProblem
  BY Zenon DEF Row
<1>4. /\ View.problem = Problem
      /\ View.workloadProblem = IF Problem # NoText THEN NoText ELSE Reason
      /\ View.status = IF Problem # NoText THEN "err"
                       ELSE IF IsBroken /\ Rank[strip] < Rank["warn"] THEN "warn" ELSE strip
  BY DEF View
<1>5. ~Row.known <=> Row.problem # NoText
  BY <1>3, <1>4, CountsAre
<1>6. Row.known => Row.total > 0
  BY <1>3, CountsAre
<1>7. View.status # strip => Row.problem \notin {NoText, "note", "not-yet"}
  BY <1>1, <1>2, <1>3, <1>4 DEF IsBroken, NoText
<1>8. Row.problem # NoText => {"problem", "workload"} \cap DetailPage # {}
  <2>1. View.problem # NoText => "problem" \in DetailPage
    BY DEF DetailPage
  <2>2. View.workloadProblem # NoText => "workload" \in DetailPage
    BY DEF DetailPage
  <2> QED BY <1>3, <2>1, <2>2
<1> QED BY <1>5, <1>6, <1>7, <1>8, CountsAre DEF RowTellsTheCard

LEMMA CardsStart == CardsInit => PagesOK /\ CardOK
<1>1. PagesInit /\ NoCards => PagesOK /\ CardOK
  <2>1. NoCards => CardOK
    <3>1. "loading" \in DOMAIN Rank
      BY DEF Rank
    <3>2. NoCards => strip = "loading"
      BY DEF NoCards
    <3>3. NoCards => list = [is |-> "none", note |-> FALSE, items |-> {}]
      BY DEF NoCards
    <3>4. NoCards => list.is = "none" /\ list.note = FALSE /\ list.items = {}
      BY <3>3
    <3>5. NoCards => strip \in DOMAIN Rank
      BY <3>1, <3>2, Zenon
    <3>7. NoCards => /\ list.is \in {"none", "failed", "ok"} /\ list.note \in BOOLEAN
                     /\ list.items \in SUBSET CardNode
      BY <3>4
    <3> QED BY <3>5, <3>7, Zenon DEF CardOK
  <2> QED BY <2>1, PagesStart
<1>2. ASSUME CardsDiffer PROVE PagesOK
  BY <1>2, FS_EmptySet DEF CardsDiffer, PagesOK, NoPods, NoBatch, PodsOK, PoolsOK, BatchOK, NoPools, ToSet
<1>3. ASSUME CardsDiffer PROVE CardOK
  BY <1>3 DEF CardsDiffer, CardOK
<1> QED BY <1>1, <1>2, <1>3 DEF CardsInit

(* What is said of a cluster in short is what is said of it at length        *)
(* (scopeHostsCell, cellPods, cellRollout, view, readWorkload, fleetBody).   *)
THEOREM InShortAsAtLength == CardsSpec => []CardsTellThePages
<1> DEFINE Inv == PagesOK /\ CardOK
<1>1. CardsInit => Inv
  BY CardsStart
<1>2. Inv /\ [CardsNext]_<<pageVars, cardVars>> => Inv'
  <2>1. UNCHANGED cardVars /\ CardOK => CardOK'
    BY DEF CardOK, cardVars
  <2>2. [CardsNext]_<<pageVars, cardVars>> => UNCHANGED pageVars /\ UNCHANGED cardVars
    BY DEF CardsNext
  <2> QED BY <2>1, <2>2, PagesKeep
<1>3. Inv => CardsTellThePages
  BY CardsTell, RowsTell DEF CardsTellThePages
<1> QED BY <1>1, <1>2, <1>3, PTL DEF CardsSpec

-------------------------------------------------------------------------------
(* The overview. *)

(* Blocks whose lengths are numbers. *)
Blocks(blocks) == Len(blocks) \in Nat /\ \A i \in 1 .. Len(blocks) : Len(blocks[i]) \in Nat

(* With a column for each block, a column is as tall as the one block in it. *)
LEMMA OneEach ==
    ASSUME NEW blocks, Blocks(blocks), NEW k \in 1 .. Len(blocks), NEW c \in 0 .. Len(blocks) - 1,
           c = IF k = Len(blocks) THEN 0 ELSE k
    PROVE  ColumnHeight(blocks, Len(blocks), c) = Len(blocks[k])
<1> DEFINE N == Len(blocks)
           upTo[n \in 0 .. Len(blocks)] ==
             IF n = 0 THEN 0
             ELSE IF n % N # c THEN upTo[n - 1]
             ELSE upTo[n - 1] + (IF upTo[n - 1] = 0 THEN 0 ELSE 1) + Len(blocks[n])
           f == [n \in 0 .. N |-> IF n < k THEN 0 ELSE Len(blocks[k])]
<1>1. N \in Nat \ {0} /\ k \in 1 .. N /\ Len(blocks[k]) \in Nat
  BY DEF Blocks
<1>2. ColumnHeight(blocks, N, c) = upTo[N]
  BY DEF ColumnHeight
<1>3. \A n \in 1 .. N : n % N = c <=> n = k
  <2> HIDE DEF N
  <2> TAKE n \in 1 .. N
  <2>1. n % N = IF n = N THEN 0 ELSE n
    BY <1>1
  <2> QED BY <1>1, <2>1 DEF N
<1> HIDE DEF N
<1>4. \A n \in 0 .. N :
        f[n] = IF n = 0 THEN 0
               ELSE IF n % N # c THEN f[n - 1]
               ELSE f[n - 1] + (IF f[n - 1] = 0 THEN 0 ELSE 1) + Len(blocks[n])
  <2> TAKE n \in 0 .. N
  <2>1. CASE n = 0
    BY <1>1, <2>1
  <2>2. CASE n # 0
    <3>1. n \in 1 .. N /\ n - 1 \in 0 .. N
      BY <1>1, <2>2
    <3>2. f[n - 1] = IF n - 1 < k THEN 0 ELSE Len(blocks[k])
      BY <3>1
    <3>3. f[n] = IF n < k THEN 0 ELSE Len(blocks[k])
      OBVIOUS
    <3> HIDE DEF f
    <3>4. CASE n = k
      <4>1. n % N = c /\ f[n - 1] = 0 /\ f[n] = Len(blocks[n])
        BY <1>1, <1>3, <3>1, <3>2, <3>3, <3>4
      <4> QED BY <1>1, <2>2, <3>4, <4>1
    <3>5. CASE n # k
      <4>1. n % N # c /\ f[n - 1] = f[n]
        BY <1>1, <1>3, <3>1, <3>2, <3>3, <3>5
      <4> QED BY <2>2, <4>1
    <3> QED BY <3>4, <3>5
  <2> QED BY <2>1, <2>2
<1>5. f = [n \in 0 .. N |->
             IF n = 0 THEN 0
             ELSE IF n % N # c THEN f[n - 1]
             ELSE f[n - 1] + (IF f[n - 1] = 0 THEN 0 ELSE 1) + Len(blocks[n])]
  <2>1. f = [n \in 0 .. N |-> f[n]]
    OBVIOUS
  <2> HIDE DEF f
  <2> QED BY <1>4, <2>1
<1>6. upTo = [n \in 0 .. N |->
             IF n = 0 THEN 0
             ELSE IF n % N # c THEN upTo[n - 1]
             ELSE upTo[n - 1] + (IF upTo[n - 1] = 0 THEN 0 ELSE 1) + Len(blocks[n])]
  <2> HIDE DEF f
  <2> QED BY <1>5 DEF N
<1> HIDE DEF upTo
<1>7. \A n \in 0 .. N :
        upTo[n] = IF n = 0 THEN 0
                  ELSE IF n % N # c THEN upTo[n - 1]
                  ELSE upTo[n - 1] + (IF upTo[n - 1] = 0 THEN 0 ELSE 1) + Len(blocks[n])
  BY <1>6
<1> HIDE DEF f
<1> DEFINE S == {m \in Nat : m <= N => upTo[m] = f[m]}
<1>8. 0 \in S
  BY <1>1, <1>4, <1>7
<1>9. ASSUME NEW m \in S PROVE m + 1 \in S
  <2> SUFFICES ASSUME m + 1 <= N PROVE upTo[m + 1] = f[m + 1]
    OBVIOUS
  <2>1. m \in Nat /\ m <= N /\ upTo[m] = f[m]
    BY <1>1
  <2>2. PICK n \in 0 .. N : n = m + 1
    BY <1>1, <2>1
  <2>3. n # 0 /\ n - 1 = m
    BY <2>1, <2>2
  <2>4. upTo[n] = f[n]
    BY <1>4, <1>7, <2>1, <2>3
  <2> QED BY <2>2, <2>4
<1>10. upTo[N] = f[N]
  <2>1. S \in SUBSET Nat
    OBVIOUS
  <2> HIDE DEF S
  <2>2. S = Nat
    BY <1>8, <1>9, <2>1, Induct
  <2> QED BY <1>1, <2>2 DEF S
<1>11. f[N] = Len(blocks[k])
  BY <1>1 DEF f
<1> QED BY <1>2, <1>10, <1>11 DEF N

(* Then all of them are as tall as the tallest block. *)
LEMMA Arranged ==
    ASSUME NEW blocks, Blocks(blocks), Len(blocks) \in 1 .. BlockColumns, BlockColumns \in Nat,
           NEW x \in Nat, \E i \in 1 .. Len(blocks) : Len(blocks[i]) = x,
           \A i \in 1 .. Len(blocks) : Len(blocks[i]) <= x
    PROVE  ArrangedHeight(blocks) = x
<1> DEFINE N == Len(blocks)
           T == {ColumnHeight(blocks, N, c) : c \in 0 .. N - 1}
<1>1. Min({BlockColumns, N}) = N
  <2>1. {BlockColumns, N} \in SUBSET Int /\ N \in {BlockColumns, N} /\ \A y \in {BlockColumns, N} : N <= y
    OBVIOUS
  <2> HIDE DEF N
  <2> QED BY <2>1, MinIs
<1>2. ArrangedHeight(blocks) = Max(T)
  BY <1>1 DEF ArrangedHeight
<1>3. \A k \in 1 .. N : /\ (IF k = N THEN 0 ELSE k) \in 0 .. N - 1
                        /\ ColumnHeight(blocks, N, IF k = N THEN 0 ELSE k) = Len(blocks[k])
  <2> TAKE k \in 1 .. N
  <2>1. PICK c \in 0 .. N - 1 : c = IF k = N THEN 0 ELSE k
    BY DEF Blocks
  <2>2. ColumnHeight(blocks, N, c) = Len(blocks[k])
    BY <2>1, OneEach
  <2> HIDE DEF N
  <2> QED BY <2>1, <2>2
<1>4. \A c \in 0 .. N - 1 : \E k \in 1 .. N : ColumnHeight(blocks, N, c) = Len(blocks[k])
  <2> TAKE c \in 0 .. N - 1
  <2>1. PICK k \in 1 .. N : c = IF k = N THEN 0 ELSE k
    <3>1. CASE c = 0
      BY <3>1 DEF Blocks
    <3>2. CASE c # 0
      BY <3>2 DEF Blocks
    <3> QED BY <3>1, <3>2
  <2> QED BY <2>1, OneEach
<1>5. x \in T
  <2>1. PICK k \in 1 .. N : Len(blocks[k]) = x
    OBVIOUS
  <2> HIDE DEF N
  <2> QED BY <1>3, <2>1
<1>6. \A y \in T : y \in Int /\ y <= x
  <2>1. \A k \in 1 .. N : Len(blocks[k]) \in Int /\ Len(blocks[k]) <= x
    BY DEF Blocks
  <2> HIDE DEF N
  <2> QED BY <1>4, <2>1
<1> HIDE DEF T
<1>7. T \in SUBSET Int
  BY <1>6
<1>8. Max(T) = x
  BY <1>5, <1>6, <1>7, MaxIs
<1> QED BY <1>2, <1>8

-------------------------------------------------------------------------------
(* What is read, and blocks of lines. *)
Lines(b) == b \in Seq(ToSet(b))
OverviewOK ==
    /\ width \in Nat /\ summaries \in Seq(Nat)
    /\ \A k \in Keys : Lines(Read(k))

LEMMA LinesTitled ==
    ASSUME NEW title, NEW l, Lines(l)
    PROVE  /\ Section(title, l) # <<>> /\ Len(Section(title, l)) = 1 + Len(l) /\ Len(l) \in Nat
           /\ \A i \in 1 .. Len(l) : Section(title, l)[i + 1] = l[i]
<1> DEFINE A == {title} \cup ToSet(l)
<1>1. <<title>> \in Seq(A) /\ l \in Seq(A) /\ Len(<<title>>) = 1
  <2>1. l \in Seq(ToSet(l))
    BY DEF Lines
  <2> HIDE DEF A
  <2>2. ToSet(l) \subseteq A /\ title \in A
    BY DEF A
  <2> QED BY <2>1, <2>2
<1> HIDE DEF A
<1>2. Len(<<title>> \o l) = 1 + Len(l) /\ Len(l) \in Nat
  BY <1>1
<1>3. \A i \in 1 .. Len(l) : (<<title>> \o l)[i + 1] = l[i]
  BY <1>1
<1>4. <<title>> \o l # <<>>
  BY <1>2
<1> QED BY <1>2, <1>3, <1>4 DEF Section

LEMMA LinesJoined ==
    ASSUME NEW a, NEW b, Lines(a), Lines(b)
    PROVE  /\ Lines(a \o b) /\ Len(a \o b) = Len(a) + Len(b)
           /\ \A i \in 1 .. Len(a) : (a \o b)[i] = a[i]
           /\ \A i \in 1 .. Len(b) : (a \o b)[Len(a) + i] = b[i]
<1> DEFINE A == ToSet(a) \cup ToSet(b)
           q == a \o b
<1>1. a \in Seq(A) /\ b \in Seq(A)
  <2>1. a \in Seq(ToSet(a)) /\ b \in Seq(ToSet(b)) /\ ToSet(a) \subseteq A /\ ToSet(b) \subseteq A
    BY DEF Lines
  <2> HIDE DEF A
  <2> QED BY <2>1
<1> HIDE DEF A
<1>2. /\ q \in Seq(A) /\ Len(q) = Len(a) + Len(b)
      /\ \A i \in 1 .. Len(a) : q[i] = a[i] /\ \A j \in 1 .. Len(b) : q[Len(a) + j] = b[j]
  BY <1>1
<1>3. \A i \in 1 .. Len(b) : q[Len(a) + i] = b[i]
  BY <1>1
<1> HIDE DEF q
<1>4. Lines(q)
  <2>1. q \in [1 .. Len(q) -> ToSet(q)] /\ Len(q) \in Nat
    <3>1. DOMAIN q = 1 .. Len(q) /\ Len(q) \in Nat /\ q = [i \in 1 .. Len(q) |-> q[i]]
      BY <1>2
    <3>2. \A i \in 1 .. Len(q) : q[i] \in ToSet(q)
      BY <3>1 DEF ToSet
    <3> QED BY <3>1, <3>2
  <2>2. q \in Seq(ToSet(q))
    BY <2>1
  <2> QED BY <2>2 DEF Lines
<1> QED BY <1>2, <1>3, <1>4 DEF q

(* What is made line by line of a sequence is one. *)
LEMMA LinesOf ==
    ASSUME NEW n \in Nat, NEW q, DOMAIN q = 1 .. n, q = [i \in 1 .. n |-> q[i]]
    PROVE  Lines(q) /\ Len(q) = n
<1>1. \A i \in 1 .. n : q[i] \in ToSet(q)
  BY DEF ToSet
<1>2. q \in [1 .. n -> ToSet(q)]
  BY <1>1
<1>3. q \in Seq(ToSet(q)) /\ Len(q) = n
  BY <1>2
<1> QED BY <1>3 DEF Lines

(* A row of blocks, each of a line or more. *)
Tidy(q) == Lines(q) /\ \A i \in 1 .. Len(q) : Len(q[i]) \in Nat \ {0}
BlockOK(b) == b = <<>> \/ Len(b) \in Nat \ {0}

LEMMA TidyShown == ASSUME NEW b, BlockOK(b) PROVE Tidy(Shown(b))
<1>1. CASE b = <<>>
  <2>1. Lines(<<>>) /\ Len(<<>>) = 0
    BY DEF Lines, ToSet
  <2> QED BY <1>1, <2>1 DEF Shown, Tidy
<1>2. CASE b # <<>>
  <2>1. Shown(b) = <<b>> /\ Len(b) \in Nat \ {0}
    BY <1>2 DEF Shown, BlockOK
  <2>2. DOMAIN <<b>> = 1 .. 1 /\ <<b>> = [i \in 1 .. 1 |-> <<b>>[i]] /\ <<b>>[1] = b
    OBVIOUS
  <2>3. Lines(<<b>>) /\ Len(<<b>>) = 1
    BY <2>2, LinesOf
  <2> QED BY <2>1, <2>2, <2>3 DEF Tidy
<1> QED BY <1>1, <1>2

LEMMA TidyJoined == ASSUME NEW a, NEW b, Tidy(a), Tidy(b) PROVE Tidy(a \o b)
<1> DEFINE q == a \o b
<1>1. /\ Lines(q) /\ Len(q) = Len(a) + Len(b)
      /\ \A i \in 1 .. Len(a) : q[i] = a[i]
      /\ \A i \in 1 .. Len(b) : q[Len(a) + i] = b[i]
  BY LinesJoined DEF Tidy
<1>2. Len(a) \in Nat /\ Len(b) \in Nat
  BY DEF Tidy, Lines
<1> HIDE DEF q
<1>3. ASSUME NEW i \in 1 .. Len(q) PROVE Len(q[i]) \in Nat \ {0}
  <2>1. CASE i \in 1 .. Len(a)
    BY <1>1, <2>1 DEF Tidy
  <2>2. CASE i \notin 1 .. Len(a)
    <3>1. PICK j \in 1 .. Len(b) : i = Len(a) + j
      <4>1. i - Len(a) \in 1 .. Len(b) /\ i = Len(a) + (i - Len(a))
        BY <1>1, <1>2, <2>2
      <4> QED BY <4>1
    <3> QED BY <1>1, <3>1 DEF Tidy
  <2> QED BY <2>1, <2>2
<1>4. Tidy(q)
  BY <1>1, <1>3 DEF Tidy
<1> QED BY <1>4 DEF q

(* The four blocks of the core. *)
LEMMA SectionOK == ASSUME NEW title, NEW l, Lines(l) PROVE BlockOK(Section(title, l))
BY LinesTitled DEF BlockOK

LEMMA NothingTold == Lines(<<>>) /\ Len(<<>>) = 0 /\ \A x : Lines(<<x>>) /\ Len(<<x>>) = 1
<1>1. Lines(<<>>) /\ Len(<<>>) = 0
  BY DEF Lines, ToSet
<1>2. ASSUME NEW x PROVE Lines(<<x>>) /\ Len(<<x>>) = 1
  <2>1. DOMAIN <<x>> = 1 .. 1 /\ <<x>> = [i \in 1 .. 1 |-> <<x>>[i]]
    OBVIOUS
  <2> QED BY <2>1, LinesOf
<1> QED BY <1>1, <1>2

LEMMA ClusterBlockOK == ASSUME OverviewOK PROVE BlockOK(ClusterBlock)
<1> DEFINE items == Read("clusters")
           rows == [i \in DOMAIN items |-> LET c == items[i]
                                           IN <<c.name, c.paused, ~c.available /\ c.phase # NoPhase>>]
           tail == CASE mode = "asserted" -> <<"target">>
                     [] mode = "detected" -> <<"updating">>
                     [] OTHER -> <<>>
<1>1. Lines(items)
  BY DEF OverviewOK, Keys
<1>2. Lines(rows)
  <2>1. DOMAIN items = 1 .. Len(items) /\ Len(items) \in Nat
    <3> HIDE DEF items
    <3> QED BY <1>1 DEF Lines
  <2>2. DOMAIN rows = 1 .. Len(items) /\ rows = [i \in 1 .. Len(items) |-> rows[i]]
    BY <2>1
  <2> HIDE DEF rows, items
  <2> QED BY <2>1, <2>2, LinesOf
<1>3. Lines(tail)
  BY NothingTold
<1>4. Lines(rows \o tail)
  <2> HIDE DEF rows, tail
  <2> QED BY <1>2, <1>3, LinesJoined
<1>5. BlockOK(Section("Clusters", rows \o tail))
  <2> HIDE DEF rows, tail
  <2> QED BY <1>4, SectionOK
<1>6. ClusterBlock \in {<<"rolling">>, <<>>, <<"none">>, Section("Clusters", rows \o tail)}
  <2>1. ClusterBlock = CASE ~Readable("clusters") -> IF InRollout THEN <<"rolling">> ELSE <<>>
                        [] Readable("clusters") /\ Read("clusters") = <<>> -> <<"none">>
                        [] OTHER -> Section("Clusters", rows \o tail)
    BY Zenon DEF ClusterBlock
  <2> HIDE DEF rows, tail
  <2> QED BY <2>1
<1>7. \A x : BlockOK(<<x>>)
  BY DEF BlockOK
<1>8. BlockOK(<<>>)
  BY DEF BlockOK
<1> HIDE DEF rows, tail
<1> QED BY <1>5, <1>6, <1>7, <1>8

LEMMA PoolBlockOK == ASSUME OverviewOK PROVE BlockOK(PoolBlock)
<1> DEFINE poolsRead == Read("kcps") \o Read("mds")
           bar == InRollout /\ width >= LabelWidth + 34
           Line(p) == [count |-> IF InRollout THEN <<p.upToDate, p.desired>> ELSE <<p.ready, p.desired>>,
                       bar |-> IF bar THEN Min({18, width - LabelWidth - 26}) ELSE 0,
                       paused |-> p.paused]
           rows == [i \in DOMAIN poolsRead |-> Line(poolsRead[i])]
           title == IF InRollout THEN "Progress" ELSE "Pools"
<1>1. PoolBlock = IF poolsRead = <<>> THEN <<>> ELSE Section(title, rows)
  BY DEF PoolBlock
<1>2. Lines(poolsRead)
  <2>1. Lines(Read("kcps")) /\ Lines(Read("mds"))
    BY DEF OverviewOK, Keys
  <2> QED BY <2>1, LinesJoined
<1> HIDE DEF Line, title
<1>3. Lines(rows)
  <2>1. DOMAIN poolsRead = 1 .. Len(poolsRead) /\ Len(poolsRead) \in Nat
    <3> HIDE DEF poolsRead
    <3> QED BY <1>2 DEF Lines
  <2>2. DOMAIN rows = 1 .. Len(poolsRead) /\ rows = [i \in 1 .. Len(poolsRead) |-> rows[i]]
    BY <2>1
  <2> HIDE DEF rows, poolsRead
  <2> QED BY <2>1, <2>2, LinesOf
<1> HIDE DEF rows, poolsRead
<1>4. BlockOK(Section(title, rows)) /\ BlockOK(<<>>)
  BY <1>3, SectionOK DEF BlockOK
<1> QED BY <1>1, <1>4

LEMMA SeqOfFun == ASSUME NEW n \in Nat, NEW V, NEW f \in [1 .. n -> V] PROVE f \in Seq(V) /\ Len(f) = n
OBVIOUS

(* Items that are counted line by line, one line for each label. *)
ByLabel(items, labelOf, kinds, rows) ==
    /\ Lines(items) /\ DOMAIN labelOf = DOMAIN items /\ labelOf = [i \in DOMAIN items |-> labelOf[i]]
    /\ kinds = SetToSeq({labelOf[i] : i \in DOMAIN items})
    /\ DOMAIN rows = DOMAIN kinds /\ rows = [i \in DOMAIN kinds |-> rows[i]]
    /\ \A i \in DOMAIN kinds : rows[i].total = Cardinality({j \in DOMAIN items : labelOf[j] = kinds[i]})

LEMMA LabelsCount ==
    ASSUME NEW items, NEW labelOf, NEW kinds, NEW rows, ByLabel(items, labelOf, kinds, rows)
    PROVE  /\ Lines(rows) /\ Len(rows) = Cardinality({labelOf[i] : i \in DOMAIN items})
           /\ SumUp([i \in 1 .. Len(rows) |-> rows[i].total]) = Len(items)
<1> USE DEF ByLabel
<1> DEFINE D == DOMAIN items
           K == {labelOf[i] : i \in D}
           p == [i \in 1 .. Len(rows) |-> rows[i].total]
<1>1. D = 1 .. Len(items) /\ Len(items) \in Nat
  BY DEF Lines
<1>2. IsFiniteSet(D) /\ Cardinality(D) = Len(items)
  <2>1. PICK n \in Nat : n = Len(items)
    BY <1>1
  <2>2. 1 \in Int /\ n \in Int /\ (1 > n => n = 0)
    BY <2>1
  <2>3. IsFiniteSet(1 .. n) /\ Cardinality(1 .. n) = IF 1 > n THEN 0 ELSE n - 1 + 1
    BY <2>2, FS_Interval, Zenon
  <2> QED BY <1>1, <2>1, <2>2, <2>3
<1> HIDE DEF D
<1>3. IsFiniteSet(K)
  <2>1. labelOf \in [D -> K] /\ \A c \in K : \E i \in D : labelOf[i] = c
    BY DEF D
  <2> HIDE DEF K
  <2>2. labelOf \in Surjection(D, K)
    BY <2>1 DEF Surjection
  <2> QED BY <1>2, <2>2, FS_Surjection
<1>4. kinds = SetToSeq(K)
  BY DEF D
<1> HIDE DEF K
<1>5. /\ kinds \in Seq(K) /\ ToSet(kinds) = K /\ Len(kinds) = Cardinality(K)
      /\ \A i, j \in DOMAIN kinds : kinds[i] = kinds[j] => i = j
  BY <1>3, <1>4, SeqOfSet
<1>6. DOMAIN kinds = 1 .. Len(kinds) /\ Len(kinds) \in Nat
  BY <1>5
<1>7. Lines(rows) /\ Len(rows) = Len(kinds)
  BY <1>6, LinesOf
<1>8. \A i \in 1 .. Len(kinds) : p[i] = Cardinality({j \in D : labelOf[j] = kinds[i]})
  BY <1>6, <1>7 DEF D
<1>9. p \in Seq(Nat) /\ Len(p) = Len(kinds)
  <2>1. \A T \in SUBSET D : Cardinality(T) \in Nat
    BY <1>2, FS_Subset, FS_CardinalityType
  <2>2. \A i \in 1 .. Len(kinds) : p[i] \in Nat
    <3> HIDE DEF p
    <3> QED BY <1>8, <2>1
  <2>3. p \in [1 .. Len(kinds) -> Nat]
    BY <1>7, <2>2
  <2> HIDE DEF p
  <2> QED BY <1>6, <2>3, SeqOfFun
<1> HIDE DEF p
<1>10. Labelled(D, labelOf, kinds, p)
  <2>1. \A x \in D : \E i \in 1 .. Len(kinds) : labelOf[x] = kinds[i]
    <3>1. \A x \in D : labelOf[x] \in K
      BY DEF K
    <3> QED BY <1>5, <1>6, <3>1 DEF ToSet
  <2> QED BY <1>2, <1>5, <1>6, <1>8, <1>9, <2>1 DEF Labelled
<1>11. SumUp(p) = Len(items)
  BY <1>2, <1>10, PartsAddUp
<1> QED BY <1>5, <1>7, <1>11 DEF p, K, D

(* Below its title a block has the rows it counts by. *)
LEMMA CountedBelow ==
    ASSUME NEW title, NEW rows, Lines(rows), NEW tail, Lines(tail)
    PROVE  CountedBy(Section(title, rows \o tail), Len(rows)) = SumUp([i \in 1 .. Len(rows) |-> rows[i].total])
<1> DEFINE l == rows \o tail
           b == Section(title, l)
           p == [i \in 1 .. Len(rows) |-> b[i + 1].total]
<1>1. Len(rows) \in Nat /\ Len(tail) \in Nat
  BY DEF Lines
<1>2. Lines(l) /\ Len(l) = Len(rows) + Len(tail) /\ \A i \in 1 .. Len(rows) : l[i] = rows[i]
  BY LinesJoined
<1> HIDE DEF l
<1>3. \A i \in 1 .. Len(l) : b[i + 1] = l[i]
  BY <1>2, LinesTitled
<1> HIDE DEF b
<1>4. \A i \in 1 .. Len(rows) : b[i + 1] = rows[i]
  BY <1>1, <1>2, <1>3
<1>5. p = [i \in 1 .. Len(rows) |-> rows[i].total]
  BY <1>4
<1>6. CountedBy(b, Len(rows)) = SumUp(p)
  BY DEF CountedBy, SumUp
<1> QED BY <1>5, <1>6 DEF b, l

LEMMA NodesCount ==
    ASSUME OverviewOK
    PROVE  /\ BlockOK(NodeBlock)
           /\ NodeBlock # <<>> =>
                CountedBy(NodeBlock, Cardinality({n.role : n \in ToSet(Read("nodes"))})) = Len(Read("nodes"))
<1> DEFINE nodes == Read("nodes")
           News(n) == n.cordoned /\ (n.role \notin CordonExpected \/ ~n.ready)
           Of(r) == {i \in DOMAIN nodes : nodes[i].role = r}
           Line(r) == [role |-> r,
                       total |-> Cardinality(Of(r)),
                       ready |-> Cardinality({i \in Of(r) : nodes[i].ready}),
                       cordoned |-> Cardinality({i \in Of(r) : News(nodes[i])})]
           R == {n.role : n \in ToSet(nodes)}
           roles == SetToSeq(R)
           pressure == {p \in {"memory", "disk", "pid", "network"} : \E n \in ToSet(nodes) : p \in n.pressure}
           tail == IF pressure = {} THEN <<>> ELSE <<pressure>>
           rows == [i \in DOMAIN roles |-> Line(roles[i])]
           labelOf == [i \in DOMAIN nodes |-> nodes[i].role]
<1>1. NodeBlock = IF nodes = <<>> THEN <<>> ELSE Section("Nodes", rows \o tail)
  BY DEF NodeBlock
<1>2. Lines(nodes)
  BY DEF OverviewOK, Keys
<1>3. Lines(tail)
  <2> HIDE DEF pressure
  <2> QED BY NothingTold
<1>4. R = {labelOf[i] : i \in DOMAIN nodes}
  <2>1. ToSet(nodes) = {nodes[i] : i \in DOMAIN nodes}
    BY DEF ToSet
  <2> HIDE DEF nodes
  <2> QED BY <2>1
<1> HIDE DEF tail
<1>5. DOMAIN labelOf = DOMAIN nodes /\ labelOf = [i \in DOMAIN nodes |-> labelOf[i]]
  OBVIOUS
<1>6. \A r : Line(r).total = Cardinality({j \in DOMAIN nodes : labelOf[j] = r})
  <2> TAKE r
  <2>1. Of(r) = {j \in DOMAIN nodes : labelOf[j] = r}
    OBVIOUS
  <2>2. Line(r).total = Cardinality(Of(r))
    OBVIOUS
  <2> HIDE DEF Of, Line
  <2> QED BY <2>1, <2>2
<1> HIDE DEF Line, labelOf
<1>7. DOMAIN rows = DOMAIN roles /\ rows = [i \in DOMAIN roles |-> rows[i]]
  OBVIOUS
<1>8. \A i \in DOMAIN roles : rows[i].total = Cardinality({j \in DOMAIN nodes : labelOf[j] = roles[i]})
  BY <1>6
<1>9. roles = SetToSeq({labelOf[i] : i \in DOMAIN nodes})
  BY <1>4
<1> HIDE DEF rows, roles, nodes, R
<1>10. /\ Lines(rows) /\ Len(rows) = Cardinality({labelOf[i] : i \in DOMAIN nodes})
       /\ SumUp([i \in 1 .. Len(rows) |-> rows[i].total]) = Len(nodes)
  <2>1. ByLabel(nodes, labelOf, roles, rows)
    BY <1>2, <1>5, <1>7, <1>8, <1>9, Zenon DEF ByLabel
  <2> QED BY <2>1, LabelsCount
<1>11. CountedBy(Section("Nodes", rows \o tail), Len(rows)) = Len(nodes)
  BY <1>3, <1>10, CountedBelow
<1>12. BlockOK(Section("Nodes", rows \o tail)) /\ BlockOK(<<>>)
  <2>1. Lines(rows \o tail)
    BY <1>3, <1>10, LinesJoined
  <2> QED BY <2>1, SectionOK DEF BlockOK
<1>13. Len(rows) = Cardinality(R)
  BY <1>4, <1>10
<1> QED BY <1>1, <1>11, <1>12, <1>13 DEF nodes, R

LEMMA WorkloadsCount ==
    ASSUME OverviewOK
    PROVE  /\ BlockOK(WorkloadBlock)
           /\ WorkloadBlock # <<>> => CountedBy(WorkloadBlock, Len(WorkloadBlock) - 1) = Len(Read("workloads"))
<1> DEFINE loadsRead == Read("workloads")
           Of(k) == {i \in DOMAIN loadsRead : loadsRead[i].kind = k}
           Line(k) == [kind |-> k,
                       total |-> Cardinality(Of(k)),
                       ready |-> Cardinality({i \in Of(k) : loadsRead[i].ready >= loadsRead[i].desired})]
           R == {w.kind : w \in ToSet(loadsRead)}
           kinds == SetToSeq(R)
           rows == [i \in DOMAIN kinds |-> Line(kinds[i])]
           labelOf == [i \in DOMAIN loadsRead |-> loadsRead[i].kind]
<1>1. WorkloadBlock = IF loadsRead = <<>> THEN <<>> ELSE Section("Workloads", rows)
  BY DEF WorkloadBlock
<1>2. Lines(loadsRead)
  BY DEF OverviewOK, Keys
<1>4. R = {labelOf[i] : i \in DOMAIN loadsRead}
  <2>1. ToSet(loadsRead) = {loadsRead[i] : i \in DOMAIN loadsRead}
    BY DEF ToSet
  <2> HIDE DEF loadsRead
  <2> QED BY <2>1
<1>5. DOMAIN labelOf = DOMAIN loadsRead /\ labelOf = [i \in DOMAIN loadsRead |-> labelOf[i]]
  OBVIOUS
<1>6. \A r : Line(r).total = Cardinality({j \in DOMAIN loadsRead : labelOf[j] = r})
  <2> TAKE r
  <2>1. Of(r) = {j \in DOMAIN loadsRead : labelOf[j] = r}
    OBVIOUS
  <2>2. Line(r).total = Cardinality(Of(r))
    OBVIOUS
  <2> HIDE DEF Of, Line
  <2> QED BY <2>1, <2>2
<1> HIDE DEF Line, labelOf
<1>7. DOMAIN rows = DOMAIN kinds /\ rows = [i \in DOMAIN kinds |-> rows[i]]
  OBVIOUS
<1>8. \A i \in DOMAIN kinds : rows[i].total = Cardinality({j \in DOMAIN loadsRead : labelOf[j] = kinds[i]})
  BY <1>6
<1>9. kinds = SetToSeq({labelOf[i] : i \in DOMAIN loadsRead})
  BY <1>4
<1> HIDE DEF rows, kinds, loadsRead, R
<1>10. Lines(rows) /\ SumUp([i \in 1 .. Len(rows) |-> rows[i].total]) = Len(loadsRead)
  <2>1. ByLabel(loadsRead, labelOf, kinds, rows)
    BY <1>2, <1>5, <1>7, <1>8, <1>9, Zenon DEF ByLabel
  <2> QED BY <2>1, LabelsCount
<1>11. CountedBy(Section("Workloads", rows \o <<>>), Len(rows)) = Len(loadsRead)
  BY <1>10, NothingTold, CountedBelow
<1>12. rows \o <<>> = rows
  <2>1. rows \in Seq(ToSet(rows))
    BY <1>10 DEF Lines
  <2> QED BY <2>1
<1>13. /\ BlockOK(Section("Workloads", rows)) /\ BlockOK(<<>>)
       /\ Len(Section("Workloads", rows)) - 1 = Len(rows)
  <2>1. Len(Section("Workloads", rows)) = 1 + Len(rows) /\ Len(rows) \in Nat
    BY <1>10, LinesTitled
  <2>2. BlockOK(Section("Workloads", rows))
    BY <1>10, SectionOK
  <2> QED BY <2>1, <2>2 DEF BlockOK
<1> QED BY <1>1, <1>11, <1>12, <1>13 DEF loadsRead

LEMMA CoreIsTidy == ASSUME OverviewOK PROVE Tidy(Core)
<1>1. Tidy(Shown(ClusterBlock)) /\ Tidy(Shown(PoolBlock)) /\ Tidy(Shown(NodeBlock)) /\ Tidy(Shown(WorkloadBlock))
  BY ClusterBlockOK, PoolBlockOK, NodesCount, WorkloadsCount, TidyShown
<1>2. Tidy(Shown(ClusterBlock) \o Shown(PoolBlock))
  BY <1>1, TidyJoined
<1>3. Tidy((Shown(ClusterBlock) \o Shown(PoolBlock)) \o Shown(NodeBlock))
  BY <1>1, <1>2, TidyJoined
<1>4. Tidy(((Shown(ClusterBlock) \o Shown(PoolBlock)) \o Shown(NodeBlock)) \o Shown(WorkloadBlock))
  BY <1>1, <1>3, TidyJoined
<1> QED BY <1>4 DEF Core

LEMMA ColumnsType == ASSUME OverviewOK PROVE BlockColumns \in Nat
<1>1. width \div BlockColumnWidth \in Int
  BY OverviewAssumption DEF OverviewOK
<1> DEFINE d == width \div BlockColumnWidth
<1> HIDE DEF d
<1>2. PICK x \in {d, 1} : d <= x /\ 1 <= x
  BY <1>1 DEF d
<1>3. {d, 1} \in SUBSET Int
  BY <1>1 DEF d
<1>4. Max({d, 1}) = x
  <2>1. \A y \in {d, 1} : y <= x
    BY <1>2
  <2> QED BY <1>3, <2>1, MaxIs
<1> QED BY <1>2, <1>3, <1>4 DEF BlockColumns, d

(* The tallest block, and what is contributed beside it. *)
LEMMA TallestIs ==
    ASSUME NEW q, Tidy(q), Len(q) # 0
    PROVE  /\ Tallest(q) \in Nat \ {0} /\ \E i \in 1 .. Len(q) : Len(q[i]) = Tallest(q)
           /\ \A i \in 1 .. Len(q) : Len(q[i]) <= Tallest(q)
<1> DEFINE N == Len(q)
           h == [i \in 1 .. N |-> Len(q[i])]
           T == {Len(b) : b \in ToSet(q)} \cup {0}
<1>1. N \in Nat \ {0} /\ DOMAIN q = 1 .. N /\ \A i \in 1 .. N : Len(q[i]) \in Nat \ {0}
  BY DEF Tidy, Lines
<1> HIDE DEF N
<1>2. \A i \in 1 .. N : h[i] = Len(q[i]) /\ h[i] \in Int
  BY <1>1
<1> HIDE DEF h
<1>3. PICK i \in 1 .. N : \A j \in 1 .. N : h[j] <= h[i]
  BY <1>1, <1>2, HasGreatest
<1> DEFINE x == Len(q[i])
<1>4. x \in Nat \ {0} /\ \A j \in 1 .. N : Len(q[j]) <= x
  BY <1>1, <1>2, <1>3
<1>5. ToSet(q) = {q[j] : j \in 1 .. N}
  BY <1>1 DEF ToSet
<1>6. x \in T /\ T \in SUBSET Int /\ \A y \in T : y <= x
  <2>1. \A y \in T : y = 0 \/ \E j \in 1 .. N : y = Len(q[j])
    BY <1>5
  <2>2. x \in T
    BY <1>5
  <2> HIDE DEF T, x
  <2> QED BY <1>1, <1>4, <2>1, <2>2
<1>7. Tallest(q) = x
  <2> HIDE DEF T, x
  <2>1. Max(T) = x
    BY <1>6, MaxIs
  <2> QED BY <2>1 DEF Tallest, T
<1> QED BY <1>4, <1>7 DEF N

LEMMA ContributedIs ==
    ASSUME OverviewOK, NEW core, Tidy(core), Len(core) # 0
    PROVE  LET K == Contributed(core)
           IN /\ Tidy(K) /\ \A i \in 1 .. Len(K) : Len(K[i]) <= Tallest(core)
              /\ Len(K) = 0 \/ Len(core) + Len(K) <= BlockColumns
<1> DEFINE K == Contributed(core)
           room == BlockColumns - Len(core)
           t == Tallest(core)
           m == Max({0, Min({room, Len(summaries)})})
           Of(i) == [l \in 1 .. Trimmed(summaries[i], t) |-> "line"]
<1>0. K = [i \in 1 .. m |-> Section("contributed", Of(i))]
  BY DEF Contributed
<1>1. room \in Int /\ Len(core) \in Nat /\ Len(summaries) \in Nat
  BY ColumnsType DEF Tidy, Lines, OverviewOK
<1>2. t \in Nat \ {0}
  BY TallestIs
<1>3. m \in Nat /\ m <= Len(summaries) /\ (m = 0 \/ m <= room)
  <2> HIDE DEF room
  <2> DEFINE s == Len(summaries)
             a == IF room <= s THEN room ELSE s
             b == IF a <= 0 THEN 0 ELSE a
  <2>0. s \in Nat
    BY <1>1
  <2> HIDE DEF s
  <2>1. a \in {room, s} /\ {room, s} \in SUBSET Int /\ \A y \in {room, s} : a <= y
    BY <1>1, <2>0
  <2>2. Min({room, s}) = a
    <3> HIDE DEF a
    <3> QED BY <2>1, MinIs
  <2>3. b \in {0, a} /\ {0, a} \in SUBSET Int /\ \A y \in {0, a} : y <= b
    BY <1>1, <2>0
  <2>4. Max({0, a}) = b
    <3> HIDE DEF a, b
    <3> QED BY <2>3, MaxIs
  <2>5. b \in Nat /\ b <= s /\ (b = 0 \/ b <= room)
    BY <1>1, <2>0
  <2> HIDE DEF a, b
  <2>6. m = b
    BY <2>2, <2>4 DEF s
  <2> QED BY <2>5, <2>6 DEF s
<1> HIDE DEF m
<1>4. ASSUME NEW i \in 1 .. m
      PROVE  Len(Section("contributed", Of(i))) \in Nat \ {0} /\ Len(Section("contributed", Of(i))) <= t
  <2> DEFINE n == Trimmed(summaries[i], t)
  <2>1. summaries[i] \in Nat
    BY <1>1, <1>3 DEF OverviewOK
  <2>2. n \in Nat /\ 1 + n <= t
    <3> HIDE DEF t
    <3> QED BY <1>2, <2>1 DEF Trimmed
  <2> HIDE DEF n
  <2>3. DOMAIN Of(i) = 1 .. n /\ Of(i) = [l \in 1 .. n |-> Of(i)[l]]
    BY DEF n
  <2> HIDE DEF Of
  <2>4. Lines(Of(i)) /\ Len(Of(i)) = n
    BY <2>2, <2>3, LinesOf
  <2>5. Len(Section("contributed", Of(i))) = 1 + n
    BY <2>4, LinesTitled
  <2> QED BY <1>2, <2>2, <2>5
<1> HIDE DEF Of, t
<1>5. DOMAIN K = 1 .. m /\ K = [i \in 1 .. m |-> K[i]] /\ \A i \in 1 .. m : K[i] = Section("contributed", Of(i))
  BY <1>0
<1> HIDE DEF K
<1>6. Lines(K) /\ Len(K) = m
  BY <1>3, <1>5, LinesOf
<1>7. \A i \in 1 .. Len(K) : Len(K[i]) \in Nat \ {0} /\ Len(K[i]) <= t
  BY <1>4, <1>5, <1>6
<1>8. Len(K) = 0 \/ Len(core) + Len(K) <= BlockColumns
  <2>1. BlockColumns \in Nat
    BY ColumnsType
  <2> QED BY <1>1, <1>3, <1>6, <2>1
<1> QED BY <1>6, <1>7, <1>8 DEF Tidy, K, t

(* Beside a block of the core's own, what plugins contribute adds no height. *)
LEMMA GridStays ==
    ASSUME OverviewOK, Core # <<>>
    PROVE  BodyHeight(Core \o Contributed(Core)) = BodyHeight(Core)
<1> DEFINE core == Core
           K == Contributed(core)
           both == core \o K
           x == Tallest(core)
<1>1. Tidy(core) /\ core # <<>>
  BY CoreIsTidy
<1> HIDE DEF core
<1>2. Len(core) \in Nat /\ Len(core) # 0
  BY <1>1 DEF Tidy, Lines
<1>3. /\ Tidy(K) /\ \A i \in 1 .. Len(K) : Len(K[i]) <= x
      /\ Len(K) = 0 \/ Len(core) + Len(K) <= BlockColumns
  BY <1>1, <1>2, ContributedIs
<1>4. x \in Nat \ {0} /\ (\E i \in 1 .. Len(core) : Len(core[i]) = x) /\ \A i \in 1 .. Len(core) : Len(core[i]) <= x
  BY <1>1, <1>2, TallestIs
<1> HIDE DEF K, x
<1>5. CASE Len(K) = 0
  <2>1. K = <<>> /\ core \in Seq(ToSet(core))
    BY <1>1, <1>3, <1>5 DEF Tidy, Lines
  <2>2. core \o <<>> = core
    BY <2>1
  <2> QED BY <2>1, <2>2 DEF core, K
<1>6. CASE Len(K) # 0
  <2>1. /\ Lines(both) /\ Len(both) = Len(core) + Len(K)
        /\ \A i \in 1 .. Len(core) : both[i] = core[i]
        /\ \A i \in 1 .. Len(K) : both[Len(core) + i] = K[i]
    BY <1>1, <1>3, LinesJoined DEF Tidy
  <2>2. Tidy(both)
    BY <1>1, <1>3, TidyJoined
  <2> HIDE DEF both
  <2>3. Len(K) \in Nat /\ BlockColumns \in Nat
    BY <1>3, ColumnsType DEF Tidy, Lines
  <2>4. /\ Blocks(both) /\ Len(both) \in 1 .. BlockColumns
        /\ Blocks(core) /\ Len(core) \in 1 .. BlockColumns
    BY <1>1, <1>2, <1>3, <1>6, <2>1, <2>2, <2>3 DEF Tidy, Blocks
  <2>5. \E i \in 1 .. Len(both) : Len(both[i]) = x
    <3>1. PICK i \in 1 .. Len(core) : Len(core[i]) = x
      BY <1>4
    <3>2. i \in 1 .. Len(both) /\ both[i] = core[i]
      BY <1>2, <2>1, <2>3
    <3> QED BY <3>1, <3>2
  <2>6. \A i \in 1 .. Len(both) : Len(both[i]) <= x
    <3> TAKE i \in 1 .. Len(both)
    <3>1. CASE i \in 1 .. Len(core)
      BY <1>4, <2>1, <3>1
    <3>2. CASE i \notin 1 .. Len(core)
      <4>1. PICK j \in 1 .. Len(K) : i = Len(core) + j
        <5>1. i - Len(core) \in 1 .. Len(K) /\ i = Len(core) + (i - Len(core))
          BY <1>2, <2>1, <2>3, <3>2
        <5> QED BY <5>1
      <4> QED BY <1>3, <2>1, <4>1
    <3> QED BY <3>1, <3>2
  <2>7. ArrangedHeight(both) = x
    BY <1>4, <2>3, <2>4, <2>5, <2>6, Arranged
  <2>8. ArrangedHeight(core) = x
    BY <1>4, <2>3, <2>4, Arranged
  <2>9. both # <<>> /\ core # <<>>
    BY <1>1, <2>4
  <2> QED BY <2>7, <2>8, <2>9 DEF BodyHeight, both, K, core
<1> QED BY <1>5, <1>6

LEMMA OverviewStarts == OverviewInit => OverviewOK
<1> SUFFICES ASSUME OverviewInit PROVE OverviewOK
  OBVIOUS
<1>1. width \in Nat /\ summaries \in Seq(Nat)
  BY OverviewAssumption DEF OverviewInit
<1>2. \A k \in Keys : Read(k) = <<>>
  BY DEF OverviewInit, Read, NoItems
<1> QED BY <1>1, <1>2, NothingTold DEF OverviewOK

(* How many keys there are, and of what. *)
SummaryOK == DOMAIN summary = Keys /\ summary = [k \in Keys |-> summary[k]]

LEMMA PutKeeps ==
    ASSUME OverviewOK, SummaryOK, NEW key \in Keys, PutSummary(key)
    PROVE  OverviewOK' /\ SummaryOK'
<1>1. PICK is, items : summary' = [summary EXCEPT ![key] = [is |-> is, items |-> items]] /\ Lines(items)
  <2>1. CASE summary' = [summary EXCEPT ![key] = [is |-> "items", items |-> <<>>]]
    BY <2>1, NothingTold
  <2>2. CASE \E items \in MayHold[key] : summary' = [summary EXCEPT ![key] = [is |-> "items", items |-> items]]
    <3>1. \A items \in MayHold[key] : Lines(items)
      BY OverviewAssumption DEF Lines
    <3> QED BY <2>2, <3>1
  <2>3. CASE summary' = [summary EXCEPT ![key] = [is |-> "error", items |-> <<>>]]
    BY <2>3, NothingTold
  <2> QED BY <2>1, <2>2, <2>3 DEF PutSummary
<1>2. DOMAIN summary' = Keys /\ summary' = [k \in Keys |-> summary'[k]]
  BY <1>1 DEF SummaryOK
<1>3. \A k \in Keys : summary'[k].items = IF k = key THEN items ELSE summary[k].items
  <2>1. \A k \in Keys : summary'[k] = IF k = key THEN [is |-> is, items |-> items] ELSE summary[k]
    BY <1>1 DEF SummaryOK
  <2> QED BY <2>1
<1>4. \A k \in Keys : Lines(summary[k].items)
  BY DEF OverviewOK, Read
<1>5. \A k \in Keys : Lines(summary'[k].items)
  BY <1>1, <1>3, <1>4
<1>6. UNCHANGED <<width, summaries>>
  BY DEF PutSummary
<1> QED BY <1>2, <1>5, <1>6 DEF OverviewOK, SummaryOK, Read, Lines

(* Nothing a plugin has to say moves the grid, and every node and workload   *)
(* is counted on one line (OverviewPane.contributed, arrangeBlocks).         *)
THEOREM TheGridStaysPut == OverviewSpec => []PluginsNeverMoveTheGrid
<1> DEFINE Inv == OverviewOK /\ SummaryOK
<1>1. OverviewInit => Inv
  BY OverviewStarts DEF OverviewInit, SummaryOK
<1>2. Inv /\ [OverviewNext]_overviewVars => Inv'
  <2> SUFFICES ASSUME Inv, [OverviewNext]_overviewVars PROVE Inv'
    OBVIOUS
  <2>1. ASSUME NEW key \in Keys, PutSummary(key) PROVE Inv'
    BY <2>1, PutKeeps
  <2>2. UNCHANGED <<summary, width, summaries>> => Inv'
    BY DEF OverviewOK, SummaryOK, Read, Lines
  <2>3. CASE RolloutMoves
    BY <2>2, <2>3 DEF RolloutMoves
  <2>4. CASE Contribute
    <3>1. summaries' \in Seq(Nat) /\ UNCHANGED <<summary, width>>
      BY <2>4, OverviewAssumption DEF Contribute
    <3> QED BY <3>1 DEF OverviewOK, SummaryOK, Read, Lines
  <2>5. CASE ResizeOverview
    <3>1. width' \in Nat /\ UNCHANGED <<summary, summaries>>
      BY <2>5, OverviewAssumption DEF ResizeOverview
    <3> QED BY <3>1 DEF OverviewOK, SummaryOK, Read, Lines
  <2>6. CASE UNCHANGED overviewVars
    BY <2>2, <2>6 DEF overviewVars
  <2> QED BY <2>1, <2>3, <2>4, <2>5, <2>6 DEF OverviewNext
<1>3. Inv => PluginsNeverMoveTheGrid
  BY GridStays, NodesCount, WorkloadsCount DEF PluginsNeverMoveTheGrid
<1> QED BY <1>1, <1>2, <1>3, PTL DEF OverviewSpec

-------------------------------------------------------------------------------
(* The panes. *)

(* The two ways to write a sum. *)
LEMMA TotalIs == ASSUME NEW q PROVE Total(q) = SumUp(q)
BY DEF Total, SumUp

(* A sum with one of its numbers replaced. *)
LEMMA SumReplaced ==
    ASSUME NEW q \in Seq(Nat), NEW j \in 1 .. Len(q), NEW d \in Nat
    PROVE  /\ [q EXCEPT ![j] = d] \in Seq(Nat) /\ Len([q EXCEPT ![j] = d]) = Len(q)
           /\ SumUp([q EXCEPT ![j] = d]) = SumUp(q) - q[j] + d
<1> DEFINE N == Len(q)
           p == [q EXCEPT ![j] = d]
<1>1. /\ N \in Nat /\ j \in 1 .. N /\ \A i \in 1 .. N : q[i] \in Nat
      /\ p \in Seq(Nat) /\ Len(p) = N /\ p[j] = d /\ \A i \in 1 .. N : i # j => p[i] = q[i]
  OBVIOUS
<1>2. PICK f \in [0 .. N -> Nat] : /\ f[0] = 0 /\ SumUp(q) = f[N]
                                   /\ \A n \in 1 .. N : f[n] = f[n - 1] + q[n]
  BY SumIs
<1>3. PICK h \in [0 .. N -> Nat] : /\ h[0] = 0 /\ SumUp(p) = h[N]
                                   /\ \A n \in 1 .. N : h[n] = h[n - 1] + p[n]
  <2> HIDE DEF p, N
  <2>1. PICK h \in [0 .. Len(p) -> Nat] : /\ h[0] = 0 /\ SumUp(p) = h[Len(p)]
                                          /\ \A n \in 1 .. Len(p) : h[n] = h[n - 1] + p[n]
    BY <1>1, SumIs
  <2> QED BY <1>1, <2>1
<1> HIDE DEF N, p
<1> DEFINE S == {m \in Nat : m <= N => h[m] = IF m < j THEN f[m] ELSE f[m] - q[j] + d}
<1>4. 0 \in S
  BY <1>1, <1>2, <1>3
<1>5. ASSUME NEW m \in S PROVE m + 1 \in S
  <2> SUFFICES ASSUME m + 1 <= N
               PROVE  h[m + 1] = IF m + 1 < j THEN f[m + 1] ELSE f[m + 1] - q[j] + d
    OBVIOUS
  <2>1. m \in Nat /\ m <= N /\ m \in 0 .. N
    BY <1>1
  <2>2. PICK k \in 1 .. N : k = m + 1 /\ k - 1 = m
    BY <2>1
  <2>3. f[k] = f[m] + q[k] /\ h[k] = h[m] + p[k]
    BY <1>2, <1>3, <2>2
  <2>4. h[m] = IF m < j THEN f[m] ELSE f[m] - q[j] + d
    BY <2>1
  <2>5. f[m] \in Nat /\ h[m] \in Nat /\ q[k] \in Nat /\ q[j] \in Nat
    BY <1>1, <1>2, <1>3, <2>1, <2>2
  <2>6. h[k] = IF k < j THEN f[k] ELSE f[k] - q[j] + d
    <3>1. CASE k = j
      <4>1. m < j
        BY <2>1, <2>2, <3>1
      <4>2. p[k] = d /\ q[k] = q[j]
        BY <1>1, <3>1
      <4> QED BY <2>3, <2>4, <2>5, <3>1, <4>1, <4>2
    <3>2. CASE k # j
      <4>1. p[k] = q[k]
        BY <1>1, <3>2
      <4>2. j \in Nat /\ k \in Nat
        BY <1>1, <2>2
      <4>3. k < j <=> m < j
        BY <2>1, <2>2, <3>2, <4>2
      <4> QED BY <2>3, <2>4, <2>5, <4>1, <4>3
    <3> QED BY <3>1, <3>2
  <2> QED BY <2>2, <2>6
<1>6. N \in S
  <2>1. S \in SUBSET Nat
    OBVIOUS
  <2> HIDE DEF S
  <2> QED BY <1>1, <1>4, <1>5, <2>1, Induct
<1> QED BY <1>1, <1>2, <1>3, <1>6 DEF N, p

(* A column is made narrower by one, or all are as narrow as they may be. *)
AllNarrow(widths) == \A i \in 1 .. Len(widths) : widths[i] <= MinColWidth

LEMMA ShrunkIs ==
    ASSUME NEW widths \in Seq(Nat), widths # <<>>
    PROVE  /\ Shrunk(widths) \in Seq(Nat) /\ Len(Shrunk(widths)) = Len(widths)
           /\ \/ AllNarrow(widths) /\ Shrunk(widths) = widths
              \/ ~AllNarrow(widths) /\ SumUp(Shrunk(widths)) = SumUp(widths) - 1
<1> DEFINE N == Len(widths)
           First(i) == \A j \in DOMAIN widths : widths[j] < widths[i] \/ (widths[j] = widths[i] /\ j >= i)
           widest == CHOOSE i \in DOMAIN widths : First(i)
<1>1. N \in Nat \ {0} /\ DOMAIN widths = 1 .. N /\ \A i \in 1 .. N : widths[i] \in Nat
  OBVIOUS
<1>2. widest \in 1 .. N /\ \A j \in 1 .. N : widths[j] <= widths[widest]
  <2> HIDE DEF N
  <2>1. PICK k \in 1 .. N : \A j \in 1 .. N : widths[j] <= widths[k]
    <3>1. \A i \in 1 .. N : widths[i] \in Int
      BY <1>1
    <3> QED BY <1>1, <3>1, HasGreatest
  <2> DEFINE T == {i \in 1 .. N : widths[i] = widths[k]}
  <2>2. PICK i \in T : \A j \in T : i <= j
    <3>1. T \in SUBSET Nat /\ T # {}
      BY <1>1, <2>1
    <3> HIDE DEF T
    <3> QED BY <3>1, HasLeast
  <2>3. i \in 1 .. N /\ First(i)
    <3>1. i \in 1 .. N /\ widths[i] = widths[k]
      BY <2>2
    <3>2. ASSUME NEW j \in 1 .. N PROVE widths[j] < widths[i] \/ (widths[j] = widths[i] /\ j >= i)
      <4>1. widths[j] \in Nat /\ widths[k] \in Nat /\ widths[j] <= widths[k]
        BY <1>1, <2>1
      <4>2. widths[j] = widths[k] => j >= i
        BY <2>2, <1>1
      <4> QED BY <3>1, <4>1, <4>2
    <3> QED BY <1>1, <3>1, <3>2
  <2>4. widest \in DOMAIN widths /\ First(widest)
    <3> HIDE DEF First
    <3> QED BY <1>1, <2>3
  <2>5. \A j \in 1 .. N : widths[j] <= widths[widest]
    <3> HIDE DEF widest
    <3> QED BY <1>1, <2>4
  <2> QED BY <1>1, <2>4, <2>5
<1>3. Shrunk(widths) = IF widths[widest] <= MinColWidth THEN widths ELSE [widths EXCEPT ![widest] = @ - 1]
  BY DEF Shrunk
<1> HIDE DEF widest, N
<1>4. CASE widths[widest] <= MinColWidth
  <2>1. AllNarrow(widths)
    <3>1. ASSUME NEW i \in 1 .. N PROVE widths[i] <= MinColWidth
      <4>1. widths[i] \in Nat /\ widths[widest] \in Nat /\ widths[i] <= widths[widest]
        BY <1>1, <1>2
      <4> QED BY <1>4, <4>1 DEF MinColWidth
    <3> QED BY <3>1 DEF AllNarrow, N
  <2> QED BY <1>3, <1>4, <2>1
<1>5. CASE ~(widths[widest] <= MinColWidth)
  <2> DEFINE d == widths[widest] - 1
  <2>1. d \in Nat /\ widths[widest] \in Nat
    BY <1>1, <1>2, <1>5 DEF MinColWidth
  <2>2. Shrunk(widths) = [widths EXCEPT ![widest] = d]
    BY <1>3, <1>5
  <2>3. /\ [widths EXCEPT ![widest] = d] \in Seq(Nat) /\ Len([widths EXCEPT ![widest] = d]) = Len(widths)
        /\ SumUp([widths EXCEPT ![widest] = d]) = SumUp(widths) - widths[widest] + d
    <3> HIDE DEF d
    <3> QED BY <1>2, <2>1, SumReplaced DEF N
  <2>4. SumUp(widths) \in Nat
    BY SumType
  <2>5. ~AllNarrow(widths)
    BY <1>2, <1>5 DEF AllNarrow, N
  <2> QED BY <2>1, <2>2, <2>3, <2>4, <2>5
<1> QED BY <1>4, <1>5

(* Columns give way until what is asked for is given, or all are narrow. *)
LEMMA ShrinkIs ==
    ASSUME NEW widths \in Seq(Nat), widths # <<>>, NEW by \in Nat
    PROVE  /\ Shrink(widths, by) \in Seq(Nat) /\ Len(Shrink(widths, by)) = Len(widths)
           /\ AllNarrow(Shrink(widths, by)) \/ SumUp(Shrink(widths, by)) = SumUp(widths) - by
<1> DEFINE W == {q \in Seq(Nat) : Len(q) = Len(widths)}
           g == [n \in 1 .. by |-> [x \in W |-> Shrunk(x)]]
           upTo[n \in 0 .. by] == IF n = 0 THEN widths ELSE Shrunk(upTo[n - 1])
<1>1. widths \in W /\ \A x \in W : Shrunk(x) \in W /\ x # <<>> /\ x \in Seq(Nat)
  <2>1. \A x \in W : x \in Seq(Nat) /\ x # <<>> /\ Len(x) = Len(widths)
    OBVIOUS
  <2>2. \A x \in W : Shrunk(x) \in Seq(Nat) /\ Len(Shrunk(x)) = Len(x)
    <3> HIDE DEF W
    <3> QED BY <2>1, ShrunkIs
  <2> QED BY <2>1, <2>2
<1> HIDE DEF W
<1>2. g \in [1 .. by -> [W -> W]]
  BY <1>1
<1>3. PICK f \in [0 .. by -> W] : f[0] = widths /\ \A n \in 1 .. by : f[n] = g[n][f[n - 1]]
  <2> DEFINE first == widths
             last == by
  <2> HIDE DEF g, upTo
  <2>1. Steps(W, last, first, g)
    BY <1>1, <1>2 DEF Steps
  <2> HIDE DEF first, last
  <2>2. PICK f \in [0 .. last -> W] : f[0] = first /\ \A n \in 1 .. last : f[n] = g[n][f[n - 1]]
    BY <2>1, Computed
  <2> QED BY <2>2 DEF first, last
<1>4. \A n \in 1 .. by : f[n] = Shrunk(f[n - 1])
  <2> TAKE n \in 1 .. by
  <2>1. n - 1 \in 0 .. by
    OBVIOUS
  <2>2. f[n - 1] \in W /\ f[n] = g[n][f[n - 1]]
    BY <1>3, <2>1
  <2> HIDE DEF g
  <2>3. g[n] = [x \in W |-> Shrunk(x)]
    BY DEF g
  <2> QED BY <2>2, <2>3
<1>5. f = [n \in 0 .. by |-> IF n = 0 THEN widths ELSE Shrunk(f[n - 1])]
  <2>1. \A n \in 0 .. by : f[n] = IF n = 0 THEN widths ELSE Shrunk(f[n - 1])
    BY <1>3, <1>4
  <2>2. f = [n \in 0 .. by |-> f[n]]
    BY <1>3
  <2> QED BY <2>1, <2>2
<1>6. upTo = [n \in 0 .. by |-> IF n = 0 THEN widths ELSE Shrunk(upTo[n - 1])]
  BY <1>5
<1>7. Shrink(widths, by) = upTo[by]
  BY DEF Shrink
<1> HIDE DEF upTo
<1>8. \A n \in 0 .. by : upTo[n] = IF n = 0 THEN widths ELSE Shrunk(upTo[n - 1])
  BY <1>6
<1> DEFINE Good(x, n) == x \in W /\ (AllNarrow(x) \/ SumUp(x) = SumUp(widths) - n)
           S == {n \in Nat : n <= by => Good(upTo[n], n)}
<1>9. 0 \in S
  <2>1. upTo[0] = widths /\ SumUp(widths) \in Nat
    BY <1>8, SumType
  <2> QED BY <1>1, <2>1
<1>10. ASSUME NEW n \in S PROVE n + 1 \in S
  <2> SUFFICES ASSUME n + 1 <= by PROVE Good(upTo[n + 1], n + 1)
    OBVIOUS
  <2>1. n \in Nat /\ n <= by /\ Good(upTo[n], n)
    OBVIOUS
  <2>2. PICK k \in 0 .. by : k = n + 1 /\ k - 1 = n /\ k # 0
    BY <2>1
  <2>3. upTo[k] = Shrunk(upTo[n])
    BY <1>8, <2>2
  <2> DEFINE x == upTo[n]
  <2>4. x \in W /\ x \in Seq(Nat) /\ x # <<>>
    BY <1>1, <2>1
  <2> HIDE DEF x, Good
  <2>5. \/ AllNarrow(x) /\ Shrunk(x) = x
        \/ ~AllNarrow(x) /\ SumUp(Shrunk(x)) = SumUp(x) - 1
    BY <2>4, ShrunkIs
  <2>6. Good(Shrunk(x), k)
    <3>1. Shrunk(x) \in W /\ SumUp(x) \in Nat /\ SumUp(widths) \in Nat
      BY <1>1, <2>4, SumType
    <3>2. AllNarrow(x) \/ SumUp(x) = SumUp(widths) - n
      BY <2>1 DEF Good, x
    <3>3. CASE AllNarrow(x) /\ Shrunk(x) = x
      BY <3>1, <3>3 DEF Good
    <3>4. CASE SumUp(x) = SumUp(widths) - n /\ SumUp(Shrunk(x)) = SumUp(x) - 1
      BY <2>1, <2>2, <3>1, <3>4 DEF Good
    <3> QED BY <2>5, <3>2, <3>3, <3>4
  <2> QED BY <2>2, <2>3, <2>6 DEF x
<1> QED
  <2>1. S \in SUBSET Nat
    OBVIOUS
  <2>2. S = Nat
    <3> HIDE DEF S
    <3> QED BY <1>9, <1>10, <2>1, Induct
  <2>3. Good(upTo[by], by)
    BY <2>2
  <2> QED BY <1>1, <1>7, <2>3 DEF W

Col == [header : Nat, cell : Nat, stretch : BOOLEAN]

(* The smaller and the greater of two numbers. *)
LEMMA LeastMost ==
    ASSUME NEW a \in Int, NEW b \in Int
    PROVE  /\ Least(a, b) \in {a, b} /\ Least(a, b) <= a /\ Least(a, b) <= b
           /\ Most(a, b) \in {a, b} /\ Most(a, b) >= a /\ Most(a, b) >= b
BY DEF Least, Most

(* What the columns are when nothing is made wider or narrower. *)
LEMMA NaturalIs ==
    ASSUME NEW cols \in Seq(Col)
    PROVE  /\ [i \in DOMAIN cols |-> Natural(cols[i])] \in Seq(Nat)
           /\ Len([i \in DOMAIN cols |-> Natural(cols[i])]) = Len(cols)
<1> DEFINE q == [i \in DOMAIN cols |-> Natural(cols[i])]
<1>1. DOMAIN cols = 1 .. Len(cols) /\ Len(cols) \in Nat
  OBVIOUS
<1>2. \A i \in 1 .. Len(cols) : Natural(cols[i]) \in Nat
  <2> TAKE i \in 1 .. Len(cols)
  <2>1. cols[i] \in Col
    OBVIOUS
  <2>2. cols[i].header \in Nat /\ cols[i].cell \in Nat
    BY <2>1 DEF Col
  <2> QED BY <2>2 DEF Natural, Most
<1>3. q = [i \in 1 .. Len(cols) |-> q[i]] /\ \A i \in 1 .. Len(cols) : q[i] \in Nat
  BY <1>1, <1>2
<1> HIDE DEF q
<1>4. q \in Seq(Nat) /\ Len(q) = Len(cols)
  BY <1>1, <1>3
<1> QED BY <1>4 DEF q

LEMMA StretchIs == ASSUME NEW cols \in Seq(Col) PROVE Stretch(cols) \in {0} \cup 1 .. Len(cols)
<1> DEFINE all == {i \in DOMAIN cols : cols[i].stretch}
           first == CHOOSE i \in all : \A j \in all : i <= j
<1>1. all # {} => first \in all
  <2> SUFFICES ASSUME all # {} PROVE first \in all
    OBVIOUS
  <2>1. all \in SUBSET Nat
    OBVIOUS
  <2>2. \E i \in all : \A j \in all : i <= j
    <3> HIDE DEF all
    <3> QED BY <2>1, HasLeast
  <2> HIDE DEF all
  <2> QED BY <2>2
<1>2. all \subseteq 1 .. Len(cols)
  OBVIOUS
<1>3. Stretch(cols) = IF all = {} THEN 0 ELSE IF cols[first].cell = 0 THEN 0 ELSE first
  BY DEF Stretch
<1> HIDE DEF all, first
<1> QED BY <1>1, <1>2, <1>3

(* The columns' widths fit, or all are narrow. *)
LEMMA InnerFits ==
    ASSUME NEW cols \in Seq(Col), cols # <<>>, NEW inner \in Int
    PROVE  /\ Inner(cols, inner) \in Seq(Nat) /\ Len(Inner(cols, inner)) = Len(cols)
           /\ \/ SumUp(Inner(cols, inner)) + Gaps(cols) <= inner
              \/ AllNarrow(Inner(cols, inner))
<1> DEFINE natural == [i \in DOMAIN cols |-> Natural(cols[i])]
           s == Stretch(cols)
           over == NaturalRow(cols) - inner
           floor == Most(cols[s].header, 1)
           gives == IF s = 0 THEN 0 ELSE Least(Most(natural[s] - floor, 0), over)
           grown == Most(natural[s] + MaxStretchPad, Most(MinStretch, cols[s].header))
           left == natural[s] - gives
           more == natural[s] + Least(Most(grown - natural[s], 0), -over)
           G == Gaps(cols)
<1>1. natural \in Seq(Nat) /\ Len(natural) = Len(cols) /\ natural # <<>> /\ SumUp(natural) \in Nat /\ G \in Int
  <2>1. natural \in Seq(Nat) /\ Len(natural) = Len(cols) /\ Len(cols) \in Nat \ {0}
    BY NaturalIs
  <2> HIDE DEF natural
  <2>2. natural # <<>> /\ SumUp(natural) \in Nat
    BY <2>1, SumType
  <2>3. G \in Int
    BY <2>1 DEF Gaps, MinGap
  <2> QED BY <2>1, <2>2, <2>3
<1>2. over = SumUp(natural) + G - inner /\ over \in Int
  <2>1. NaturalRow(cols) = SumUp(natural) + G
    BY TotalIs DEF NaturalRow
  <2> HIDE DEF natural, G
  <2> QED BY <1>1, <2>1
<1>3. s \in {0} \cup 1 .. Len(natural)
  BY <1>1, StretchIs
<1>4. s # 0 => natural[s] \in Nat /\ cols[s].header \in Nat
  <2> SUFFICES ASSUME s # 0 PROVE natural[s] \in Nat /\ cols[s].header \in Nat
    OBVIOUS
  <2>1. s \in 1 .. Len(cols) /\ s \in 1 .. Len(natural)
    BY <1>1, <1>3
  <2>2. natural[s] \in Nat
    <3> HIDE DEF natural, s
    <3> QED BY <1>1, <2>1
  <2>3. cols[s] \in Col
    <3> HIDE DEF s
    <3> QED BY <2>1
  <2> QED BY <2>2, <2>3 DEF Col
<1>5. Inner(cols, inner) =
        IF over > 0
        THEN Shrink(IF s = 0 THEN natural ELSE [natural EXCEPT ![s] = left], over - gives)
        ELSE IF s = 0 THEN natural
        ELSE [natural EXCEPT ![s] = more]
  BY DEF Inner
<1> HIDE DEF natural, s, over, G
<1>6. CASE over > 0
  <2> DEFINE given == IF s = 0 THEN natural ELSE [natural EXCEPT ![s] = left]
  <2>1. gives \in Nat /\ gives <= over /\ (s # 0 => left \in Nat)
    <3>1. CASE s = 0
      BY <1>2, <1>6, <3>1
    <3>2. CASE s # 0
      <4>1. floor \in Nat
        BY <1>4, <3>2 DEF Most
      <4> HIDE DEF floor
      <4> QED BY <1>2, <1>4, <1>6, <3>2, <4>1 DEF Least, Most
    <3> QED BY <3>1, <3>2
  <2>2. given \in Seq(Nat) /\ Len(given) = Len(natural) /\ SumUp(given) = SumUp(natural) - gives
    <3>1. CASE s = 0
      BY <1>1, <3>1
    <3>2. CASE s # 0
      <4>1. s \in 1 .. Len(natural) /\ left \in Nat
        BY <1>3, <2>1, <3>2
      <4>2. given = [natural EXCEPT ![s] = left] /\ left = natural[s] - gives
        BY <3>2
      <4> HIDE DEF left, given, gives
      <4>3. /\ [natural EXCEPT ![s] = left] \in Seq(Nat) /\ Len([natural EXCEPT ![s] = left]) = Len(natural)
            /\ SumUp([natural EXCEPT ![s] = left]) = SumUp(natural) - natural[s] + left
        BY <1>1, <4>1, SumReplaced
      <4>4. SumUp(natural) - natural[s] + left = SumUp(natural) - gives
        BY <1>1, <1>4, <2>1, <3>2, <4>2
      <4> QED BY <4>2, <4>3, <4>4
    <3> QED BY <3>1, <3>2
  <2>3. Inner(cols, inner) = Shrink(given, over - gives)
    BY <1>5, <1>6
  <2> DEFINE by == over - gives
  <2> HIDE DEF given, gives
  <2>4. by \in Nat /\ given # <<>>
    BY <1>1, <1>2, <2>1, <2>2
  <2> HIDE DEF by
  <2>5. /\ Shrink(given, by) \in Seq(Nat) /\ Len(Shrink(given, by)) = Len(given)
        /\ AllNarrow(Shrink(given, by)) \/ SumUp(Shrink(given, by)) = SumUp(given) - by
    BY <2>2, <2>4, ShrinkIs
  <2>6. SumUp(given) - by = SumUp(natural) - over
    BY <1>1, <1>2, <2>1, <2>2 DEF by
  <2>7. SumUp(natural) - over + G <= inner
    BY <1>1, <1>2
  <2> QED BY <1>1, <2>2, <2>3, <2>5, <2>6, <2>7 DEF by, G
<1>7. CASE ~(over > 0) /\ s = 0
  <2>1. Inner(cols, inner) = natural /\ SumUp(natural) + G <= inner
    BY <1>1, <1>2, <1>5, <1>7
  <2> QED BY <1>1, <2>1 DEF G
<1>8. CASE ~(over > 0) /\ s # 0
  <2>1. grown \in Nat
    BY <1>4, <1>8 DEF Most, MaxStretchPad, MinStretch
  <2> HIDE DEF grown
  <2>2. more \in Nat /\ more <= natural[s] - over
    BY <1>2, <1>4, <1>8, <2>1 DEF Least, Most
  <2> HIDE DEF more
  <2>3. Inner(cols, inner) = [natural EXCEPT ![s] = more] /\ s \in 1 .. Len(natural)
    BY <1>3, <1>5, <1>8
  <2>4. /\ Inner(cols, inner) \in Seq(Nat) /\ Len(Inner(cols, inner)) = Len(natural)
        /\ SumUp(Inner(cols, inner)) = SumUp(natural) - natural[s] + more
    BY <1>1, <2>2, <2>3, SumReplaced
  <2>5. SumUp(natural) - natural[s] + more + G <= inner
    BY <1>1, <1>2, <1>4, <1>8, <2>2
  <2> QED BY <1>1, <2>4, <2>5 DEF G
<1> QED BY <1>6, <1>7, <1>8

(* A sum of which only the last number is not zero. *)
LEMMA SumOfLast ==
    ASSUME NEW q \in Seq(Nat), q # <<>>, \A k \in 1 .. Len(q) : k < Len(q) => q[k] = 0
    PROVE  SumUp(q) = q[Len(q)]
<1> DEFINE N == Len(q)
<1>1. N \in Nat \ {0} /\ (\A k \in 1 .. N : q[k] \in Nat) /\ \A k \in 1 .. N : k < N => q[k] = 0
  OBVIOUS
<1>2. PICK f \in [0 .. N -> Nat] : /\ f[0] = 0 /\ SumUp(q) = f[N]
                                   /\ \A n \in 1 .. N : f[n] = f[n - 1] + q[n]
  BY SumIs
<1> HIDE DEF N
<1> DEFINE S == {m \in Nat : m < N => f[m] = 0}
<1>3. 0 \in S
  BY <1>2
<1>4. ASSUME NEW m \in S PROVE m + 1 \in S
  <2> SUFFICES ASSUME m + 1 < N PROVE f[m + 1] = 0
    OBVIOUS
  <2>1. m \in Nat /\ m < N
    BY <1>1
  <2>2. PICK k \in 1 .. N : k = m + 1 /\ k - 1 = m /\ k < N
    BY <1>1, <2>1
  <2>3. f[m] = 0 /\ q[k] = 0 /\ f[k] = f[m] + q[k]
    BY <1>1, <1>2, <2>1, <2>2
  <2> QED BY <2>2, <2>3
<1>5. N - 1 \in S
  <2>1. S \in SUBSET Nat /\ N - 1 \in Nat
    BY <1>1
  <2> HIDE DEF S
  <2> QED BY <1>3, <1>4, <2>1, Induct
<1>6. f[N - 1] = 0 /\ f[N] = f[N - 1] + q[N] /\ q[N] \in Nat
  BY <1>1, <1>2, <1>5
<1> QED BY <1>2, <1>6 DEF N

(* Groups that are dealt consecutive numbers, b[k] of them by the k-th. *)
Dealt(seqs, N, b) ==
    /\ N \in Nat \ {0} /\ Len(seqs) = N /\ b \in [0 .. N -> Nat] /\ b[0] = 0
    /\ \A k \in 1 .. N : b[k - 1] <= b[k] /\ seqs[k] = [i \in 1 .. b[k] - b[k - 1] |-> b[k - 1] + i]

LEMMA PutTogether ==
    ASSUME NEW x \in Nat, NEW y \in Nat, x <= y
    PROVE  [i \in 1 .. x |-> i] \o [i \in 1 .. y - x |-> x + i] = [i \in 1 .. y |-> i]
<1> DEFINE p == [i \in 1 .. x |-> i]
           q == [i \in 1 .. y - x |-> x + i]
<1>1. p \in Seq(Nat) /\ q \in Seq(Nat) /\ Len(p) = x /\ Len(q) = y - x
  OBVIOUS
<1>2. (\A i \in 1 .. x : p[i] = i) /\ \A i \in 1 .. y - x : q[i] = x + i
  OBVIOUS
<1> HIDE DEF p, q
<1>3. p \o q \in Seq(Nat) /\ Len(p \o q) = y
  BY <1>1
<1>4. \A i \in 1 .. y : (p \o q)[i] = i
  <2> TAKE i \in 1 .. y
  <2>1. CASE i <= x
    <3>1. (p \o q)[i] = p[i] /\ i \in 1 .. x
      BY <1>1, <2>1
    <3> QED BY <1>2, <3>1
  <2>2. CASE ~(i <= x)
    <3>1. (p \o q)[i] = q[i - x] /\ i - x \in 1 .. y - x
      BY <1>1, <2>2
    <3> QED BY <1>2, <3>1
  <2> QED BY <2>1, <2>2
<1>5. p \o q = [i \in 1 .. y |-> (p \o q)[i]]
  <2> DEFINE r == p \o q
  <2>1. r \in Seq(Nat) /\ Len(r) = y
    BY <1>3
  <2> HIDE DEF r
  <2>2. DOMAIN r = 1 .. y
    BY <2>1
  <2>3. r = [i \in 1 .. y |-> r[i]]
    BY <2>1, <2>2
  <2> QED BY <2>3 DEF r
<1>6. p \o q = [i \in 1 .. y |-> i]
  BY <1>4, <1>5
<1> QED BY <1>6 DEF p, q

LEMMA Flattened ==
    ASSUME NEW seqs, NEW N, NEW b, Dealt(seqs, N, b)
    PROVE  FlattenSeq(seqs) = [i \in 1 .. b[N] |-> i]
<1> DEFINE f == [k \in 1 .. N |-> [i \in 1 .. b[k] |-> i]]
           flatten[k \in 1 .. Len(seqs)] == IF k = 1 THEN seqs[k] ELSE flatten[k - 1] \o seqs[k]
<1>1. /\ N \in Nat \ {0} /\ Len(seqs) = N /\ b \in [0 .. N -> Nat] /\ b[0] = 0
      /\ \A k \in 1 .. N : b[k - 1] <= b[k] /\ seqs[k] = [i \in 1 .. b[k] - b[k - 1] |-> b[k - 1] + i]
  BY DEF Dealt
<1>2. seqs[1] = [i \in 1 .. b[1] |-> i]
  <2>1. PICK k \in 1 .. N : k = 1 /\ k - 1 = 0
    BY <1>1
  <2>2. seqs[k] = [i \in 1 .. b[k] - 0 |-> 0 + i] /\ b[k] \in Nat
    BY <1>1, <2>1
  <2>3. b[k] - 0 = b[k] /\ \A i \in 1 .. b[k] : 0 + i = i
    BY <2>2
  <2> QED BY <2>1, <2>2, <2>3
<1>3. ASSUME NEW k \in 1 .. N, k # 1, NEW x, x = [i \in 1 .. b[k - 1] |-> i]
      PROVE  x \o seqs[k] = [i \in 1 .. b[k] |-> i]
  <2>1. /\ b[k - 1] \in Nat /\ b[k] \in Nat /\ b[k - 1] <= b[k]
        /\ seqs[k] = [i \in 1 .. b[k] - b[k - 1] |-> b[k - 1] + i]
    BY <1>1
  <2> QED BY <1>3, <2>1, PutTogether
<1>4. f = [k \in 1 .. N |-> IF k = 1 THEN seqs[k] ELSE f[k - 1] \o seqs[k]]
  <2>1. \A k \in 1 .. N : f[k] = [i \in 1 .. b[k] |-> i]
    OBVIOUS
  <2>2. ASSUME NEW k \in 1 .. N PROVE f[k] = IF k = 1 THEN seqs[k] ELSE f[k - 1] \o seqs[k]
    <3>1. CASE k = 1
      BY <1>2, <2>1, <3>1
    <3>2. CASE k # 1
      <4>1. k - 1 \in 1 .. N
        BY <1>1, <3>2
      <4>2. f[k - 1] = [i \in 1 .. b[k - 1] |-> i]
        BY <2>1, <4>1
      <4>3. f[k - 1] \o seqs[k] = [i \in 1 .. b[k] |-> i]
        BY <1>3, <3>2, <4>2
      <4> QED BY <2>1, <3>2, <4>3
    <3> QED BY <3>1, <3>2
  <2>3. f = [k \in 1 .. N |-> f[k]]
    OBVIOUS
  <2> HIDE DEF f
  <2> QED BY <2>2, <2>3
<1> HIDE DEF f
<1>5. flatten = [k \in 1 .. Len(seqs) |-> IF k = 1 THEN seqs[k] ELSE flatten[k - 1] \o seqs[k]]
  BY <1>1, <1>4
<1>6. FlattenSeq(seqs) = flatten[Len(seqs)]
  BY <1>1 DEF FlattenSeq
<1> HIDE DEF flatten
<1>7. \A k \in 1 .. N : flatten[k] = IF k = 1 THEN seqs[k] ELSE flatten[k - 1] \o seqs[k]
  BY <1>1, <1>5
<1> DEFINE S == {m \in Nat : m + 1 <= N => flatten[m + 1] = [i \in 1 .. b[m + 1] |-> i]}
<1>8. 0 \in S
  <2>1. PICK k \in 1 .. N : k = 1 /\ k = 0 + 1
    BY <1>1
  <2>2. flatten[k] = seqs[1]
    BY <1>7, <2>1
  <2> QED BY <1>2, <2>1, <2>2
<1>9. ASSUME NEW m \in S PROVE m + 1 \in S
  <2> SUFFICES ASSUME m + 1 + 1 <= N PROVE flatten[m + 1 + 1] = [i \in 1 .. b[m + 1 + 1] |-> i]
    OBVIOUS
  <2>1. m \in Nat /\ m + 1 <= N
    BY <1>1
  <2>2. PICK k \in 1 .. N : k = m + 1 + 1 /\ k - 1 = m + 1 /\ k # 1
    BY <1>1, <2>1
  <2>3. flatten[k - 1] = [i \in 1 .. b[k - 1] |-> i]
    BY <2>1, <2>2
  <2>4. flatten[k] = flatten[k - 1] \o seqs[k]
    BY <1>7, <2>2
  <2>5. flatten[k] = [i \in 1 .. b[k] |-> i]
    BY <1>3, <2>2, <2>3, <2>4
  <2> QED BY <2>2, <2>5
<1>10. N - 1 \in S
  <2>1. S \in SUBSET Nat /\ N - 1 \in Nat
    BY <1>1
  <2> HIDE DEF S
  <2> QED BY <1>8, <1>9, <2>1, Induct
<1>11. N - 1 + 1 = N
  BY <1>1
<1>12. flatten[N] = [i \in 1 .. b[N] |-> i]
  BY <1>1, <1>10, <1>11
<1> QED BY <1>1, <1>6, <1>12

(* The pad at a pane's left edge is a number of cells. *)
LEMMA LeftPadType ==
    ASSUME NEW cols \in Seq(Col), cols # <<>>, NEW w \in Nat
    PROVE  LeftPad(cols, w) \in Int
<1> DEFINE q == [i \in DOMAIN cols |-> Most(cols[i].header, 1)]
           header == Total(q) + Gaps(cols)
           slack == w - header - MaxStretchPad
<1>1. DOMAIN cols = 1 .. Len(cols) /\ Len(cols) \in Nat
  OBVIOUS
<1>2. \A i \in 1 .. Len(cols) : Most(cols[i].header, 1) \in Nat
  <2> TAKE i \in 1 .. Len(cols)
  <2>1. cols[i] \in Col
    OBVIOUS
  <2>2. cols[i].header \in Nat
    BY <2>1 DEF Col
  <2> QED BY <2>2 DEF Most
<1>3. q \in Seq(Nat)
  <2>1. q = [i \in 1 .. Len(cols) |-> q[i]] /\ \A i \in 1 .. Len(cols) : q[i] \in Nat
    BY <1>1, <1>2
  <2> HIDE DEF q
  <2> QED BY <1>1, <2>1
<1> HIDE DEF q
<1>4. header \in Int
  <2>1. Total(q) \in Nat
    BY <1>3, TotalIs, SumType
  <2> QED BY <1>1, <2>1 DEF Gaps, MinGap
<1>5. LeftPad(cols, w) = IF slack <= 0 THEN 0 ELSE Least(slack \div 2, EdgePadCap)
  BY DEF LeftPad, q
<1> HIDE DEF header
<1>6. slack \in Int
  BY <1>4 DEF MaxStretchPad
<1> HIDE DEF slack
<1>7. slack \div 2 \in Int
  BY <1>6
<1> QED BY <1>5, <1>7 DEF Least, EdgePadCap

(* ColumnsFit, of one table. *)
LEMMA TableFits ==
    ASSUME NEW cols \in Seq(Col), cols # <<>>, NEW w \in Nat, NEW widths,
           widths = Inner(cols, w - LeftPad(cols, w))
    PROVE  \/ Total(widths) + Gaps(cols) + LeftPad(cols, w) <= w
           \/ \A i \in DOMAIN widths : widths[i] <= Most(MinColWidth, cols[i].header)
<1> DEFINE pad == LeftPad(cols, w)
           inner == w - pad
<1>1. pad \in Int
  BY LeftPadType
<1>2. Gaps(cols) \in Int
  BY DEF Gaps, MinGap
<1>3. widths = Inner(cols, inner)
  OBVIOUS
<1> HIDE DEF pad
<1>4. inner \in Int
  BY <1>1
<1>5. /\ widths \in Seq(Nat) /\ Len(widths) = Len(cols)
      /\ SumUp(widths) + Gaps(cols) <= inner \/ AllNarrow(widths)
  <2> HIDE DEF inner
  <2> QED BY <1>3, <1>4, InnerFits
<1>6. CASE SumUp(widths) + Gaps(cols) <= inner
  <2>1. SumUp(widths) \in Nat /\ Total(widths) = SumUp(widths)
    BY <1>5, SumType, TotalIs
  <2>2. Total(widths) + Gaps(cols) + pad <= w
    BY <1>1, <1>2, <1>6, <2>1
  <2> QED BY <2>2 DEF pad
<1>7. CASE AllNarrow(widths)
  <2>1. ASSUME NEW i \in DOMAIN widths PROVE widths[i] <= Most(MinColWidth, cols[i].header)
    <3>1. i \in 1 .. Len(widths) /\ i \in 1 .. Len(cols) /\ widths[i] \in Nat
      BY <1>5
    <3>2. widths[i] <= MinColWidth
      BY <1>7, <3>1 DEF AllNarrow
    <3>3. cols[i] \in Col
      BY <3>1
    <3>4. cols[i].header \in Nat
      BY <3>3 DEF Col
    <3> QED BY <3>1, <3>2, <3>4 DEF Most, MinColWidth
  <2> QED BY <2>1
<1> QED BY <1>5, <1>6, <1>7

(* Division and multiplication of whole numbers. *)
LEMMA DivIs ==
    ASSUME NEW a \in Nat, NEW b \in Nat \ {0}
    PROVE  a \div b \in Nat /\ (a \div b) * b <= a /\ a < (a \div b) * b + b
OBVIOUS

LEMMA TimesGrows ==
    ASSUME NEW x \in Nat, NEW y \in Nat, x <= y, NEW b \in Nat
    PROVE  x * b \in Nat /\ y * b \in Nat /\ x * b <= y * b
OBVIOUS

LEMMA TimesLess ==
    ASSUME NEW x \in Nat, NEW b \in Nat
    PROVE  x * b \in Nat /\ (x + 1) * b = x * b + b
OBVIOUS

(* There are as many groups as the rows need, at most. *)
LEMMA FlowGroupsIs ==
    ASSUME NEW cols \in Seq(Col), cols # <<>>, NEW rows \in Nat \ {0}, NEW w \in Nat,
           NEW h \in Nat, h >= 2, NEW g, g = FlowGroups(cols, rows, w, h), NEW per, per = h - 1
    PROVE  /\ g \in Nat \ {0}
           /\ g = 1 \/ (g <= (rows + per - 1) \div per /\ (g - 1) * per < rows)
<1> DEFINE R == NaturalRow(cols)
           byWidth == (w + FlowGutter) \div (R + FlowGutter)
           byRows == (rows + per - 1) \div per
<1>1. R \in Nat
  <2> DEFINE q == [i \in DOMAIN cols |-> Natural(cols[i])]
  <2>1. q \in Seq(Nat)
    BY NaturalIs
  <2> HIDE DEF q
  <2>2. Total(q) \in Nat
    BY <2>1, TotalIs, SumType
  <2>3. Gaps(cols) \in Nat
    <3>1. Len(cols) \in Nat \ {0}
      OBVIOUS
    <3> QED BY <3>1 DEF Gaps, MinGap
  <2> QED BY <2>2, <2>3 DEF NaturalRow, q
<1>2. per \in Nat \ {0} /\ rows \in Nat \ {0}
  OBVIOUS
<1>3. g = IF h < 2 \/ rows <= per THEN 1 ELSE Most(Least(byWidth, byRows), 1)
  BY DEF FlowGroups
<1> HIDE DEF R
<1>4. byWidth \in Nat
  <2> DEFINE a == w + FlowGutter
             b == R + FlowGutter
  <2>1. a \in Nat /\ b \in Nat \ {0}
    BY <1>1 DEF FlowGutter
  <2> HIDE DEF a, b
  <2>2. a \div b \in Nat
    BY <2>1, DivIs
  <2> QED BY <2>2 DEF a, b
<1>5. byRows \in Nat /\ byRows * per <= rows + per - 1
  <2> DEFINE a == rows + per - 1
  <2>1. a \in Nat
    BY <1>2
  <2> HIDE DEF a
  <2>2. a \div per \in Nat /\ (a \div per) * per <= a
    BY <1>2, <2>1, DivIs
  <2> QED BY <2>2 DEF a
<1> HIDE DEF byWidth
<1>6. CASE g = 1
  BY <1>6
<1>7. CASE g # 1
  <2> DEFINE v == byRows
  <2>1. v \in Nat /\ v * per <= rows + per - 1
    BY <1>5
  <2>2. g = Most(Least(byWidth, v), 1)
    BY <1>3, <1>7
  <2> HIDE DEF v
  <2>3. g \in Nat /\ g > 1 /\ g <= v
    BY <1>4, <1>7, <2>1, <2>2 DEF Most, Least
  <2>4. g - 1 \in Nat /\ (g - 1) + 1 = g
    BY <2>3
  <2>5. (g - 1) * per \in Nat /\ g * per = (g - 1) * per + per
    BY <1>2, <2>4, TimesLess
  <2>6. g * per \in Nat /\ v * per \in Nat /\ g * per <= v * per
    BY <1>2, <2>1, <2>3, TimesGrows
  <2>7. (g - 1) * per < rows
    BY <1>2, <2>1, <2>5, <2>6
  <2> QED BY <2>3, <2>7 DEF v
<1> QED BY <1>6, <1>7

(* A group shows its rows from the first on, and counts those it does not. *)
Shows(G, d, from, to, h, extra) ==
    /\ d \in Nat /\ G.rows = [i \in 1 .. d |-> from + i - 1] /\ G.more \in Nat
    /\ d + G.more = to - from + 1 + extra
    /\ d + (IF G.more > 0 THEN 1 ELSE 0) < h
    /\ extra = 0 /\ to - from + 1 <= h - 1 => d = to - from + 1 /\ G.more = 0

LEMMA GroupIs ==
    ASSUME NEW from \in Nat, NEW to \in Int, NEW h \in Nat, h >= 2, NEW extra \in Nat, from <= to + 1
    PROVE  \E d : Shows(Group(from, to, h, extra), d, from, to, h, extra)
<1> DEFINE G == Group(from, to, h, extra)
           n == to - from + 1
           lines == h - 1
           overflows == n > lines \/ extra > 0
           drawn == Least(n, IF overflows THEN Most(lines - 1, 0) ELSE lines)
           more == IF lines >= 1 /\ overflows THEN extra + (n - drawn) ELSE 0
<1>1. G.rows = [i \in 1 .. drawn |-> from + i - 1] /\ G.more = more
  BY DEF Group
<1>2. n \in Nat /\ lines \in Nat \ {0} /\ lines + 1 = h
  OBVIOUS
<1>3. overflows \in BOOLEAN
  OBVIOUS
<1> DEFINE over == overflows
<1>4. over <=> n > lines \/ extra > 0
  OBVIOUS
<1>5. drawn = Least(n, IF over THEN Most(lines - 1, 0) ELSE lines) /\ more = IF lines >= 1 /\ over THEN extra + (n - drawn) ELSE 0
  OBVIOUS
<1>6. /\ drawn \in Nat /\ more \in Nat /\ drawn + more = n + extra
      /\ drawn + (IF more > 0 THEN 1 ELSE 0) < h
      /\ extra = 0 /\ n <= lines => drawn = n /\ more = 0
  <2> HIDE DEF n, lines
  <2>1. CASE n > lines \/ extra > 0
    <3>1. drawn = Least(n, lines - 1) /\ more = extra + (n - drawn)
      BY <1>2, <2>1 DEF Most
    <3> HIDE DEF drawn, more
    <3> QED BY <1>2, <2>1, <3>1 DEF Least
  <2>2. CASE ~(n > lines \/ extra > 0)
    <3>1. drawn = Least(n, lines) /\ more = 0
      BY <1>2, <2>2
    <3> HIDE DEF drawn, more
    <3> QED BY <1>2, <2>2, <3>1 DEF Least
  <2> QED BY <2>1, <2>2
<1> HIDE DEF drawn, more, G
<1>7. Shows(G, drawn, from, to, h, extra)
  BY <1>1, <1>6 DEF Shows
<1> QED BY <1>7 DEF G

(* A function of the numbers from 1 to N is a sequence of N elements. *)
LEMMA IsSeq ==
    ASSUME NEW V, NEW N \in Nat, NEW q, q = [k \in 1 .. N |-> q[k]], \A k \in 1 .. N : q[k] \in V
    PROVE  q \in Seq(V) /\ Len(q) = N
OBVIOUS

(* The groups a table draws: each row of it in its place, and the rest       *)
(* counted once, by the last.                                                *)
Accounted(groups, N, b, rows, h) ==
    /\ N \in Nat \ {0} /\ b \in [0 .. N -> Nat] /\ b[0] = 0
    /\ DOMAIN groups = 1 .. N /\ groups = [k \in 1 .. N |-> groups[k]]
    /\ \A k \in 1 .. N : /\ b[k - 1] <= b[k]
                         /\ groups[k].rows = [i \in 1 .. b[k] - b[k - 1] |-> b[k - 1] + i]
                         /\ groups[k].more \in Nat /\ (k < N => groups[k].more = 0)
                         /\ b[k] - b[k - 1] + (IF groups[k].more > 0 THEN 1 ELSE 0) < h
    /\ b[N] + groups[N].more = rows

LEMMA RenderedIs ==
    ASSUME NEW cols \in Seq(Col), cols # <<>>, NEW rows \in Nat \ {0}, NEW w \in Nat,
           NEW h \in Nat, h >= 2, NEW groups, groups = Rendered(cols, rows, w, h)
    PROVE  \E N, b : Accounted(groups, N, b, rows, h)
<1> DEFINE g == FlowGroups(cols, rows, w, h)
           per == h - 1
           byRows == (rows + per - 1) \div per
           beyond == Most(rows - g * per, 0)
           last == Least(g, byRows)
           G(k) == Group((k - 1) * per + 1, Least(k * per, rows), h, IF k = g THEN beyond ELSE 0)
<1>1. groups = IF g = 1 THEN <<Group(1, rows, h, 0)>> ELSE [k \in 1 .. last |-> G(k)]
  BY DEF Rendered
<1>2. per \in Nat \ {0} /\ rows \in Nat \ {0} /\ per + 1 = h /\ per = h - 1
  OBVIOUS
<1>3. g \in Nat \ {0} /\ (g = 1 \/ (g <= byRows /\ (g - 1) * per < rows))
  <2> DEFINE v == g
  <2> HIDE DEF v
  <2>1. v = g => v \in Nat \ {0} /\ (v = 1 \/ (v <= byRows /\ (v - 1) * per < rows))
    BY FlowGroupsIs
  <2> QED BY <2>1 DEF v
<1>4. byRows \in Nat
  <2> DEFINE a == rows + per - 1
  <2>1. a \in Nat
    BY <1>2
  <2> HIDE DEF a
  <2>2. a \div per \in Nat
    BY <1>2, <2>1, DivIs
  <2> QED BY <2>2 DEF a
<1> HIDE DEF g
<1>5. CASE g = 1
  <2> DEFINE one == Group(1, rows, h, 0)
  <2>1. groups = <<one>>
    BY <1>1, <1>5
  <2>2. PICK d : Shows(one, d, 1, rows, h, 0)
    BY <1>2, GroupIs
  <2> HIDE DEF one
  <2> DEFINE b == [k \in 0 .. 1 |-> IF k = 0 THEN 0 ELSE d]
  <2>3. b \in [0 .. 1 -> Nat] /\ b[0] = 0 /\ b[1] = d /\ d \in Nat
    BY <2>2 DEF Shows
  <2> HIDE DEF b
  <2>4. one.rows = [i \in 1 .. d |-> 0 + i]
    <3> USE DEF Shows
    <3>1. \A i \in 1 .. d : 1 + i - 1 = 0 + i
      OBVIOUS
    <3> QED BY <2>2, <3>1
  <2>5. DOMAIN groups = 1 .. 1 /\ groups = [k \in 1 .. 1 |-> groups[k]] /\ groups[1] = one
    BY <2>1
  <2>6. ASSUME NEW k \in 1 .. 1
        PROVE  /\ b[k - 1] <= b[k] /\ groups[k].rows = [i \in 1 .. b[k] - b[k - 1] |-> b[k - 1] + i]
               /\ groups[k].more \in Nat /\ (k < 1 => groups[k].more = 0)
               /\ b[k] - b[k - 1] + (IF groups[k].more > 0 THEN 1 ELSE 0) < h
    <3>1. k = 1 /\ k - 1 = 0 /\ b[k] = d /\ b[k - 1] = 0 /\ groups[k] = one /\ d - 0 = d
      BY <2>3, <2>5
    <3>2. 0 <= d /\ one.more \in Nat /\ d + (IF one.more > 0 THEN 1 ELSE 0) < h
      BY <2>2 DEF Shows
    <3>3. b[k] - b[k - 1] = d
      BY <3>1
    <3>4. groups[k].rows = [i \in 1 .. b[k] - b[k - 1] |-> b[k - 1] + i]
      BY <2>4, <3>1, <3>3
    <3>5. ~(k < 1)
      BY <3>1
    <3>6. b[k - 1] <= b[k] /\ groups[k].more \in Nat
      BY <3>1, <3>2
    <3>7. b[k] - b[k - 1] + (IF groups[k].more > 0 THEN 1 ELSE 0) < h
      BY <3>1, <3>2, <3>3
    <3> QED BY <3>4, <3>5, <3>6, <3>7
  <2>7. b[1] + groups[1].more = rows
    <3>1. d + one.more = rows
      BY <1>2, <2>2 DEF Shows
    <3> QED BY <2>3, <2>5, <3>1
  <2>8. Accounted(groups, 1, b, rows, h)
    BY <2>3, <2>5, <2>6, <2>7 DEF Accounted
  <2> QED BY <2>8
<1>6. CASE g # 1
  <2>1. g \in Nat /\ g > 1 /\ g <= byRows /\ (g - 1) * per < rows
    BY <1>3, <1>6
  <2>2. groups = [k \in 1 .. g |-> G(k)]
    <3>1. last = g
      <4> HIDE DEF byRows
      <4> QED BY <1>4, <2>1 DEF Least
    <3> HIDE DEF last, G
    <3> QED BY <1>1, <1>6, <3>1
  <2>3. (g - 1) * per \in Nat /\ g * per = (g - 1) * per + per
    <3>1. g - 1 \in Nat /\ (g - 1) + 1 = g
      BY <2>1
    <3> QED BY <1>2, <3>1, TimesLess
  <2>4. ASSUME NEW k \in 1 .. g, k < g
        PROVE  /\ G(k).rows = [i \in 1 .. per |-> (k - 1) * per + i] /\ G(k).more = 0
               /\ (k - 1) * per \in Nat /\ k * per = (k - 1) * per + per
    <3> DEFINE x == (k - 1) * per
               y == k * per
    <3>1. x \in Nat /\ y = x + per
      <4>1. k - 1 \in Nat /\ (k - 1) + 1 = k
        OBVIOUS
      <4> QED BY <1>2, <4>1, TimesLess
    <3>2. y \in Nat /\ y <= (g - 1) * per
      <4>1. k \in Nat /\ g - 1 \in Nat /\ k <= g - 1
        BY <2>1, <2>4
      <4> QED BY <1>2, <4>1, TimesGrows
    <3>3. G(k) = Group(x + 1, Least(y, rows), h, 0)
      BY <2>1, <2>4
    <3> HIDE DEF x, y, G
    <3>4. Least(y, rows) = y
      BY <1>2, <2>1, <2>3, <3>2 DEF Least
    <3> DEFINE from == x + 1
    <3>5. PICK d : Shows(G(k), d, from, y, h, 0)
      <4>1. from \in Nat /\ from <= y + 1 /\ y \in Int
        BY <1>2, <3>1, <3>2
      <4>2. G(k) = Group(from, y, h, 0)
        BY <3>3, <3>4
      <4> HIDE DEF from
      <4> QED BY <4>1, <4>2, GroupIs
    <3>6. d = per /\ G(k).more = 0
      <4>1. d = y - from + 1 /\ G(k).more = 0
        <5>1. y - from + 1 <= h - 1
          BY <1>2, <3>1
        <5> QED BY <3>5, <5>1 DEF Shows
      <4> QED BY <1>2, <3>1, <4>1
    <3>7. \A i \in 1 .. per : x + 1 + i - 1 = x + i
      BY <1>2, <3>1
    <3>8. G(k).rows = [i \in 1 .. per |-> x + i]
      <4>1. G(k).rows = [i \in 1 .. d |-> from + i - 1]
        BY <3>5 DEF Shows
      <4> QED BY <3>6, <3>7, <4>1
    <3> QED BY <3>1, <3>6, <3>8 DEF x, y
  <2> DEFINE x == (g - 1) * per
             to == Least(g * per, rows)
  <2>5. beyond \in Nat /\ to \in Nat /\ x + 1 <= to /\ to + beyond = rows
    <3> DEFINE y == g * per
    <3>1. y \in Nat /\ y = x + per /\ x \in Nat /\ x < rows
      BY <1>2, <2>1, <2>3
    <3>2. beyond = Most(rows - y, 0) /\ to = Least(y, rows)
      OBVIOUS
    <3> HIDE DEF x, y
    <3> QED BY <1>2, <3>1, <3>2 DEF Most, Least
  <2>6. G(g) = Group(x + 1, to, h, beyond)
    OBVIOUS
  <2>7. x \in Nat /\ x < rows
    BY <2>1, <2>3
  <2> HIDE DEF x, to, beyond
  <2> DEFINE from == x + 1
  <2>8. PICK d : Shows(G(g), d, from, to, h, beyond)
    <3>1. from \in Nat /\ from <= to + 1 /\ to \in Int
      BY <2>5, <2>7
    <3>2. G(g) = Group(from, to, h, beyond)
      BY <2>6
    <3> HIDE DEF from, G
    <3> QED BY <2>5, <3>1, <3>2, GroupIs
  <2>9. G(g).rows = [i \in 1 .. d |-> x + i]
    <3>1. \A i \in 1 .. d : x + 1 + i - 1 = x + i
      BY <2>7
    <3> HIDE DEF G
    <3>2. G(g).rows = [i \in 1 .. d |-> from + i - 1]
      BY <2>8 DEF Shows
    <3> QED BY <3>1, <3>2
  <2> DEFINE b == [k \in 0 .. g |-> IF k = g THEN x + d ELSE k * per]
  <2>10. b \in [0 .. g -> Nat] /\ b[0] = 0 /\ b[g] = x + d /\ \A k \in 0 .. g : k # g => b[k] = k * per
    <3>1. d \in Nat /\ \A k \in 0 .. g : k * per \in Nat
      BY <1>2, <2>8 DEF Shows
    <3>2. 0 * per = 0 /\ 0 # g
      BY <1>2, <2>1
    <3> QED BY <2>1, <2>7, <3>1, <3>2
  <2>11. b[g - 1] = x
    BY <2>1, <2>10 DEF x
  <2> HIDE DEF b
  <2>12. DOMAIN groups = 1 .. g /\ groups = [k \in 1 .. g |-> groups[k]] /\ \A k \in 1 .. g : groups[k] = G(k)
    <3> HIDE DEF G
    <3> QED BY <2>2
  <2> HIDE DEF G
  <2>13. ASSUME NEW k \in 1 .. g
        PROVE  /\ b[k - 1] <= b[k] /\ groups[k].rows = [i \in 1 .. b[k] - b[k - 1] |-> b[k - 1] + i]
               /\ groups[k].more \in Nat /\ (k < g => groups[k].more = 0)
               /\ b[k] - b[k - 1] + (IF groups[k].more > 0 THEN 1 ELSE 0) < h
    <3>1. CASE k < g
      <4> DEFINE z == (k - 1) * per
      <4>1. groups[k].rows = [i \in 1 .. per |-> z + i] /\ groups[k].more = 0 /\ z \in Nat /\ k * per = z + per
        BY <2>4, <2>12, <3>1
      <4>2. b[k] = k * per /\ b[k - 1] = z
        <5>1. k \in 0 .. g /\ k - 1 \in 0 .. g /\ k # g /\ k - 1 # g
          BY <2>1, <3>1
        <5> QED BY <2>10, <5>1
      <4> HIDE DEF z
      <4>3. b[k] - b[k - 1] = per /\ b[k - 1] <= b[k]
        BY <1>2, <4>1, <4>2
      <4>4. per + 0 < h
        BY <1>2
      <4> QED BY <1>2, <3>1, <4>1, <4>2, <4>3, <4>4
    <3>2. CASE ~(k < g)
      <4>1. k = g
        BY <2>1, <3>2
      <4>2. b[g] - b[g - 1] = d /\ b[g - 1] <= b[g] /\ b[g - 1] = x
        <5>1. d \in Nat
          BY <2>8 DEF Shows
        <5> QED BY <2>7, <2>10, <2>11, <5>1
      <4>3. groups[g] = G(g)
        BY <2>12, <4>1
      <4>4. G(g).more \in Nat /\ d + (IF G(g).more > 0 THEN 1 ELSE 0) < h
        BY <2>8 DEF Shows
      <4> QED BY <2>9, <3>2, <4>1, <4>2, <4>3, <4>4
    <3> QED BY <3>1, <3>2
  <2>14. b[g] + groups[g].more = rows
    <3>1. groups[g] = G(g)
      BY <2>1, <2>12
    <3>2. x + d + G(g).more = rows
      <4>1. d \in Nat /\ G(g).more \in Nat /\ d + G(g).more = to - from + 1 + beyond
        BY <2>8 DEF Shows
      <4> QED BY <1>2, <2>5, <2>7, <4>1
    <3> QED BY <2>10, <3>1, <3>2
  <2>15. Accounted(groups, g, b, rows, h)
    BY <1>3, <2>10, <2>12, <2>13, <2>14 DEF Accounted
  <2> QED BY <2>15
<1> QED BY <1>5, <1>6

(* RowsAccounted, of one table. *)
AllAccounted(groups, rows, h) ==
    LET drawn == FlattenSeq([k \in DOMAIN groups |-> groups[k].rows])
        more == Total([k \in DOMAIN groups |-> groups[k].more])
    IN /\ drawn = [i \in DOMAIN drawn |-> i]
       /\ Len(drawn) + more = rows
       /\ \A k \in DOMAIN groups : Len(groups[k].rows) + (IF groups[k].more > 0 THEN 1 ELSE 0) < h

LEMMA TableAccounts ==
    ASSUME NEW groups, NEW N, NEW b, NEW rows \in Nat, NEW h \in Nat, Accounted(groups, N, b, rows, h)
    PROVE  AllAccounted(groups, rows, h)
<1> DEFINE drawn == FlattenSeq([k \in DOMAIN groups |-> groups[k].rows])
           more == Total([k \in DOMAIN groups |-> groups[k].more])
           seqs == [k \in DOMAIN groups |-> groups[k].rows]
           q == [k \in DOMAIN groups |-> groups[k].more]
<1>1. /\ N \in Nat \ {0} /\ b \in [0 .. N -> Nat] /\ b[0] = 0 /\ DOMAIN groups = 1 .. N
      /\ \A k \in 1 .. N : /\ b[k - 1] <= b[k]
                           /\ groups[k].rows = [i \in 1 .. b[k] - b[k - 1] |-> b[k - 1] + i]
                           /\ groups[k].more \in Nat /\ (k < N => groups[k].more = 0)
                           /\ b[k] - b[k - 1] + (IF groups[k].more > 0 THEN 1 ELSE 0) < h
      /\ b[N] + groups[N].more = rows
  BY DEF Accounted
<1>2. \A k \in 1 .. N : /\ b[k - 1] \in Nat /\ b[k] \in Nat /\ b[k] - b[k - 1] \in Nat
                        /\ groups[k].rows \in Seq(Nat) /\ Len(groups[k].rows) = b[k] - b[k - 1]
  <2> TAKE k \in 1 .. N
  <2>1. k \in 0 .. N /\ k - 1 \in 0 .. N
    BY <1>1
  <2>2. b[k - 1] \in Nat /\ b[k] \in Nat /\ b[k - 1] <= b[k]
    BY <1>1, <2>1
  <2> DEFINE x == b[k - 1]
             m == b[k] - x
  <2>3. x \in Nat /\ m \in Nat /\ groups[k].rows = [i \in 1 .. m |-> x + i]
    BY <1>1, <2>2
  <2> HIDE DEF x, m
  <2>4. groups[k].rows \in Seq(Nat) /\ Len(groups[k].rows) = m
    BY <2>3
  <2> QED BY <2>2, <2>3, <2>4 DEF x, m
<1>3. Dealt(seqs, N, b)
  <2>1. \A k \in 1 .. N : seqs[k] = groups[k].rows
    BY <1>1
  <2>2. seqs = [k \in 1 .. N |-> seqs[k]]
    BY <1>1
  <2> HIDE DEF seqs
  <2>3. seqs \in Seq(Seq(Nat)) /\ Len(seqs) = N
    <3>1. N \in Nat /\ \A k \in 1 .. N : seqs[k] \in Seq(Nat)
      BY <1>1, <1>2, <2>1
    <3> QED BY <2>2, <3>1, IsSeq
  <2> QED BY <1>1, <2>1, <2>3 DEF Dealt
<1>4. drawn = [i \in 1 .. b[N] |-> i]
  <2> HIDE DEF seqs
  <2>1. drawn = FlattenSeq(seqs)
    BY DEF seqs
  <2> QED BY <1>3, <2>1, Flattened
<1>5. b[N] \in Nat
  BY <1>1
<1>6. more = groups[N].more
  <2>1. \A k \in 1 .. N : q[k] = groups[k].more
    BY <1>1
  <2>2. q = [k \in 1 .. N |-> q[k]] /\ more = Total(q)
    BY <1>1
  <2> HIDE DEF q
  <2>3. q \in Seq(Nat) /\ Len(q) = N
    <3>1. N \in Nat /\ \A k \in 1 .. N : q[k] \in Nat
      BY <1>1, <2>1
    <3> QED BY <2>2, <3>1, IsSeq
  <2>4. q # <<>> /\ \A k \in 1 .. Len(q) : k < Len(q) => q[k] = 0
    BY <1>1, <2>1, <2>3
  <2>5. SumUp(q) = q[Len(q)]
    BY <2>3, <2>4, SumOfLast
  <2> QED BY <1>1, <2>1, <2>2, <2>3, <2>5, TotalIs
<1>7. drawn \in Seq(Nat) /\ Len(drawn) = b[N] /\ DOMAIN drawn = 1 .. b[N]
  BY <1>4, <1>5
<1> HIDE DEF drawn, more
<1>8. /\ drawn = [i \in DOMAIN drawn |-> i] /\ Len(drawn) + more = rows
      /\ \A k \in DOMAIN groups : Len(groups[k].rows) + (IF groups[k].more > 0 THEN 1 ELSE 0) < h
  BY <1>1, <1>2, <1>4, <1>6, <1>7
<1> QED BY <1>8 DEF AllAccounted, drawn, more

(* A sum with one more number. *)
LEMMA SumAppended ==
    ASSUME NEW q \in Seq(Nat), NEW x \in Nat
    PROVE  /\ Append(q, x) \in Seq(Nat) /\ Len(Append(q, x)) = Len(q) + 1
           /\ SumUp(Append(q, x)) = SumUp(q) + x
<1> DEFINE p == Append(q, x)
           N == Len(q)
<1>1. /\ N \in Nat /\ p \in Seq(Nat) /\ Len(p) = N + 1 /\ p[N + 1] = x
      /\ \A i \in 1 .. N : p[i] = q[i]
  OBVIOUS
<1> HIDE DEF p
<1>2. PICK f \in [0 .. N -> Nat] : /\ f[0] = 0 /\ SumUp(q) = f[N]
                                   /\ \A n \in 1 .. N : f[n] = f[n - 1] + q[n]
  BY SumIs
<1> HIDE DEF N
<1>3. PICK h \in [0 .. N + 1 -> Nat] : /\ h[0] = 0 /\ SumUp(p) = h[N + 1]
                                       /\ \A n \in 1 .. N + 1 : h[n] = h[n - 1] + p[n]
  <2>1. PICK h \in [0 .. Len(p) -> Nat] : /\ h[0] = 0 /\ SumUp(p) = h[Len(p)]
                                          /\ \A n \in 1 .. Len(p) : h[n] = h[n - 1] + p[n]
    BY <1>1, SumIs
  <2> QED BY <1>1, <2>1
<1> DEFINE S == {m \in Nat : m <= N => h[m] = f[m]}
<1>4. 0 \in S
  BY <1>2, <1>3
<1>5. ASSUME NEW m \in S PROVE m + 1 \in S
  <2> SUFFICES ASSUME m + 1 <= N PROVE h[m + 1] = f[m + 1]
    OBVIOUS
  <2>1. m \in Nat /\ m <= N
    BY <1>1
  <2>2. PICK k \in 1 .. N : k = m + 1 /\ k - 1 = m
    BY <1>1, <2>1
  <2>3. f[k] = f[m] + q[k]
    BY <1>2, <2>2
  <2>4. h[k] = h[m] + p[k]
    <3>1. k \in 1 .. N + 1
      BY <1>1, <2>2
    <3> QED BY <1>3, <2>2, <3>1
  <2>5. h[m] = f[m] /\ p[k] = q[k]
    BY <1>1, <2>1, <2>2
  <2> QED BY <2>2, <2>3, <2>4, <2>5
<1>6. N \in S
  <2>1. S \in SUBSET Nat
    OBVIOUS
  <2> HIDE DEF S
  <2> QED BY <1>1, <1>4, <1>5, <2>1, Induct
<1>7. h[N + 1] = h[N] + p[N + 1]
  <2>1. PICK k \in 1 .. N + 1 : k = N + 1 /\ k - 1 = N
    BY <1>1
  <2>2. h[k] = h[k - 1] + p[k]
    BY <1>3
  <2> QED BY <2>1, <2>2
<1> QED BY <1>1, <1>2, <1>3, <1>6, <1>7 DEF p, N

LEMMA SumPositive == ASSUME NEW q \in Seq(Nat \ {0}), q # <<>> PROVE q \in Seq(Nat) /\ SumUp(q) \in Nat \ {0}
<1>1. Len(q) \in Nat \ {0} /\ q \in Seq(Nat) /\ q[Len(q)] \in Nat \ {0}
  OBVIOUS
<1>2. PICK f \in [0 .. Len(q) -> Nat] : /\ f[0] = 0 /\ SumUp(q) = f[Len(q)]
                                        /\ \A n \in 1 .. Len(q) : f[n] = f[n - 1] + q[n]
  BY <1>1, SumIs
<1>3. PICK k \in 1 .. Len(q) : k = Len(q) /\ k - 1 \in 0 .. Len(q)
  BY <1>1
<1>4. f[k] = f[k - 1] + q[k] /\ f[k - 1] \in Nat
  BY <1>2, <1>3
<1> QED BY <1>1, <1>2, <1>3, <1>4

(* After i of a frame's sections: every line used is a section's or a gap's, *)
(* none but the last has less than two, and the last has what was left.      *)
Filled(ws, h, i, st) ==
    LET n == Len(st.lines)
    IN /\ st \in [used : Int, lines : Seq(Nat), full : BOOLEAN]
       /\ n <= i /\ (~st.full => n = i)
       /\ st.used = SumUp(st.lines) + (IF n = 0 THEN 0 ELSE Gap(ws, h) * (n - 1))
       /\ \A j \in 1 .. n : j < Len(ws) => st.lines[j] >= 2
       /\ n = Len(ws) => st.used = h

LEMMA ShareType ==
    ASSUME NEW a \in Int, NEW x \in Nat, NEW all \in Nat \ {0}
    PROVE  Share(a, x, all) \in Nat /\ Share(a, x, all) >= 2
<1>1. a * x \in Int
  OBVIOUS
<1>2. (a * x) \div all \in Int
  BY <1>1
<1> QED BY <1>2 DEF Share, Most

LEMMA StackFills ==
    ASSUME NEW ws \in Seq(Nat \ {0}), Len(ws) >= 2, NEW h \in Nat, NEW i \in 1 .. Len(ws), NEW st,
           Filled(ws, h, i - 1, st)
    PROVE  Filled(ws, h, i, Stack(ws, h, st, i))
<1> DEFINE N == Len(ws)
           gap == Gap(ws, h)
           at == st.used + (IF i = 1 THEN 0 ELSE gap)
           lines == IF i = N THEN h - at ELSE Share(h - gap * (N - 1), ws[i], Total(ws))
           n == Len(st.lines)
<1>1. N \in Nat /\ N >= 2 /\ i \in 1 .. N /\ i \in Nat /\ h \in Nat
  OBVIOUS
<1>2. gap \in {0, 1}
  BY DEF Gap
<1>3. st \in [used : Int, lines : Seq(Nat), full : BOOLEAN]
  BY DEF Filled
<1>4. /\ st.used \in Int /\ st.lines \in Seq(Nat) /\ st.full \in BOOLEAN
      /\ st = [used |-> st.used, lines |-> st.lines, full |-> st.full]
  BY <1>3
<1>5. /\ n \in Nat /\ n <= i - 1 /\ (~st.full => n = i - 1)
      /\ st.used = SumUp(st.lines) + (IF n = 0 THEN 0 ELSE gap * (n - 1))
      /\ (\A j \in 1 .. n : j < N => st.lines[j] >= 2) /\ (n = N => st.used = h)
  BY <1>4 DEF Filled
<1>6. at \in Int
  BY <1>2, <1>4
<1>7. i < N => lines \in Nat /\ lines >= 2
  <2> SUFFICES ASSUME i < N PROVE lines \in Nat /\ lines >= 2
    OBVIOUS
  <2>1. Total(ws) \in Nat \ {0}
    <3>1. ws # <<>>
      BY <1>1
    <3> QED BY <3>1, SumPositive, TotalIs
  <2>2. ws[i] \in Nat
    BY <1>1
  <2>3. h - gap * (N - 1) \in Int
    BY <1>1, <1>2
  <2>4. lines = Share(h - gap * (N - 1), ws[i], Total(ws))
    BY <1>1
  <2> HIDE DEF lines, gap, N
  <2> QED BY <2>1, <2>2, <2>3, <2>4, ShareType
<1>8. lines \in Int /\ (i = N => at + lines = h)
  <2>1. CASE i = N
    BY <1>1, <1>6, <2>1
  <2>2. CASE i # N
    BY <1>1, <1>7, <2>2
  <2> QED BY <2>1, <2>2
<1>9. Stack(ws, h, st, i) = IF st.full \/ lines <= 0 THEN [st EXCEPT !.full = TRUE]
                            ELSE [used |-> at + lines, lines |-> Append(st.lines, lines), full |-> FALSE]
  BY DEF Stack
<1> HIDE DEF lines, at
<1>10. CASE st.full \/ lines <= 0
  <2> DEFINE t == [used |-> st.used, lines |-> st.lines, full |-> TRUE]
  <2>1. Stack(ws, h, st, i) = t
    BY <1>4, <1>9, <1>10
  <2>2. t.used = st.used /\ t.lines = st.lines /\ t.full = TRUE
    OBVIOUS
  <2>3. t \in [used : Int, lines : Seq(Nat), full : BOOLEAN]
    BY <1>4
  <2> HIDE DEF t
  <2>4. Len(t.lines) = n /\ n <= i
    BY <1>1, <1>5, <2>2
  <2>5. Filled(ws, h, i, t)
    BY <1>5, <2>2, <2>3, <2>4 DEF Filled
  <2> QED BY <2>1, <2>5
<1>11. CASE ~(st.full \/ lines <= 0)
  <2> DEFINE q == Append(st.lines, lines)
             t == [used |-> at + lines, lines |-> q, full |-> FALSE]
  <2>1. Stack(ws, h, st, i) = t
    BY <1>9, <1>11
  <2>2. lines \in Nat /\ lines > 0 /\ n = i - 1
    BY <1>5, <1>8, <1>11
  <2>3. q \in Seq(Nat) /\ Len(q) = i /\ SumUp(q) = SumUp(st.lines) + lines
    <3>1. q \in Seq(Nat) /\ Len(q) = n + 1 /\ SumUp(q) = SumUp(st.lines) + lines
      BY <1>4, <2>2, SumAppended
    <3> HIDE DEF q, n
    <3> QED BY <1>1, <2>2, <3>1
  <2>4. \A j \in 1 .. i : q[j] = IF j = i THEN lines ELSE st.lines[j]
    <3> HIDE DEF n
    <3>1. Len(st.lines) = n
      BY DEF n
    <3> QED BY <1>1, <1>4, <2>2, <3>1
  <2>5. t.used = at + lines /\ t.lines = q /\ t.full = FALSE
    OBVIOUS
  <2>6. t \in [used : Int, lines : Seq(Nat), full : BOOLEAN]
    <3>1. at + lines \in Int
      BY <1>6, <1>8
    <3> HIDE DEF q
    <3> QED BY <2>3, <3>1
  <2> HIDE DEF q, t
  <2>7. t.used = SumUp(q) + gap * (i - 1)
    <3>1. SumUp(st.lines) \in Nat
      BY <1>4, SumType
    <3>2. CASE i = 1
      <4>1. gap * (i - 1) = 0 /\ at = st.used /\ st.used = SumUp(st.lines)
        BY <1>2, <1>4, <1>5, <2>2, <3>1, <3>2 DEF at
      <4> QED BY <2>2, <2>3, <2>5, <3>1, <4>1
    <3>3. CASE i # 1
      <4>1. at = SumUp(st.lines) + gap * (n - 1) + gap
        BY <1>1, <1>4, <1>5, <2>2, <3>3 DEF at
      <4>2. gap * (n - 1) + gap = gap * (i - 1)
        <5>1. CASE gap = 0
          BY <1>1, <2>2, <5>1
        <5>2. CASE gap = 1
          BY <1>1, <2>2, <5>2
        <5> QED BY <1>2, <5>1, <5>2
      <4> DEFINE before == gap * (n - 1)
                 after == gap * (i - 1)
      <4>3. before \in Int /\ after \in Int
        BY <1>1, <1>2, <2>2
      <4>4. at = SumUp(st.lines) + before + gap /\ before + gap = after /\ gap \in Int
        BY <1>2, <4>1, <4>2
      <4>5. t.used = at + lines /\ SumUp(q) = SumUp(st.lines) + lines /\ lines \in Int
        BY <2>2, <2>3, <2>5
      <4> DEFINE sum == SumUp(st.lines)
                 sums == SumUp(q)
                 used == t.used
      <4>6. sum \in Nat /\ at = sum + before + gap /\ used = at + lines /\ sums = sum + lines
        BY <3>1, <4>4, <4>5
      <4> HIDE DEF gap, n, before, after, sum, sums, used
      <4>7. used = sums + after
        BY <4>3, <4>4, <4>5, <4>6
      <4> QED BY <4>7 DEF after, sums, used
    <3> QED BY <3>2, <3>3
  <2>8. \A j \in 1 .. i : j < N => q[j] >= 2
    <3> TAKE j \in 1 .. i
    <3>1. CASE j = i
      BY <1>7, <2>4, <3>1
    <3>2. CASE j # i
      <4>1. j \in 1 .. n
        BY <1>1, <2>2, <3>2
      <4> QED BY <1>5, <2>4, <3>2, <4>1
    <3> QED BY <3>1, <3>2
  <2>9. i = N => t.used = h
    BY <1>8, <2>5
  <2>10. i # 0
    BY <1>1
  <2>11. Filled(ws, h, i, t)
    <3>1. Len(t.lines) = i /\ t.lines = q
      BY <2>3, <2>5
    <3>2. t.used = SumUp(t.lines) + (IF Len(t.lines) = 0 THEN 0 ELSE Gap(ws, h) * (Len(t.lines) - 1))
      BY <2>7, <2>10, <3>1
    <3>3. \A j \in 1 .. Len(t.lines) : j < Len(ws) => t.lines[j] >= 2
      BY <2>8, <3>1
    <3>4. Len(t.lines) <= i /\ (~t.full => Len(t.lines) = i) /\ (Len(t.lines) = Len(ws) => t.used = h)
      BY <1>1, <2>9, <3>1
    <3> QED BY <2>6, <3>2, <3>3, <3>4 DEF Filled
  <2> QED BY <2>1, <2>11
<1> QED BY <1>10, <1>11

(* SectionsFill, of one frame: its stack. *)
AllFilled(ws, h, s) ==
    /\ Len(s) = Len(ws) => Total(s) + Gap(ws, h) * (Len(ws) - 1) = h
    /\ \A i \in 1 .. (Len(s) - 1) : s[i] >= 2

LEMMA StackedFills ==
    ASSUME NEW ws \in Seq(Nat \ {0}), Len(ws) >= 2, NEW h \in Nat
    PROVE  AllFilled(ws, h, Stacked(ws, h))
<1> DEFINE s == Stacked(ws, h)
<1> DEFINE N == Len(ws)
           start == [used |-> 0, lines |-> <<>>, full |-> FALSE]
           V == [used : Int, lines : Seq(Nat), full : BOOLEAN]
           upTo[n \in 0 .. N] == IF n = 0 THEN start ELSE Stack(ws, h, upTo[n - 1], n)
<1>1. N \in Nat /\ N >= 2
  OBVIOUS
<1>2. Filled(ws, h, 0, start)
  <2>1. start.used = 0 /\ start.lines = <<>> /\ start.full = FALSE /\ start \in V
    OBVIOUS
  <2> HIDE DEF start
  <2>2. Len(start.lines) = 0 /\ SumUp(start.lines) = 0
    <3>1. Len(start.lines) = 0 /\ start.lines \in Seq(Nat)
      BY <2>1
    <3>2. PICK f \in [0 .. 0 -> Nat] : f[0] = 0 /\ SumUp(start.lines) = f[0]
      BY <3>1, SumIs
    <3> QED BY <3>1, <3>2
  <2> QED BY <1>1, <2>1, <2>2 DEF Filled
<1> DEFINE Next1(n, st) == IF Filled(ws, h, n - 1, st) THEN Stack(ws, h, st, n) ELSE start
           g == [n \in 1 .. N |-> [st \in V |-> Next1(n, st)]]
<1>3. start \in V /\ \A n \in 1 .. N : \A st \in V : Next1(n, st) \in V
  <2>1. start \in V
    OBVIOUS
  <2>2. ASSUME NEW n \in 1 .. N, NEW st \in V, Filled(ws, h, n - 1, st)
        PROVE  Stack(ws, h, st, n) \in V
    <3>1. Filled(ws, h, n, Stack(ws, h, st, n))
      BY <2>2, StackFills
    <3> QED BY <3>1 DEF Filled
  <2> HIDE DEF start, V
  <2> QED BY <2>1, <2>2
<1> HIDE DEF V, start, Next1
<1>4. g \in [1 .. N -> [V -> V]]
  BY <1>3
<1>5. PICK f \in [0 .. N -> V] : f[0] = start /\ \A n \in 1 .. N : f[n] = g[n][f[n - 1]]
  <2> DEFINE last == N
  <2> HIDE DEF g, upTo
  <2>1. Steps(V, last, start, g)
    BY <1>1, <1>3, <1>4 DEF Steps
  <2> HIDE DEF last
  <2>2. PICK f \in [0 .. last -> V] : f[0] = start /\ \A n \in 1 .. last : f[n] = g[n][f[n - 1]]
    BY <2>1, Computed
  <2> QED BY <2>2 DEF last
<1>6. \A n \in 1 .. N : f[n] = Next1(n, f[n - 1])
  <2> TAKE n \in 1 .. N
  <2>1. n - 1 \in 0 .. N
    BY <1>1
  <2>2. f[n - 1] \in V /\ f[n] = g[n][f[n - 1]]
    BY <1>5, <2>1
  <2> HIDE DEF g
  <2>3. g[n] = [st \in V |-> Next1(n, st)]
    BY DEF g
  <2> QED BY <2>2, <2>3
<1> HIDE DEF g, upTo, N
<1> DEFINE S == {n \in Nat : n <= N => Filled(ws, h, n, f[n])}
<1>7. 0 \in S
  BY <1>2, <1>5
<1>8. ASSUME NEW n \in S PROVE n + 1 \in S
  <2> SUFFICES ASSUME n + 1 <= N PROVE Filled(ws, h, n + 1, f[n + 1])
    OBVIOUS
  <2>1. n \in Nat /\ n <= N /\ Filled(ws, h, n, f[n])
    BY <1>1
  <2>2. PICK k \in 1 .. N : k = n + 1 /\ k - 1 = n
    BY <1>1, <2>1
  <2>3. f[k] = Stack(ws, h, f[n], k)
    BY <1>6, <2>1, <2>2 DEF Next1
  <2>4. Filled(ws, h, k, f[k])
    <3>1. k \in 1 .. Len(ws)
      BY DEF N
    <3> QED BY <2>1, <2>2, <2>3, <3>1, StackFills
  <2> QED BY <2>2, <2>4
<1>9. S = Nat
  <2>1. S \in SUBSET Nat
    OBVIOUS
  <2> HIDE DEF S
  <2> QED BY <1>7, <1>8, <2>1, Induct
<1>10. \A n \in 0 .. N : Filled(ws, h, n, f[n])
  BY <1>1, <1>9
<1>11. f = [n \in 0 .. N |-> IF n = 0 THEN start ELSE Stack(ws, h, f[n - 1], n)]
  <2>1. ASSUME NEW n \in 0 .. N PROVE f[n] = IF n = 0 THEN start ELSE Stack(ws, h, f[n - 1], n)
    <3>1. CASE n = 0
      BY <1>5, <3>1
    <3>2. CASE n # 0
      <4>1. n \in 1 .. N /\ n - 1 \in 0 .. N
        BY <1>1, <3>2
      <4> QED BY <1>6, <1>10, <3>2, <4>1 DEF Next1
    <3> QED BY <3>1, <3>2
  <2>2. f = [n \in 0 .. N |-> f[n]]
    BY <1>5
  <2> QED BY <2>1, <2>2
<1>12. upTo = [n \in 0 .. N |-> IF n = 0 THEN start ELSE Stack(ws, h, upTo[n - 1], n)]
  BY <1>11 DEF upTo
<1>13. s = upTo[N].lines
  BY DEF Stacked, upTo, start, N
<1> HIDE DEF s
<1>14. Filled(ws, h, N, upTo[N])
  <2> DEFINE R == {n \in Nat : n <= N => upTo[n] = f[n]}
  <2>1. 0 \in R
    BY <1>1, <1>5, <1>12
  <2>2. ASSUME NEW n \in R PROVE n + 1 \in R
    <3> SUFFICES ASSUME n + 1 <= N PROVE upTo[n + 1] = f[n + 1]
      OBVIOUS
    <3>1. n \in Nat /\ n <= N /\ upTo[n] = f[n]
      BY <1>1
    <3>2. PICK k \in 1 .. N : k = n + 1 /\ k - 1 = n /\ k \in 0 .. N /\ k # 0
      BY <1>1, <3>1
    <3>3. upTo[k] = Stack(ws, h, upTo[n], k)
      <4>1. \A m \in 0 .. N : upTo[m] = IF m = 0 THEN start ELSE Stack(ws, h, upTo[m - 1], m)
        BY <1>12
      <4> QED BY <3>2, <4>1
    <3>4. f[k] = Stack(ws, h, f[n], k)
      <4>1. \A m \in 0 .. N : f[m] = IF m = 0 THEN start ELSE Stack(ws, h, f[m - 1], m)
        BY <1>11
      <4> QED BY <3>2, <4>1
    <3> QED BY <3>1, <3>2, <3>3, <3>4
  <2>3. R = Nat
    <3>1. R \in SUBSET Nat
      OBVIOUS
    <3> HIDE DEF R
    <3> QED BY <2>1, <2>2, <3>1, Induct
  <2>4. upTo[N] = f[N]
    BY <1>1, <2>3
  <2>5. Filled(ws, h, N, f[N])
    BY <1>1, <1>10
  <2> QED BY <2>4, <2>5
<1> DEFINE st == upTo[N]
<1> HIDE DEF st
<1>15. /\ s \in Seq(Nat) /\ Len(s) <= N /\ (Len(s) = N => st.used = h)
       /\ st.used = SumUp(s) + (IF Len(s) = 0 THEN 0 ELSE Gap(ws, h) * (Len(s) - 1))
       /\ \A j \in 1 .. Len(s) : j < N => s[j] >= 2
  <2>1. s = st.lines /\ Filled(ws, h, N, st)
    BY <1>13, <1>14 DEF st
  <2>2. st \in [used : Int, lines : Seq(Nat), full : BOOLEAN]
    BY <2>1 DEF Filled
  <2> QED BY <2>1, <2>2 DEF Filled, N
<1>16. Len(s) = N => Total(s) + Gap(ws, h) * (N - 1) = h
  BY <1>1, <1>15, TotalIs
<1>17. ASSUME NEW i \in 1 .. (Len(s) - 1) PROVE s[i] >= 2
  <2>1. i \in 1 .. Len(s) /\ i < N
    BY <1>1, <1>15
  <2> QED BY <1>15, <2>1
<1> QED BY <1>16, <1>17 DEF N, s, AllFilled

(* There is a place to part a frame's sections. *)
LEMMA SplitAtType ==
    ASSUME NEW ws \in Seq(Nat \ {0}), Len(ws) >= 2
    PROVE  SplitAt(ws) \in 1 .. (Len(ws) - 1)
<1> DEFINE N == Len(ws) - 1
           off(i) == LET d == Total(ws) - 2 * Total(SubSeq(ws, 1, i)) IN IF d < 0 THEN -d ELSE d
           minus == [i \in 1 .. N |-> -off(i)]
           Best(i) == \A j \in 1 .. N : off(i) < off(j) \/ (off(i) = off(j) /\ i <= j)
<1>1. N \in Nat \ {0} /\ ws \in Seq(Nat)
  <2> DEFINE m == Len(ws)
  <2>1. m \in Nat /\ m >= 2 /\ ws \in Seq(Nat)
    OBVIOUS
  <2> HIDE DEF m
  <2>2. m - 1 \in Nat \ {0}
    BY <2>1
  <2> QED BY <2>1, <2>2 DEF m
<1>2. \A i \in 1 .. N : off(i) \in Int
  <2> TAKE i \in 1 .. N
  <2>1. SubSeq(ws, 1, i) \in Seq(Nat)
    OBVIOUS
  <2>2. Total(SubSeq(ws, 1, i)) \in Nat /\ Total(ws) \in Nat
    BY <1>1, <2>1, SumType, TotalIs
  <2> QED BY <2>2
<1>3. SplitAt(ws) = CHOOSE i \in 1 .. N : Best(i)
  BY DEF SplitAt
<1> HIDE DEF N, off
<1>4. PICK k \in 1 .. N : \A j \in 1 .. N : off(k) <= off(j)
  <2>1. \A i \in 1 .. N : minus[i] \in Int /\ minus[i] = -off(i)
    BY <1>2
  <2> HIDE DEF minus
  <2>2. PICK k \in 1 .. N : \A j \in 1 .. N : minus[j] <= minus[k]
    BY <1>1, <2>1, HasGreatest
  <2>3. ASSUME NEW j \in 1 .. N PROVE off(k) <= off(j)
    <3>1. -off(j) <= -off(k) /\ off(j) \in Int /\ off(k) \in Int
      BY <1>2, <2>1, <2>2
    <3> QED BY <3>1
  <2> QED BY <2>3
<1> DEFINE T == {i \in 1 .. N : off(i) = off(k)}
<1>5. PICK i \in T : \A j \in T : i <= j
  <2>1. T \in SUBSET Nat /\ k \in T
    BY <1>1
  <2> HIDE DEF T
  <2> QED BY <2>1, HasLeast
<1>6. i \in 1 .. N /\ Best(i)
  <2>1. i \in 1 .. N /\ off(i) = off(k)
    OBVIOUS
  <2>2. ASSUME NEW j \in 1 .. N PROVE off(i) < off(j) \/ (off(i) = off(j) /\ i <= j)
    <3>1. off(k) <= off(j) /\ off(k) \in Int /\ off(j) \in Int
      BY <1>2, <1>4
    <3>2. off(j) = off(k) => i <= j
      BY <1>5
    <3> QED BY <2>1, <3>1, <3>2
  <2> QED BY <2>1, <2>2
<1> HIDE DEF Best
<1>7. SplitAt(ws) \in 1 .. N
  BY <1>3, <1>6
<1> QED BY <1>7 DEF N

(* PanesAreFilled: whatever columns, rows and sections, and whatever size, a *)
(* table fits its columns and accounts for its rows (table.go), and a frame  *)
(* fills its height with its sections (group.go).                            *)
THEOREM PanesAreFull == PaneSpec => []PanesAreFilled
<1>1. ASSUME PaneInit PROVE PanesAreFilled
  <2>1. ASSUME NEW p \in [cols : Columns, rows : 1..MaxRows, weights : {<<>>}, w : 1..MaxWidth, h : 1..MaxHeight],
               p = pane
        PROVE  PanesAreFilled
    <3>1. /\ pane.cols \in Columns /\ pane.rows \in 1 .. MaxRows /\ pane.weights = <<>>
          /\ pane.w \in 1 .. MaxWidth /\ pane.h \in 1 .. MaxHeight
      BY <2>1
    <3>2. pane.cols \in Seq(Col) /\ pane.rows \in Nat \ {0} /\ pane.w \in Nat /\ pane.h \in Nat
      <4>1. Columns \subseteq Seq(Col)
        BY SectionsAssumption DEF SectionsAssumption, Col
      <4>2. MaxRows \in Nat /\ MaxWidth \in Nat /\ MaxHeight \in Nat
        BY SectionsAssumption DEF SectionsAssumption
      <4>3. pane.cols \in Seq(Col)
        BY <3>1, <4>1
      <4> QED BY <3>1, <4>2, <4>3
    <3>3. ColumnsFit
      <4> SUFFICES ASSUME pane.cols # <<>>
                   PROVE  \/ Total(PaneWidths) + Gaps(pane.cols) + LeftPad(pane.cols, pane.w) <= pane.w
                          \/ \A i \in DOMAIN PaneWidths : PaneWidths[i] <= Most(MinColWidth, pane.cols[i].header)
        BY DEF ColumnsFit
      <4> QED BY <3>2, TableFits DEF PaneWidths
    <3>4. RowsAccounted
      <4> SUFFICES ASSUME pane.cols # <<>>, pane.h >= 2
                   PROVE  AllAccounted(Rendered(pane.cols, pane.rows, pane.w, pane.h), pane.rows, pane.h)
        BY DEF RowsAccounted, AllAccounted
      <4> DEFINE groups == Rendered(pane.cols, pane.rows, pane.w, pane.h)
      <4>1. \E N, b : Accounted(groups, N, b, pane.rows, pane.h)
        BY <3>2, RenderedIs
      <4> HIDE DEF groups
      <4>2. AllAccounted(groups, pane.rows, pane.h)
        BY <3>2, <4>1, TableAccounts
      <4> QED BY <4>2 DEF groups
    <3>5. SectionsFill
      BY <3>1 DEF SectionsFill
    <3> QED BY <3>3, <3>4, <3>5 DEF PanesAreFilled
  <2>2. ASSUME NEW p \in [cols : {<<>>}, rows : {0}, weights : UNION {[1..n -> 1..MaxWeight] : n \in 2..4},
                          w : {0}, h : 1..(MaxHeight * 2)],
               p = pane
        PROVE  PanesAreFilled
    <3>1. pane.cols = <<>> /\ pane.h \in 1 .. (MaxHeight * 2)
      BY <2>2
    <3>2. PICK n \in 2 .. 4 : pane.weights \in [1..n -> 1..MaxWeight]
      BY <2>2
    <3>3. pane.h \in Nat
      BY <3>1, SectionsAssumption DEF SectionsAssumption
    <3>4. pane.weights \in Seq(Nat \ {0}) /\ Len(pane.weights) >= 2
      <4> DEFINE ws == pane.weights
      <4>1. n \in Nat /\ ws = [k \in 1 .. n |-> ws[k]] /\ \A k \in 1 .. n : ws[k] \in Nat \ {0}
        BY <3>2, SectionsAssumption DEF SectionsAssumption
      <4> HIDE DEF ws
      <4>2. ws \in Seq(Nat \ {0}) /\ Len(ws) = n
        BY <4>1, IsSeq
      <4> QED BY <4>2 DEF ws
    <3>5. ColumnsFit /\ RowsAccounted
      BY <3>1 DEF ColumnsFit, RowsAccounted
    <3>6. SectionsFill
      <4> DEFINE ws == pane.weights
      <4>1. SplitAt(ws) \in 1 .. (Len(ws) - 1)
        BY <3>4, SplitAtType
      <4> DEFINE h == pane.h
      <4>2. ws \in Seq(Nat \ {0}) /\ Len(ws) >= 2 /\ h \in Nat
        BY <3>3, <3>4
      <4> HIDE DEF ws, h
      <4>3. AllFilled(ws, h, Stacked(ws, h))
        BY <4>2, StackedFills
      <4> QED BY <4>1, <4>3 DEF SectionsFill, AllFilled, ws, h
    <3> QED BY <3>5, <3>6 DEF PanesAreFilled
  <2> QED BY <1>1, <2>1, <2>2 DEF PaneInit
<1>2. PanesAreFilled /\ [PaneNext]_pane => PanesAreFilled'
  BY DEF PaneNext, PanesAreFilled, ColumnsFit, RowsAccounted, SectionsFill, PaneWidths
<1> QED BY <1>1, <1>2, PTL DEF PaneSpec

-------------------------------------------------------------------------------
(* The screens of sextant against a server.                                *)

(* The router holds the cleanup of the screen it shows. *)
CleanupOfShown == cleanup = cluster

SessionOK == TypeOK /\ SingleWait /\ CleanupOfShown /\ LeakedOnlyWhenOvertaken

(* The bounds as numbers.                                                    *)
LEMMA Bounds == MaxNews \in Nat /\ MaxScreen \in Nat \ {0}
  BY SextantAssumption

LEMMA OneMore ==
    ASSUME NEW D, NEW f \in [D -> Nat], NEW x \in D
    PROVE  [f EXCEPT ![x] = @ + 1] \in [D -> Nat]
  OBVIOUS

(* The invariant holds at first, and every action keeps it.                  *)
LEMMA InitSessionOK == Init => SessionOK
<1> SUFFICES ASSUME Init PROVE SessionOK
  OBVIOUS
<1>1. screens \in {0, 1} /\ screens \in 0..MaxScreen /\ 0..MaxNews \subseteq List
  BY Bounds DEF Init, List
<1>2. TypeOK
  <2>1. news \in 0..MaxNews /\ Nothing \in List /\ listed \in List
    BY Bounds DEF Init, List
  <2>2. answers \in [List -> Nat] /\ inbox \in [Message -> Nat] /\ armed \in [Screen -> Nat]
    BY DEF Init
  <2>3. /\ cluster \in 0..screens /\ cleanup \in 0..screens /\ live \subseteq 1..screens
        /\ overtaken \subseteq 1..screens
    BY <1>1 DEF Init
  <2>4. update \in [Screen -> BOOLEAN] /\ fetching \in Nat /\ waits \in Nat
    BY DEF Init
  <2>5. reachable \in BOOLEAN /\ subscribed \in BOOLEAN /\ changed \in BOOLEAN /\ behind \in BOOLEAN
    BY DEF Init
  <2> QED
    BY <1>1, <2>1, <2>2, <2>3, <2>4, <2>5 DEF TypeOK
<1>3. SingleWait
  BY DEF Init, SingleWait, Message
<1>4. CleanupOfShown /\ LeakedOnlyWhenOvertaken
  BY <1>1 DEF Init, CleanupOfShown, LeakedOnlyWhenOvertaken
<1> QED
  BY <1>2, <1>3, <1>4 DEF SessionOK

(* The screens and their streams are left alone by all but Put, a drill-down *)
(* and Esc.                                                                  *)
LEMMA ScreensUnmoved ==
    ASSUME SessionOK, UNCHANGED <<cluster, screens, cleanup, live, overtaken>>
    PROVE  CleanupOfShown' /\ LeakedOnlyWhenOvertaken'
  BY DEF SessionOK, CleanupOfShown, LeakedOnlyWhenOvertaken

LEMMA ServerStep ==
    ASSUME SessionOK,
           Change \/ Outage \/ Recover \/ (\E s \in Screen : Put(s))
               \/ Subscribe \/ FeedEvent \/ Broken \/ UNCHANGED vars
    PROVE  SessionOK'
<1>1. UNCHANGED <<fetching, answers, waits, inbox, listed, cluster, screens, cleanup, live, armed, overtaken>>
  BY DEF Change, Outage, Recover, Put, Subscribe, FeedEvent, Broken, vars, source, screen, streams
<1>2. /\ news' \in 0..MaxNews /\ reachable' \in BOOLEAN /\ subscribed' \in BOOLEAN
      /\ changed' \in BOOLEAN
  <2>1. news' = news \/ (news < MaxNews /\ news' = news + 1)
    BY DEF Change, Outage, Recover, Put, Subscribe, FeedEvent, Broken, vars, source
  <2>2. news' \in 0..MaxNews
    BY <2>1, Bounds DEF SessionOK, TypeOK
  <2>3. reachable' \in {reachable, TRUE, FALSE} /\ subscribed' \in {subscribed, TRUE, FALSE}
    BY DEF Change, Outage, Recover, Put, Subscribe, FeedEvent, Broken, vars, source
  <2>4. changed' \in {changed, TRUE}
    BY DEF Change, Outage, Recover, Put, Subscribe, FeedEvent, Broken, vars, source
  <2> QED
    BY <2>2, <2>3, <2>4 DEF SessionOK, TypeOK
<1>3. update' \in [Screen -> BOOLEAN] /\ behind' \in BOOLEAN
  BY DEF SessionOK, TypeOK, Change, Outage, Recover, Put, Subscribe, FeedEvent, Broken, vars,
         source, screen, streams
<1>4. TypeOK'
  BY <1>1, <1>2, <1>3 DEF SessionOK, TypeOK
<1>5. SingleWait'
  BY <1>1 DEF SessionOK, SingleWait
<1> QED
  BY <1>1, <1>4, <1>5, ScreensUnmoved DEF SessionOK

(* A command's message: a wait that returns is a message under way. *)
LEMMA CommandStep ==
    ASSUME SessionOK, ReadFleet \/ FleetChanged \/ (\E s \in Screen : ClusterUpdated(s)) \/ Enter
    PROVE  SessionOK'
<1>1. UNCHANGED <<news, reachable, subscribed, listed, cluster, screens, cleanup, live, behind, overtaken>>
  BY DEF ReadFleet, FleetChanged, ClusterUpdated, Enter, source, screen, streams
<1>2. (IF reachable THEN news ELSE Nothing) \in List
  BY DEF SessionOK, TypeOK, List
<1>3. fetching' \in Nat /\ answers' \in [List -> Nat]
  <2>1. fetching \in Nat /\ answers \in [List -> Nat]
    BY DEF SessionOK, TypeOK
  <2>2. CASE ReadFleet
    <3>1. fetching' \in Nat
      BY <2>1, <2>2 DEF ReadFleet
    <3>2. answers' \in [List -> Nat]
      BY <1>2, <2>1, <2>2, OneMore DEF ReadFleet
    <3> QED
      BY <3>1, <3>2
  <2>3. CASE UNCHANGED <<fetching, answers>>
    BY <2>1, <2>3
  <2> QED
    BY <2>2, <2>3 DEF FleetChanged, ClusterUpdated, Enter
<1>4. changed' \in BOOLEAN /\ waits' \in Nat
  <2>1. changed \in BOOLEAN /\ waits \in Nat
    BY DEF SessionOK, TypeOK
  <2>2. CASE FleetChanged
    <3>1. waits > 0 /\ waits' = waits - 1
      BY <2>2 DEF FleetChanged
    <3>2. changed' = FALSE
      BY <2>2 DEF FleetChanged
    <3>3. waits' \in Nat
      BY <2>1, <3>1
    <3>4. changed' \in BOOLEAN
      BY <3>2
    <3> QED
      BY <3>3, <3>4
  <2>3. CASE UNCHANGED <<changed, waits>>
    BY <2>1, <2>3
  <2> QED
    BY <2>2, <2>3 DEF ReadFleet, ClusterUpdated, Enter, source
<1>5. inbox' \in [Message -> Nat]
  <2>1. inbox' = inbox \/ \E m \in Message : Sent(m)
    BY DEF ReadFleet, FleetChanged, ClusterUpdated, Enter, Message
  <2> QED
    BY <2>1 DEF Sent, SessionOK, TypeOK
<1>6. update' \in [Screen -> BOOLEAN] /\ armed' \in [Screen -> Nat]
  <2>1. CASE UNCHANGED <<update, armed>>
    BY <2>1 DEF SessionOK, TypeOK
  <2>2. ASSUME NEW s \in Screen, ClusterUpdated(s)
        PROVE  update' \in [Screen -> BOOLEAN] /\ armed' \in [Screen -> Nat]
    BY <2>2 DEF ClusterUpdated, SessionOK, TypeOK
  <2> QED
    BY <2>1, <2>2 DEF ReadFleet, FleetChanged, Enter, streams
<1>7. TypeOK'
  BY <1>1, <1>3, <1>4, <1>5, <1>6 DEF SessionOK, TypeOK
<1>8. SingleWait'
  BY DEF ReadFleet, FleetChanged, ClusterUpdated, Enter, Sent, SessionOK, TypeOK, Message, SingleWait
<1> QED
  BY <1>1, <1>7, <1>8, ScreensUnmoved DEF SessionOK

(* Messages that change no screen: a changedMsg is gone when its handler     *)
(* waits again.                                                              *)
LEMMA MessageStep ==
    ASSUME SessionOK, (\E l \in List : HandleList(l)) \/ HandleChanged \/ HandleUpdate
    PROVE  SessionOK'
<1>1. UNCHANGED <<source, cluster, screens, cleanup, streams, overtaken>>
  BY DEF HandleList, HandleChanged, HandleUpdate, screen
<1>2. fetching' \in Nat /\ answers' \in [List -> Nat] /\ listed' \in List
  BY DEF HandleList, HandleChanged, HandleUpdate, Ask, screen, SessionOK, TypeOK
<1>3. waits' \in Nat /\ inbox' \in [Message -> Nat]
  BY DEF HandleList, HandleChanged, HandleUpdate, Take, SessionOK, TypeOK, Message
<1>4. armed' \in [Screen -> Nat] /\ behind' \in BOOLEAN
  <2>1. cluster # 0 => cluster \in Screen
    BY Bounds DEF SessionOK, TypeOK, Screen
  <2>2. armed' = armed \/ (cluster # 0 /\ armed' = [armed EXCEPT ![cluster] = @ + 1])
    BY DEF HandleList, HandleChanged, HandleUpdate
  <2>3. behind' = FALSE
    BY DEF HandleList, HandleChanged, HandleUpdate, Draw
  <2>4. armed \in [Screen -> Nat]
    BY DEF SessionOK, TypeOK
  <2>5. cluster # 0 => [armed EXCEPT ![cluster] = @ + 1] \in [Screen -> Nat]
    BY <2>1, <2>4, OneMore
  <2> QED
    BY <2>2, <2>3, <2>4, <2>5
<1>5. TypeOK'
  BY <1>1, <1>2, <1>3, <1>4 DEF SessionOK, TypeOK, source, streams
<1>6. SingleWait'
  BY DEF HandleList, HandleChanged, HandleUpdate, Take, SessionOK, TypeOK, Message, SingleWait
<1> QED
  BY <1>1, <1>5, <1>6, ScreensUnmoved DEF SessionOK, streams

(* A drill-down replaces the cleanup; the screen it belonged to is then      *)
(* overtaken, if there was one.                                              *)
LEMMA DrillStep ==
    ASSUME SessionOK, HandleDrill
    PROVE  SessionOK'
<1>1. UNCHANGED <<source, fetching, answers, waits, listed, update>>
  BY DEF HandleDrill
<1>2. inbox' \in [Message -> Nat] /\ inbox'["changed"] = inbox["changed"]
  BY DEF HandleDrill, Take, SessionOK, TypeOK, Message
<1>3. /\ screens' \in 0..MaxScreen /\ cluster' \in 0..screens' /\ cleanup' \in 0..screens'
      /\ live' \subseteq 1..screens' /\ overtaken' \subseteq 1..screens'
  <2>1. CASE reachable
    <3>1. screens' = screens + 1 /\ screens + 1 \in 1..MaxScreen /\ screens \in Nat
      BY <2>1, Bounds DEF HandleDrill, SessionOK, TypeOK
    <3>2. /\ cluster' = screens + 1 /\ cleanup' = screens + 1
          /\ live' = live \cup {screens + 1}
          /\ overtaken' = IF cluster = 0 THEN overtaken ELSE overtaken \cup {cluster}
      BY <2>1 DEF HandleDrill
    <3>3. /\ live \subseteq 1..screens /\ overtaken \subseteq 1..screens
          /\ cluster \in 0..screens
      BY DEF SessionOK, TypeOK
    <3>4. 1..screens \subseteq 1..screens' /\ screens + 1 \in 1..screens'
      BY <3>1
    <3>5. cluster # 0 => cluster \in 1..screens
      BY <3>1, <3>3
    <3>6. live' \subseteq 1..screens' /\ overtaken' \subseteq 1..screens'
      BY <3>2, <3>3, <3>4, <3>5
    <3> QED
      BY <3>1, <3>2, <3>6
  <2>2. CASE ~reachable
    BY <2>2 DEF HandleDrill, SessionOK, TypeOK
  <2> QED
    BY <2>1, <2>2 DEF SessionOK, TypeOK
<1>4. armed' \in [Screen -> Nat] /\ behind' \in BOOLEAN
  <2>1. screens + 1 \in Screen
    BY Bounds DEF HandleDrill, SessionOK, TypeOK, Screen
  <2>2. armed' = armed \/ armed' = [armed EXCEPT ![screens + 1] = @ + 1]
    BY DEF HandleDrill
  <2>3. behind' = FALSE
    BY DEF HandleDrill, Draw
  <2>4. armed \in [Screen -> Nat]
    BY DEF SessionOK, TypeOK
  <2>5. [armed EXCEPT ![screens + 1] = @ + 1] \in [Screen -> Nat]
    BY <2>1, <2>4, OneMore
  <2> QED
    BY <2>2, <2>3, <2>4, <2>5
<1>5. TypeOK'
  BY <1>1, <1>2, <1>3, <1>4 DEF SessionOK, TypeOK, source
<1>6. SingleWait'
  BY <1>1, <1>2 DEF SessionOK, SingleWait
<1>7. CleanupOfShown'
  BY DEF HandleDrill, SessionOK, CleanupOfShown
<1>8. LeakedOnlyWhenOvertaken'
  <2>1. 0 \notin live
    BY DEF SessionOK, TypeOK
  <2> QED
    BY <2>1 DEF HandleDrill, SessionOK, CleanupOfShown, LeakedOnlyWhenOvertaken
<1> QED
  BY <1>5, <1>6, <1>7, <1>8 DEF SessionOK

LEMMA EscStep ==
    ASSUME SessionOK, Esc
    PROVE  SessionOK'
<1>1. TypeOK'
  BY DEF Esc, SessionOK, TypeOK, source
<1>2. SingleWait'
  BY DEF Esc, SessionOK, SingleWait
<1>3. CleanupOfShown' /\ LeakedOnlyWhenOvertaken'
  BY DEF Esc, SessionOK, CleanupOfShown, LeakedOnlyWhenOvertaken
<1> QED
  BY <1>1, <1>2, <1>3 DEF SessionOK

(* The inductive invariant.                                                  *)
LEMMA AlwaysSessionOK == SafeSpec => []SessionOK
<1>1. SessionOK /\ [Next]_vars => SessionOK'
  BY ServerStep, CommandStep, MessageStep, DrillStep, EscStep DEF Next
<1> QED
  BY <1>1, InitSessionOK, PTL DEF SafeSpec

(* The state keeps its type; no screen is shown that was not built.          *)
THEOREM TypeCorrect == SafeSpec => []TypeOK
<1>1. SessionOK => TypeOK
  BY DEF SessionOK
<1> QED
  BY <1>1, AlwaysSessionOK, PTL

(* However messages and screens interleave, at most one command waits on the *)
(* fleet's channel or has its message under way.                             *)
THEOREM WaitsOnce == SafeSpec => []SingleWait
<1>1. SessionOK => SingleWait
  BY DEF SessionOK
<1> QED
  BY <1>1, AlwaysSessionOK, PTL

(* A stream that still runs is the shown screen's, or belongs to a screen    *)
(* that a second drill-down has replaced.                                    *)
THEOREM LeaksOnlyOvertaken == SafeSpec => []LeakedOnlyWhenOvertaken
<1>1. SessionOK => LeakedOnlyWhenOvertaken
  BY DEF SessionOK
<1> QED
  BY <1>1, AlwaysSessionOK, PTL

===============================================================================
