-------------------------- MODULE CapiWatcherProofs --------------------------
(***************************************************************************)
(* Proofs about CapiWatcher, Hosts, FleetList and FleetFeed, for any set of*)
(* kinds, of machines, of hosts and of clusters: the watcher's state keeps *)
(* its type, "none" is only said of a list that completed, the Machines pane*)
(* offers no host as spare that it shows under a machine, and the terminal's*)
(* list of clusters keeps its cursor on a row that is on the screen.  The  *)
(* feed of the fleet keeps its type, and a notify is only lost to another  *)
(* stream.                                                                 *)
(***************************************************************************)
EXTENDS CapiWatcher, FleetFeed, Hosts, FleetList, FiniteSetTheorems, TLAPS

(* Every step of Run, its informers and its coalescers keeps the type of the *)
(* state; the closing loop publishes only what has a rebuild.                *)
THEOREM TypeCorrect == SafeSpec => []TypeOK
<1>1. Init => TypeOK
  BY DEF Init, TypeOK, Phase
<1>2. TypeOK /\ [Next]_vars => TypeOK'
  <2> SUFFICES ASSUME TypeOK, [Next]_vars
               PROVE  TypeOK'
    OBVIOUS
  <2> USE DEF TypeOK, Phase, environment
  <2>1. ASSUME NEW s \in Source, ClusterChanges(s) \/ GrantChanges(s)
        PROVE  TypeOK'
    BY <2>1 DEF ClusterChanges, GrantChanges
  <2>2. ASSUME NEW s \in Source, Rebuild(s) \/ CoalescedPublish(s)
        PROVE  TypeOK'
    BY <2>2 DEF Rebuild, CoalescedPublish, Publish
  <2>3. ASSUME NEW s \in Source, FirstList(s) \/ Deliver(s)
        PROVE  TypeOK'
    BY <2>3 DEF FirstList, Deliver
  <2>4. ASSUME NEW k \in Kind, Resolve(k) \/ Skip(k)
        PROVE  TypeOK'
    BY <2>4 DEF Resolve, Skip, Source
  <2>5. CASE Start \/ CachesWarm \/ EventsWarm \/ Settle \/ Cancel
    BY <2>5 DEF Start, CachesWarm, EventsWarm, Settle, Cancel, Source
  <2>6. CASE UNCHANGED vars
    BY <2>6 DEF vars
  <2> QED
    BY <2>1, <2>2, <2>3, <2>4, <2>5, <2>6 DEF Next
<1> QED
  BY <1>1, <1>2, PTL DEF SafeSpec

(* What makes NoneMeansNone inductive.  Only an informer's first list sets   *)
(* its flag, so a coalescer publishes from a synced cache; and, unless the   *)
(* context has ended, the closing loop starts after both waits are over, on  *)
(* caches that have all synced.                                              *)
WarmWhenPublishing ==
    /\ \A s \in Source : dirty[s] => synced[s]
    /\ Events \in informers => phase \notin {"resolving", "syncing"}
    /\ phase = "syncingEvents" /\ ~canceled => \A s \in informers \ {Events} : synced[s]
    /\ phase = "publishing" /\ ~canceled => \A s \in informers : synced[s]

(* NoneMeansNone: unless the collector is being torn down, "none" stands for *)
(* a cache that has been filled, whichever kinds were skipped, denied or     *)
(* slow.                                                                     *)
THEOREM NoneIsAResult == SafeSpec => []NoneMeansNone
<1>1. Init => WarmWhenPublishing /\ NoneMeansNone
  BY DEF Init, WarmWhenPublishing, NoneMeansNone
<1>2. TypeOK /\ WarmWhenPublishing /\ NoneMeansNone /\ [Next]_vars
        => WarmWhenPublishing' /\ NoneMeansNone'
  <2> SUFFICES ASSUME TypeOK, WarmWhenPublishing, NoneMeansNone, [Next]_vars
               PROVE  WarmWhenPublishing' /\ NoneMeansNone'
    OBVIOUS
  <2> USE DEF TypeOK, WarmWhenPublishing, NoneMeansNone, environment
  <2>1. ASSUME NEW s \in Source, ClusterChanges(s) \/ GrantChanges(s)
        PROVE  WarmWhenPublishing' /\ NoneMeansNone'
    BY <2>1 DEF ClusterChanges, GrantChanges
  <2>2. ASSUME NEW s \in Source, Rebuild(s)
        PROVE  WarmWhenPublishing' /\ NoneMeansNone'
    BY <2>2 DEF Rebuild, Publish
  <2>3. ASSUME NEW s \in Source, CoalescedPublish(s)
        PROVE  WarmWhenPublishing' /\ NoneMeansNone'
    BY <2>3 DEF CoalescedPublish, Publish
  <2>4. ASSUME NEW s \in Source, FirstList(s)
        PROVE  WarmWhenPublishing' /\ NoneMeansNone'
    BY <2>4 DEF FirstList, Watching
  <2>5. ASSUME NEW s \in Source, Deliver(s)
        PROVE  WarmWhenPublishing' /\ NoneMeansNone'
    BY <2>5 DEF Deliver, Watching
  <2>6. ASSUME NEW k \in Kind, Resolve(k) \/ Skip(k)
        PROVE  WarmWhenPublishing' /\ NoneMeansNone'
    BY <2>6, CapiAssumption DEF Resolve, Skip, Source
  <2>7. CASE Start
    BY <2>7 DEF Start
  <2>8. CASE CachesWarm
    BY <2>8 DEF CachesWarm
  <2>9. CASE EventsWarm
    BY <2>9 DEF EventsWarm
  <2>10. CASE Settle \/ Cancel
    BY <2>10 DEF Settle, Cancel
  <2>11. CASE UNCHANGED vars
    BY <2>11 DEF vars
  <2> QED
    BY <2>1, <2>2, <2>3, <2>4, <2>5, <2>6, <2>7, <2>8, <2>9, <2>10, <2>11 DEF Next
<1> QED
  BY <1>1, <1>2, TypeCorrect, PTL DEF SafeSpec

-------------------------------------------------------------------------------
(* What is sorted by a strict total order is all there, once each, in order. *)
StrictOrder(S, R) ==
    /\ \A a \in S : <<a, a>> \notin R
    /\ \A a, b \in S : a # b => <<a, b>> \in R \/ <<b, a>> \in R
    /\ \A a, b, c \in S : <<a, b>> \in R /\ <<b, c>> \in R => <<a, c>> \in R

LEMMA SortedByOrder ==
    ASSUME NEW S, IsFiniteSet(S), NEW R, StrictOrder(S, R)
    PROVE  LET s == SortedBy(S, R)
           IN /\ s \in [1 .. Cardinality(S) -> S] /\ Cardinality(S) \in Nat
              /\ \A a \in S : \E i \in 1 .. Cardinality(S) : s[i] = a
              /\ \A i, j \in 1 .. Cardinality(S) : i < j => <<s[i], s[j]>> \in R
<1> DEFINE N == Cardinality(S)
           UpTo(a) == {b \in S : <<a, b>> \notin R}
           rank == [a \in S |-> Cardinality(UpTo(a))]
<1>1. N \in Nat
  BY FS_CardinalityType
<1>2. ASSUME NEW a \in S
      PROVE  IsFiniteSet(UpTo(a)) /\ rank[a] \in 1 .. N
  <2>1. IsFiniteSet(UpTo(a)) /\ Cardinality(UpTo(a)) \in Nat /\ Cardinality(UpTo(a)) <= N
    BY FS_Subset, FS_CardinalityType
  <2>2. a \in UpTo(a)
    BY DEF StrictOrder
  <2>3. Cardinality(UpTo(a)) # 0
    BY <2>1, <2>2, FS_EmptySet
  <2> QED BY <1>1, <2>1, <2>3
<1>3. ASSUME NEW a \in S, NEW b \in S, <<a, b>> \in R
      PROVE  rank[a] < rank[b]
  <2>1. UpTo(a) \subseteq UpTo(b) /\ b \in UpTo(b) /\ b \notin UpTo(a)
    BY <1>3 DEF StrictOrder
  <2> HIDE DEF UpTo
  <2>2. /\ Cardinality(UpTo(a)) <= Cardinality(UpTo(b))
        /\ Cardinality(UpTo(a)) # Cardinality(UpTo(b))
    BY <1>2, <2>1, FS_Subset
  <2>3. rank[a] = Cardinality(UpTo(a)) /\ rank[b] = Cardinality(UpTo(b)) /\ rank[a] \in 1 .. N /\ rank[b] \in 1 .. N
    BY <1>2
  <2> QED BY <1>1, <2>2, <2>3
<1> HIDE DEF rank, N, UpTo
<1>4. rank \in Injection(S, 1 .. N)
  <2>1. rank \in [S -> 1 .. N]
    BY <1>2 DEF rank
  <2>2. \A a, b \in S : rank[a] = rank[b] => a = b
    <3> SUFFICES ASSUME NEW a \in S, NEW b \in S, rank[a] = rank[b], a # b PROVE FALSE
      OBVIOUS
    <3>1. rank[a] < rank[b] \/ rank[b] < rank[a]
      BY <1>3 DEF StrictOrder
    <3>2. rank[a] \in 1 .. N /\ rank[b] \in 1 .. N
      BY <1>2
    <3> QED BY <1>1, <3>1, <3>2
  <2> QED BY <2>1, <2>2 DEF Injection, IsInjective
<1>5. rank \in Surjection(S, 1 .. N)
  <2>1. IsFiniteSet(1 .. N) /\ Cardinality(1 .. N) = N
    BY <1>1, FS_Interval
  <2> QED BY <1>4, <2>1, FS_Injection DEF N
<1> DEFINE s == SortedBy(S, R)
<1>6. s = [i \in 1 .. N |-> CHOOSE a \in S : Cardinality(UpTo(a)) = i]
  BY DEF SortedBy, N, UpTo
<1>7. \A a \in S : rank[a] = Cardinality(UpTo(a))
  BY DEF rank
<1> HIDE DEF s
<1>8. ASSUME NEW i \in 1 .. N PROVE s[i] \in S /\ rank[s[i]] = i
  <2>1. \E a \in S : Cardinality(UpTo(a)) = i
    BY <1>5, <1>7 DEF Surjection
  <2>2. s[i] \in S /\ Cardinality(UpTo(s[i])) = i
    BY <1>6, <2>1
  <2> QED BY <1>7, <2>2
<1>9. s \in [1 .. N -> S]
  <2>1. DOMAIN s = 1 .. N /\ s = [i \in 1 .. N |-> s[i]]
    BY <1>6
  <2> QED BY <1>8, <2>1
<1>10. ASSUME NEW a \in S PROVE \E i \in 1 .. N : s[i] = a
  <2>1. rank[a] \in 1 .. N
    BY <1>2
  <2>2. s[rank[a]] \in S /\ rank[s[rank[a]]] = rank[a]
    BY <1>8, <2>1
  <2>3. s[rank[a]] = a
    BY <1>4, <2>2 DEF Injection, IsInjective
  <2> QED BY <2>1, <2>3
<1>11. ASSUME NEW i \in 1 .. N, NEW j \in 1 .. N, i < j PROVE <<s[i], s[j]>> \in R
  <2>1. s[i] \in S /\ s[j] \in S /\ rank[s[i]] = i /\ rank[s[j]] = j
    BY <1>8
  <2>2. s[i] # s[j] /\ ~(rank[s[j]] < rank[s[i]])
    BY <1>1, <1>11, <2>1
  <2> QED BY <1>3, <2>1, <2>2 DEF StrictOrder
<1> QED BY <1>1, <1>9, <1>10, <1>11 DEF N, s

(* Items that their names tell apart are as many as their names. *)
ToldByName(S, D) == (\A a \in S : a.name \in D) /\ \A a, b \in S : a.name = b.name => a = b

LEMMA AsManyAsNames ==
    ASSUME NEW S, NEW D, IsFiniteSet(D), ToldByName(S, D)
    PROVE  IsFiniteSet(S) /\ Cardinality(S) = Cardinality({a.name : a \in S})
<1> DEFINE f == [a \in S |-> a.name]
           T == {a.name : a \in S}
<1>1. IsFiniteSet(T)
  <2>1. T \in SUBSET D
    BY DEF ToldByName
  <2> QED BY <2>1, FS_Subset
<1>2. f \in Injection(S, T) /\ f \in Surjection(S, T)
  BY DEF ToldByName, Injection, Surjection, IsInjective
<1> QED BY <1>1, <1>2, FS_Injection

(* And a sequence of them is as long, when it has no name twice. *)
LEMMA AsLongAsNames ==
    ASSUME NEW S, NEW s \in Seq(S), \A i, j \in DOMAIN s : s[i].name = s[j].name => i = j
    PROVE  IsFiniteSet(ToSet(s)) /\ Cardinality(ToSet(s)) = Len(s) /\ ToSet(s) \subseteq S
<1>1. Len(s) \in Nat /\ DOMAIN s = 1 .. Len(s) /\ \A i \in DOMAIN s : s[i] \in S
  OBVIOUS
<1>2. s \in Bijection(1 .. Len(s), ToSet(s))
  BY <1>1 DEF Bijection, Injection, Surjection, IsInjective, ToSet
<1>3. IsFiniteSet(1 .. Len(s)) /\ Cardinality(1 .. Len(s)) = Len(s)
  <2>1. PICK n \in Nat : n = Len(s)
    BY <1>1
  <2>2. 1 \in Int /\ n \in Int /\ (1 > n => n = 0)
    BY <2>1
  <2>3. IsFiniteSet(1 .. n) /\ Cardinality(1 .. n) = IF 1 > n THEN 0 ELSE n - 1 + 1
    BY <2>2, FS_Interval, Zenon
  <2> QED BY <2>1, <2>2, <2>3
<1> QED BY <1>1, <1>2, <1>3, FS_Bijection DEF ExistsBijection, ToSet

(* sortByNamespacedName. *)
LEMMA ByNameOrders ==
    ASSUME NEW S, NEW D \in SUBSET Nat, IsFiniteSet(D), ToldByName(S, D), \A a \in S : a.ns \in Nat
    PROVE  /\ ByName(S) \in Seq(S) /\ ToSet(ByName(S)) = S
           /\ \A i, j \in DOMAIN ByName(S) : ByName(S)[i].name = ByName(S)[j].name => i = j
<1> DEFINE R == {p \in S \X S : p[1].ns < p[2].ns \/ (p[1].ns = p[2].ns /\ p[1].name < p[2].name)}
           s == ByName(S)
           N == Cardinality(S)
<1>1. IsFiniteSet(S)
  BY AsManyAsNames
<1>2. StrictOrder(S, R)
  <2>1. \A a \in S : a.ns \in Nat /\ a.name \in Nat
    BY DEF ToldByName
  <2>2. \A a, b \in S : <<a, b>> \in R <=> a.ns < b.ns \/ (a.ns = b.ns /\ a.name < b.name)
    OBVIOUS
  <2> HIDE DEF R
  <2> QED BY <2>1, <2>2 DEF StrictOrder, ToldByName
<1>3. s = SortedBy(S, R)
  BY DEF ByName
<1> HIDE DEF s, R, N
<1>4. /\ s \in [1 .. N -> S] /\ N \in Nat
      /\ \A a \in S : \E i \in 1 .. N : s[i] = a
      /\ \A i, j \in 1 .. N : i < j => <<s[i], s[j]>> \in R
  BY <1>1, <1>2, <1>3, SortedByOrder DEF N
<1>5. s \in Seq(S) /\ DOMAIN s = 1 .. N
  BY <1>4
<1>6. ToSet(s) = S
  BY <1>4, <1>5 DEF ToSet
<1>7. ASSUME NEW i \in DOMAIN s, NEW j \in DOMAIN s, s[i].name = s[j].name PROVE i = j
  <2>1. s[i] \in S /\ s[j] \in S
    BY <1>4, <1>5
  <2>2. s[i] = s[j]
    BY <1>7, <2>1 DEF ToldByName
  <2>3. <<s[i], s[j]>> \notin R /\ <<s[j], s[i]>> \notin R
    BY <1>2, <2>1, <2>2 DEF StrictOrder
  <2>4. i \in Nat /\ j \in Nat
    BY <1>4, <1>5
  <2> QED BY <1>4, <1>5, <2>3, <2>4
<1> QED BY <1>5, <1>6, <1>7 DEF s

(* Whatever the three lists hold, the join has a row for each machine listed, *)
(* and the rows come in order.                                               *)
ShownMachine ==
    {[ns |-> Machine[m].ns, name |-> m, owner |-> OwnerOf(m), infra |-> Machine[m].infra, phase |-> p] :
        m \in DOMAIN Machine, p \in {"Provisioning", "Running"}}
MachinesListed ==
    /\ machineList.items \in Seq(ShownMachine)
    /\ \A i, j \in DOMAIN machineList.items : machineList.items[i].name = machineList.items[j].name => i = j

LEMMA RowsInOrder ==
    ASSUME NEW items \in Seq(ShownMachine), NEW P, NEW H,
           \A i, j \in DOMAIN items : items[i].name = items[j].name => i = j
    PROVE  LET joined == Join(ToSet(items), P, H)
           IN /\ Len(joined) = Len(items) /\ DOMAIN joined = 1 .. Len(items)
              /\ ToSet(joined) = {RowOf(m, P, H) : m \in ToSet(items)}
              /\ \A i, j \in DOMAIN joined : i < j => joined[i].rank <= joined[j].rank
<1> DEFINE S == {RowOf(m, P, H) : m \in ToSet(items)}
           R == {p \in S \X S : Before(p[1], p[2])}
           joined == Join(ToSet(items), P, H)
           s == [i \in 1 .. Len(items) |-> RowOf(items[i], P, H)]
           N == Cardinality(S)
<1>1. Len(items) \in Nat /\ DOMAIN items = 1 .. Len(items) /\ \A i \in DOMAIN items : items[i] \in ShownMachine
  OBVIOUS
<1>2. ASSUME NEW m \in ShownMachine
      PROVE  LET r == RowOf(m, P, H)
             IN /\ r.name = m.name /\ r.name \in Nat /\ r.ns \in Nat
                /\ r.rank \in Nat /\ r.seat \in Nat /\ r.role \in Nat
  <2>1. PICK x \in DOMAIN Machine : m.name = x /\ m.ns = Machine[x].ns
    BY DEF ShownMachine
  <2>2. x \in Nat /\ Machine[x].ns \in Nat /\ Machine[x].role \in Nat
    BY HostsAssumption
  <2>3. \A at : ActivityRank(m, at, H) \in Nat
    BY DEF ActivityRank
  <2> QED BY <2>1, <2>2, <2>3 DEF RowOf, ControlPlaneRole
<1>3. /\ s \in Seq(S) /\ Len(s) = Len(items) /\ ToSet(s) = S
      /\ \A i, j \in DOMAIN s : s[i].name = s[j].name => i = j
  <2> HIDE DEF S
  <2>1. \A i \in 1 .. Len(items) : s[i] \in S /\ s[i].name = items[i].name
    BY <1>1, <1>2 DEF S, ToSet
  <2>2. s \in [1 .. Len(items) -> S] /\ DOMAIN s = 1 .. Len(items)
    BY <2>1
  <2>3. s \in Seq(S) /\ Len(s) = Len(items)
    BY <1>1, <2>2
  <2>4. ToSet(s) = S
    BY <1>1, <2>2 DEF ToSet, S
  <2>5. \A i, j \in DOMAIN s : s[i].name = s[j].name => i = j
    BY <1>1, <2>1, <2>2
  <2> QED BY <2>3, <2>4, <2>5
<1>4. IsFiniteSet(S) /\ N = Len(items)
  <2> HIDE DEF S, s
  <2> QED BY <1>3, AsLongAsNames DEF N
<1>5. \A a \in S : a.name \in Nat /\ a.ns \in Nat /\ a.rank \in Nat /\ a.seat \in Nat /\ a.role \in Nat
  BY <1>1, <1>2 DEF ToSet
<1>6. \A a, b \in S : a.name = b.name => a = b
  <2> HIDE DEF S, s
  <2> QED BY <1>3 DEF ToSet
<1>7. \A a, b \in S : <<a, b>> \in R <=> Before(a, b)
  <2> HIDE DEF S
  <2> QED OBVIOUS
<1>8. StrictOrder(S, R)
  <2> HIDE DEF S, R
  <2>1. \A a \in S : <<a, a>> \notin R
    BY <1>5, <1>7 DEF Before
  <2>2. \A a, b \in S : a # b => <<a, b>> \in R \/ <<b, a>> \in R
    <3> SUFFICES ASSUME NEW a \in S, NEW b \in S, a.name # b.name PROVE Before(a, b) \/ Before(b, a)
      BY <1>6, <1>7
    <3>1. \A x, y \in Nat : x < y \/ x = y \/ y < x
      OBVIOUS
    <3> QED BY <1>5, <3>1, Zenon DEF Before
  <2>3. \A a, b, c \in S : <<a, b>> \in R /\ <<b, c>> \in R => <<a, c>> \in R
    <3> SUFFICES ASSUME NEW a \in S, NEW b \in S, NEW c \in S, Before(a, b), Before(b, c)
                 PROVE  Before(a, c)
      BY <1>7
    <3>1. \A x, y, z \in Nat : x < y /\ y < z => x < z
      OBVIOUS
    <3> QED BY <1>5, <3>1, Zenon DEF Before
  <2> QED BY <2>1, <2>2, <2>3 DEF StrictOrder
<1>9. joined = SortedBy(S, R)
  BY DEF Join
<1> HIDE DEF S, R, joined, N
<1>10. /\ joined \in [1 .. N -> S] /\ N \in Nat
       /\ \A a \in S : \E i \in 1 .. N : joined[i] = a
       /\ \A i, j \in 1 .. N : i < j => <<joined[i], joined[j]>> \in R
  BY <1>4, <1>8, <1>9, SortedByOrder DEF N
<1>11. DOMAIN joined = 1 .. Len(items) /\ Len(joined) = Len(items)
  BY <1>1, <1>4, <1>10
<1>12. ToSet(joined) = S
  BY <1>4, <1>10 DEF ToSet
<1>13. ASSUME NEW i \in DOMAIN joined, NEW j \in DOMAIN joined, i < j PROVE joined[i].rank <= joined[j].rank
  <2>1. joined[i] \in S /\ joined[j] \in S /\ Before(joined[i], joined[j])
    BY <1>4, <1>7, <1>10, <1>11, <1>13
  <2> QED BY <1>5, <2>1 DEF Before
<1> QED BY <1>11, <1>12, <1>13 DEF S, joined

(* A host a row shows is claimed, whatever moments the lists are of.         *)
LEMMA ShownIsClaimed ==
    ASSUME NEW P, NEW H, NEW m, ToldByName(H, DOMAIN Hardware), \A p \in P : p.name \in DOMAIN Machine
    PROVE  RowOf(m, P, H).host \notin {h.name : h \in UnclaimedHosts(P, H)}
<1> DEFINE m3m == {p \in P : m.infra = Metal3MachineKind /\ p.ns = m.ns /\ p.name = m.name}
           named == {h \in H : \E p \in m3m :
                       p.host.name # Nothing /\ h.ns = p.host.ns /\ h.name = p.host.name}
           naming == {h \in H : \E p \in m3m :
                       /\ h.consumer.kind = Metal3MachineKind /\ h.consumer.name = p.name
                       /\ p.ns = (IF h.consumer.ns = Nothing THEN h.ns ELSE h.consumer.ns)}
           picked == IF named # {} THEN Pick(named) ELSE Pick(naming)
<1>1. RowOf(m, P, H).host = picked
  BY DEF RowOf, HostFor
<1>2. \A p \in m3m : p \in P /\ p.name # Nothing
  BY HostsAssumption
<1>3. \A h \in H : h.name # Nothing
  BY HostsAssumption DEF ToldByName
<1>4. \A T \in SUBSET H : Pick(T) = Nothing \/ \E h \in T : Pick(T) = h.name
  BY DEF Pick
<1>5. \A h \in named \cup naming : h \in H /\ h \notin UnclaimedHosts(P, H)
  BY <1>2 DEF UnclaimedHosts
<1>6. picked = Nothing \/ \E h \in named \cup naming : picked = h.name
  <2> HIDE DEF named, naming
  <2>1. named \in SUBSET H /\ naming \in SUBSET H
    BY DEF named, naming
  <2> QED BY <1>4, <2>1
<1>7. UnclaimedHosts(P, H) \subseteq H
  BY DEF UnclaimedHosts
<1> HIDE DEF picked, named, naming
<1> QED BY <1>1, <1>3, <1>5, <1>6, <1>7 DEF ToldByName

(* The two marks of a claim never disagree: whoever holds a host has at      *)
(* least one of them, and the host's own names nobody else.                  *)
HostsTyped ==
    /\ bound \in [DOMAIN Machine -> DOMAIN Hardware \cup {Nothing}]
    /\ annotated \subseteq DOMAIN Machine
    /\ consumer \in [DOMAIN Hardware -> DOMAIN Machine \cup {Nothing, Outsider}]
HeldAndMarked ==
    \A m \in DOMAIN Machine : bound[m] # Nothing =>
        /\ Machine[m].infra = Metal3MachineKind
        /\ m \in annotated \/ consumer[bound[m]] = m
        /\ consumer[bound[m]] \in {Nothing, m}
        /\ \A n \in DOMAIN Machine : bound[n] = bound[m] => n = m
MarkedAndHeld ==
    /\ \A m \in annotated : bound[m] # Nothing
    /\ \A h \in DOMAIN Hardware : consumer[h] \in DOMAIN Machine => bound[consumer[h]] = h
ListsNamed ==
    /\ MachinesListed
    /\ \A p \in ToSet(providerList.items) : p.name \in DOMAIN Machine
    /\ ToldByName(ToSet(hostList.items), DOMAIN Hardware)
HostsInv == HostsTyped /\ HeldAndMarked /\ MarkedAndHeld /\ ListsNamed

LEMMA NothingIsNoName ==
    /\ \A m \in DOMAIN Machine : m \in Nat /\ m # Nothing /\ m # Outsider /\ Machine[m].ns \in Nat /\ Machine[m].ns # Nothing
    /\ \A h \in DOMAIN Hardware : h \in Nat /\ h # Nothing /\ h # Outsider /\ Hardware[h] \in Nat
    /\ Nothing # Outsider
    /\ DOMAIN Machine \in SUBSET Nat /\ IsFiniteSet(DOMAIN Machine)
    /\ DOMAIN Hardware \in SUBSET Nat /\ IsFiniteSet(DOMAIN Hardware)
BY HostsAssumption DEF Nothing, Outsider

(* What each rebuild lists: every object of its kind, by name, once.         *)
LEMMA ListsWhatThereIs ==
    /\ ProjectMachines \in Seq(ShownMachine) /\ ToSet(ProjectMachines) = {MachineOf(m) : m \in Kept}
    /\ \A i, j \in DOMAIN ProjectMachines : ProjectMachines[i].name = ProjectMachines[j].name => i = j
    /\ ToSet(ProjectMetal3Machines) =
         {ProviderOf(m) : m \in {m \in DOMAIN Machine : Machine[m].infra = Metal3MachineKind}}
    /\ ToSet(ProjectBareMetalHosts) = {HostOf(h) : h \in DOMAIN Hardware}
<1>1. ASSUME NEW S, NEW D \in SUBSET Nat, IsFiniteSet(D), ToldByName(S, D), \A a \in S : a.ns \in Nat
      PROVE  /\ ByName(S) \in Seq(S) /\ ToSet(ByName(S)) = S
             /\ \A i, j \in DOMAIN ByName(S) : ByName(S)[i].name = ByName(S)[j].name => i = j
  BY <1>1, ByNameOrders
<1>2. /\ ProjectMachines \in Seq(ShownMachine) /\ ToSet(ProjectMachines) = {MachineOf(m) : m \in Kept}
      /\ \A i, j \in DOMAIN ProjectMachines : ProjectMachines[i].name = ProjectMachines[j].name => i = j
  <2> DEFINE S == {MachineOf(m) : m \in Kept}
  <2>1. S \subseteq ShownMachine
    BY DEF ShownMachine, MachineOf, Kept
  <2>2. ToldByName(S, DOMAIN Machine) /\ \A a \in S : a.ns \in Nat
    BY NothingIsNoName DEF ToldByName, MachineOf, Kept
  <2> HIDE DEF S
  <2>3. /\ ByName(S) \in Seq(S) /\ ToSet(ByName(S)) = S
        /\ \A i, j \in DOMAIN ByName(S) : ByName(S)[i].name = ByName(S)[j].name => i = j
    BY <1>1, <2>2, NothingIsNoName
  <2>4. ProjectMachines = ByName(S)
    BY DEF ProjectMachines, S
  <2>5. ProjectMachines \in Seq(ShownMachine)
    BY <2>1, <2>3, <2>4
  <2> QED BY <2>3, <2>4, <2>5 DEF S
<1>3. ToSet(ProjectMetal3Machines) =
         {ProviderOf(m) : m \in {m \in DOMAIN Machine : Machine[m].infra = Metal3MachineKind}}
  <2> DEFINE S == {ProviderOf(m) : m \in {m \in DOMAIN Machine : Machine[m].infra = Metal3MachineKind}}
  <2>1. ToldByName(S, DOMAIN Machine) /\ \A a \in S : a.ns \in Nat
    BY NothingIsNoName DEF ToldByName, ProviderOf
  <2> HIDE DEF S
  <2>2. ToSet(ByName(S)) = S
    BY <1>1, <2>1, NothingIsNoName
  <2> QED BY <2>2 DEF S, ProjectMetal3Machines
<1>4. ToSet(ProjectBareMetalHosts) = {HostOf(h) : h \in DOMAIN Hardware}
  <2> DEFINE S == {HostOf(h) : h \in DOMAIN Hardware}
  <2>1. ToldByName(S, DOMAIN Hardware) /\ \A a \in S : a.ns \in Nat
    BY NothingIsNoName DEF ToldByName, HostOf
  <2> HIDE DEF S
  <2>2. ToSet(ByName(S)) = S
    BY <1>1, <2>1, NothingIsNoName
  <2> QED BY <2>2 DEF S, ProjectBareMetalHosts
<1> QED BY <1>2, <1>3, <1>4

LEMMA HostsHolds == HostsSpec => []HostsInv
<1> USE NothingIsNoName
<1>1. HostsInit => HostsInv
  <2> SUFFICES ASSUME HostsInit PROVE HostsInv
    OBVIOUS
  <2>1. HostsTyped /\ HeldAndMarked /\ MarkedAndHeld
    BY DEF HostsInit, HostsTyped, HeldAndMarked, MarkedAndHeld
  <2>2. machineList.items = <<>> /\ providerList.items = <<>> /\ hostList.items = <<>>
    BY DEF HostsInit, Unlisted
  <2>3. <<>> \in Seq(ShownMachine) /\ ToSet(<<>>) = {} /\ DOMAIN <<>> = {}
    BY DEF ToSet
  <2>4. ListsNamed
    BY <2>2, <2>3 DEF ListsNamed, MachinesListed, ToldByName
  <2> QED BY <2>1, <2>4 DEF HostsInv
<1>2. HostsInv /\ [HostsNext]_hostVars => HostsInv'
  <2> SUFFICES ASSUME HostsInv, [HostsNext]_hostVars PROVE HostsInv'
    OBVIOUS
  <2> USE DEF HostsInv
  <2>1. ASSUME UNCHANGED hostLists PROVE ListsNamed'
    BY <2>1 DEF ListsNamed, MachinesListed, ToldByName, hostLists
  <2>2. ASSUME UNCHANGED <<bound, annotated, consumer>>
        PROVE  HostsTyped' /\ HeldAndMarked' /\ MarkedAndHeld'
    BY <2>2 DEF HostsTyped, HeldAndMarked, MarkedAndHeld
  <2>3. ASSUME NEW m \in DOMAIN Machine, NEW h \in DOMAIN Hardware, Bind(m, h) PROVE HostsInv'
    <3>1. HostsTyped'
      BY <2>3 DEF Bind, HostsTyped
    <3>2. HeldAndMarked'
      BY <2>3 DEF Bind, Free, HostsTyped, HeldAndMarked, MarkedAndHeld
    <3>3. MarkedAndHeld'
      BY <2>3 DEF Bind, Free, HostsTyped, HeldAndMarked, MarkedAndHeld
    <3> QED BY <2>1, <2>3, <3>1, <3>2, <3>3 DEF Bind
  <2>4. ASSUME NEW m \in DOMAIN Machine, Mark(m) PROVE HostsInv'
    <3>1. HostsTyped'
      BY <2>4 DEF Mark, HostsTyped
    <3>2. HeldAndMarked'
      BY <2>4 DEF Mark, HostsTyped, HeldAndMarked, MarkedAndHeld
    <3>3. MarkedAndHeld'
      BY <2>4 DEF Mark, HostsTyped, HeldAndMarked, MarkedAndHeld
    <3> QED BY <2>1, <2>4, <3>1, <3>2, <3>3 DEF Mark
  <2>5. ASSUME NEW m \in DOMAIN Machine, Release(m) PROVE HostsInv'
    <3>1. HostsTyped'
      BY <2>5 DEF Release, HostsTyped
    <3>2. HeldAndMarked'
      BY <2>5 DEF Release, HostsTyped, HeldAndMarked, MarkedAndHeld
    <3>3. MarkedAndHeld'
      BY <2>5 DEF Release, HostsTyped, HeldAndMarked, MarkedAndHeld
    <3> QED BY <2>1, <2>5, <3>1, <3>2, <3>3 DEF Release
  <2>6. ASSUME NEW h \in DOMAIN Hardware, Take(h) PROVE HostsInv'
    <3>1. HostsTyped'
      BY <2>6 DEF Take, HostsTyped
    <3>2. HeldAndMarked'
      BY <2>6 DEF Take, Free, HostsTyped, HeldAndMarked
    <3>3. MarkedAndHeld'
      BY <2>6 DEF Take, HostsTyped, MarkedAndHeld
    <3> QED BY <2>1, <2>6, <3>1, <3>2, <3>3 DEF Take
  <2>7. CASE ListMachines
    <3>1. ListsNamed'
      BY <2>7, ListsWhatThereIs DEF ListMachines, Listed, ListsNamed, MachinesListed, ToldByName
    <3> QED BY <2>2, <2>7, <3>1 DEF ListMachines
  <2>8. CASE ListProviders
    <3>1. \A m \in DOMAIN Machine : ProviderOf(m).name = m
      BY DEF ProviderOf
    <3>2. \A p \in ToSet(ProjectMetal3Machines) : p.name \in DOMAIN Machine
      BY <3>1, ListsWhatThereIs
    <3>3. ListsNamed'
      BY <2>8, <3>2 DEF ListProviders, Listed, ListsNamed, MachinesListed, ToldByName
    <3> QED BY <2>2, <2>8, <3>3 DEF ListProviders
  <2>9. CASE ListHosts
    <3>1. \A h \in DOMAIN Hardware : HostOf(h).name = h
      BY DEF HostOf
    <3>2. ToldByName(ToSet(ProjectBareMetalHosts), DOMAIN Hardware)
      BY <3>1, ListsWhatThereIs DEF ToldByName
    <3>3. ListsNamed'
      BY <2>9, <3>2 DEF ListHosts, Listed, ListsNamed, MachinesListed, ToldByName
    <3> QED BY <2>2, <2>9, <3>3 DEF ListHosts
  <2>10. CASE UNCHANGED hostVars
    BY <2>1, <2>2, <2>10 DEF hostVars, hostLists
  <2> QED BY <2>3, <2>4, <2>5, <2>6, <2>7, <2>8, <2>9, <2>10 DEF HostsNext
<1> QED BY <1>1, <1>2, PTL DEF HostsSpec

(* With lists of the present, a machine's row shows the host it was given.   *)
LEMMA ShowsItsHost ==
    ASSUME HostsInv, NEW m \in DOMAIN Machine, NEW P, NEW H,
           P = {ProviderOf(n) : n \in {n \in DOMAIN Machine : Machine[n].infra = Metal3MachineKind}},
           H = {HostOf(h) : h \in DOMAIN Hardware}
    PROVE  HostFor(MachineOf(m), P, H).host = bound[m]
<1> USE NothingIsNoName
<1> DEFINE mine == {p \in P : /\ MachineOf(m).infra = Metal3MachineKind
                              /\ p.ns = MachineOf(m).ns /\ p.name = MachineOf(m).name}
           named == {h \in H : \E p \in mine :
                       p.host.name # Nothing /\ h.ns = p.host.ns /\ h.name = p.host.name}
           naming == {h \in H : \E p \in mine :
                       /\ h.consumer.kind = Metal3MachineKind /\ h.consumer.name = p.name
                       /\ p.ns = (IF h.consumer.ns = Nothing THEN h.ns ELSE h.consumer.ns)}
<1>1. HostFor(MachineOf(m), P, H).host = IF named # {} THEN Pick(named) ELSE Pick(naming)
  BY DEF HostFor
<1>2. mine = IF Machine[m].infra = Metal3MachineKind THEN {ProviderOf(m)} ELSE {}
  BY DEF ProviderOf, MachineOf
<1>3. /\ ProviderOf(m).name = m /\ ProviderOf(m).ns = Machine[m].ns
      /\ m \notin annotated => ProviderOf(m).host.name = Nothing
      /\ m \in annotated => ProviderOf(m).host.name = bound[m] /\ ProviderOf(m).host.ns = Hardware[bound[m]]
  BY DEF ProviderOf, BareMetalHostRef
<1>4. \A h \in DOMAIN Hardware :
        /\ HostOf(h).name = h /\ HostOf(h).ns = Hardware[h]
        /\ HostOf(h).consumer = ConsumerRef(h)
  BY DEF HostOf
<1>5. \A h \in DOMAIN Hardware : ConsumerRef(h).kind = Metal3MachineKind /\ ConsumerRef(h).name = m => consumer[h] = m
  BY DEF HostsInv, HostsTyped, ConsumerRef, Metal3MachineKind
<1>6. \A h \in DOMAIN Hardware : consumer[h] = m =>
        /\ ConsumerRef(h).kind = Metal3MachineKind /\ ConsumerRef(h).name = m
        /\ Machine[m].ns = (IF ConsumerRef(h).ns = Nothing THEN Hardware[h] ELSE ConsumerRef(h).ns)
  BY DEF HostsInv, HostsTyped, ConsumerRef
<1> HIDE DEF mine
<1>7. \A h \in named : h.name = bound[m]
  BY <1>2, <1>3 DEF HostsInv, MarkedAndHeld
<1>8. \A h \in naming : h.name = bound[m]
  BY <1>2, <1>3, <1>4, <1>5 DEF HostsInv, MarkedAndHeld
<1>9. bound[m] # Nothing => named \cup naming # {}
  <2> SUFFICES ASSUME bound[m] # Nothing PROVE HostOf(bound[m]) \in named \cup naming
    OBVIOUS
  <2>1. /\ bound[m] \in DOMAIN Hardware /\ Machine[m].infra = Metal3MachineKind
        /\ m \in annotated \/ consumer[bound[m]] = m
    BY DEF HostsInv, HostsTyped, HeldAndMarked
  <2>2. HostOf(bound[m]) \in H /\ ProviderOf(m) \in mine
    BY <1>2, <2>1
  <2>3. CASE m \in annotated
    BY <1>3, <1>4, <2>1, <2>2, <2>3
  <2>4. CASE consumer[bound[m]] = m
    BY <1>3, <1>4, <1>6, <2>1, <2>2, <2>4
  <2> QED BY <2>1, <2>3, <2>4
<1>10. named \cup naming # {} => bound[m] # Nothing
  <2>1. \A h \in named \cup naming : h.name # Nothing
    BY <1>4
  <2> QED BY <1>7, <1>8, <2>1
<1> HIDE DEF named, naming
<1> QED BY <1>1, <1>7, <1>8, <1>9, <1>10 DEF Pick

(* And the hosts nobody claims are the free ones.                            *)
LEMMA UnclaimedAreFree ==
    ASSUME HostsInv, NEW P, NEW H,
           P = {ProviderOf(n) : n \in {n \in DOMAIN Machine : Machine[n].infra = Metal3MachineKind}},
           H = {HostOf(h) : h \in DOMAIN Hardware}
    PROVE  {h.name : h \in UnclaimedHosts(P, H)} = {h \in DOMAIN Hardware : Free(h)}
<1> USE NothingIsNoName
<1>1. \A h \in DOMAIN Hardware :
        /\ HostOf(h).name = h /\ HostOf(h).ns = Hardware[h]
        /\ HostOf(h).consumer.name = Nothing <=> consumer[h] = Nothing
  BY DEF HostOf, ConsumerRef, HostsInv, HostsTyped
<1>2. ASSUME NEW h \in DOMAIN Hardware, consumer[h] = Nothing
      PROVE  (\A p \in P : <<p.host.ns, p.host.name>> # <<Hardware[h], h>>) <=> Free(h)
  <2>1. ASSUME NEW m \in DOMAIN Machine, bound[m] = h
        PROVE  ProviderOf(m) \in P /\ ProviderOf(m).host.ns = Hardware[h] /\ ProviderOf(m).host.name = h
    BY <1>2, <2>1 DEF HostsInv, HeldAndMarked, ProviderOf, BareMetalHostRef
  <2>2. ASSUME NEW p \in P, p.host.name = h PROVE \E m \in DOMAIN Machine : bound[m] = h
    BY <2>2 DEF ProviderOf, BareMetalHostRef
  <2> QED BY <1>2, <2>1, <2>2 DEF Free
<1>3. \A h \in DOMAIN Hardware : HostOf(h) \in UnclaimedHosts(P, H) <=> Free(h)
  BY <1>1, <1>2 DEF UnclaimedHosts, Free
<1>4. UnclaimedHosts(P, H) \subseteq {HostOf(h) : h \in DOMAIN Hardware}
  BY DEF UnclaimedHosts
<1>5. ASSUME NEW x \in UnclaimedHosts(P, H) PROVE x.name \in {h \in DOMAIN Hardware : Free(h)}
  BY <1>1, <1>3, <1>4
<1>6. ASSUME NEW h \in DOMAIN Hardware, Free(h)
      PROVE  \E x \in UnclaimedHosts(P, H) : x.name = h
  BY <1>1, <1>3, <1>6
<1> QED BY <1>5, <1>6

(* A host a row of the Machines pane shows is never offered as spare, each   *)
(* machine listed has one row, and none that has settled is above one on its *)
(* way, however far apart the moments of the three lists; with lists of the  *)
(* present, rows show the hosts their machines were given and the spare ones *)
(* are those nobody holds (Join, UnclaimedHosts).                            *)
THEOREM OffersOnlySpares == HostsSpec => []SpareIsSpare
<1>1. HostsInv => SpareIsSpare
  <2> SUFFICES ASSUME HostsInv PROVE SpareIsSpare
    OBVIOUS
  <2> DEFINE items == machineList.items
             P == ToSet(providerList.items)
             H == ToSet(hostList.items)
             joined == Join(ToSet(items), P, H)
  <2>1. /\ items \in Seq(ShownMachine)
        /\ \A i, j \in DOMAIN items : items[i].name = items[j].name => i = j
        /\ \A p \in P : p.name \in DOMAIN Machine
        /\ ToldByName(H, DOMAIN Hardware)
    BY DEF HostsInv, ListsNamed, MachinesListed
  <2>2. /\ Len(joined) = Len(items) /\ DOMAIN joined = 1 .. Len(items)
        /\ ToSet(joined) = {RowOf(m, P, H) : m \in ToSet(items)}
        /\ \A i, j \in DOMAIN joined : i < j => joined[i].rank <= joined[j].rank
    <3> HIDE DEF P, H, items
    <3> QED BY <2>1, RowsInOrder DEF joined
  <2>3. /\ Pane.rows = IF items = <<>> THEN <<>> ELSE joined
        /\ Pane.spare = IF items = <<>> THEN {} ELSE {h.name : h \in UnclaimedHosts(P, H)}
    BY DEF Pane
  <2>4. Pane.spare \cap {r.host : r \in ToSet(Pane.rows)} = {}
    <3>1. \A m : RowOf(m, P, H).host \notin {h.name : h \in UnclaimedHosts(P, H)}
      <4> HIDE DEF P, H
      <4> QED BY <2>1, ShownIsClaimed
    <3> HIDE DEF P, H, joined, items
    <3> QED BY <2>2, <2>3, <3>1
  <2>5. /\ Len(Pane.rows) = Len(machineList.items)
        /\ \A i, j \in DOMAIN Pane.rows : i < j => Pane.rows[i].rank <= Pane.rows[j].rank
    <3> HIDE DEF P, H, joined
    <3> QED BY <2>2, <2>3
  <2>6. ASSUME AreCurrent, ToSet(Pane.rows) # {}
        PROVE  /\ Pane.spare = {h \in DOMAIN Hardware : Free(h)}
               /\ {<<r.name, r.host>> : r \in ToSet(Pane.rows)} =
                    {<<m, bound[m]>> : m \in {m \in DOMAIN Machine :
                         ~Narrowed \/ Machine[m].cluster \in OfCluster \cup {"none"}}}
               /\ JoinRow.unclaimed = Cardinality(Pane.spare)
    <3>1. /\ ToSet(items) = {MachineOf(m) : m \in Kept}
          /\ P = {ProviderOf(n) : n \in {n \in DOMAIN Machine : Machine[n].infra = Metal3MachineKind}}
          /\ H = {HostOf(h) : h \in DOMAIN Hardware}
      BY <2>6, ListsWhatThereIs DEF AreCurrent, Listed
    <3>2. items # <<>>
      <4> HIDE DEF P, H, joined
      <4>1. ToSet(<<>>) = {}
        BY DEF ToSet
      <4> QED BY <2>3, <2>6, <4>1
    <3>3. JoinRow.unclaimed = Cardinality(UnclaimedHosts(P, H))
      BY DEF JoinRow
    <3> HIDE DEF P, H, joined, items
    <3>4. Pane.spare = {h \in DOMAIN Hardware : Free(h)}
      BY <2>3, <3>1, <3>2, UnclaimedAreFree
    <3>5. {<<r.name, r.host>> : r \in ToSet(Pane.rows)} = {<<m, bound[m]>> : m \in Kept}
      <4>1. ASSUME NEW m \in Kept
            PROVE  RowOf(MachineOf(m), P, H).name = m /\ RowOf(MachineOf(m), P, H).host = bound[m]
        <5>1. m \in DOMAIN Machine
          BY DEF Kept
        <5>2. HostFor(MachineOf(m), P, H).host = bound[m]
          BY <3>1, <5>1, ShowsItsHost
        <5>3. MachineOf(m).name = m
          BY DEF MachineOf
        <5> QED BY <5>2, <5>3 DEF RowOf
      <4>2. ToSet(Pane.rows) = {RowOf(MachineOf(m), P, H) : m \in Kept}
        <5>1. ToSet(Pane.rows) = {RowOf(x, P, H) : x \in ToSet(items)}
          BY <2>2, <2>3, <3>2
        <5>2. PICK S : S = ToSet(items)
          OBVIOUS
        <5>3. {RowOf(x, P, H) : x \in S} = {RowOf(MachineOf(m), P, H) : m \in Kept}
          BY <3>1, <5>2
        <5> QED BY <5>1, <5>2, <5>3
      <4> QED BY <4>1, <4>2
    <3>6. Cardinality(UnclaimedHosts(P, H)) = Cardinality(Pane.spare)
      <4>1. ToldByName(UnclaimedHosts(P, H), DOMAIN Hardware) /\ IsFiniteSet(DOMAIN Hardware)
        BY <2>1, NothingIsNoName DEF UnclaimedHosts, ToldByName
      <4>2. Cardinality(UnclaimedHosts(P, H)) = Cardinality({h.name : h \in UnclaimedHosts(P, H)})
        BY <4>1, AsManyAsNames
      <4> QED BY <2>3, <3>2, <4>2
    <3> QED BY <3>3, <3>4, <3>5, <3>6 DEF Kept
  <2> QED BY <2>4, <2>5, <2>6 DEF SpareIsSpare
<1> QED BY <1>1, HostsHolds, PTL

-------------------------------------------------------------------------------
(* The terminal's list.                                                    *)

(* What the list may have rows of, and when one comes before another. *)
Views == [of : Named, status : Statuses]
WorseIn(S) == {p \in S \X S : Worse(p[1], p[2])}

LEMMA WorseOrders ==
    ASSUME NEW S \in SUBSET Views
    PROVE  StrictOrder(S, WorseIn(S)) /\ \A a, b \in S : <<a, b>> \in WorseIn(S) <=> Worse(a, b)
<1>1. \A a \in S : a.of.at \in Nat /\ a.status \in Nat /\ a.of \in Named
  BY ListAssumption DEF Views, Statuses
<1>2. \A a, b \in S : a.of = b.of /\ a.status = b.status => a = b
  BY DEF Views
<1>3. \A a, b \in S : a.of.at = b.of.at => a.of = b.of
  BY <1>1, ListAssumption
<1>4. \A a, b \in S : <<a, b>> \in WorseIn(S) <=> Worse(a, b)
  BY DEF WorseIn
<1>5. \A a \in S : ~Worse(a, a)
  BY <1>1 DEF Worse
<1>6. \A a, b \in S : a # b => Worse(a, b) \/ Worse(b, a)
  BY <1>1, <1>2, <1>3 DEF Worse
<1>7. \A a, b, c \in S : Worse(a, b) /\ Worse(b, c) => Worse(a, c)
  BY <1>1 DEF Worse
<1> QED BY <1>4, <1>5, <1>6, <1>7 DEF StrictOrder

(* Views are finitely many. *)
LEMMA ViewsAreFinite == IsFiniteSet(Views)
<1>1. IsFiniteSet(Named \X Statuses)
  <2>1. IsFiniteSet(1 .. 2)
    <3>1. 1 \in Int /\ 2 \in Int
      OBVIOUS
    <3> QED BY <3>1, FS_Interval, Zenon
  <2> QED BY <2>1, ListAssumption, FS_Product DEF Statuses
<1> DEFINE f == [p \in Named \X Statuses |-> [of |-> p[1], status |-> p[2]]]
<1>2. f \in Surjection(Named \X Statuses, Views)
  <2>1. \A v \in Views : v.of \in Named /\ v.status \in Statuses /\ v = [of |-> v.of, status |-> v.status]
    BY DEF Views
  <2>2. \A v \in Views : <<v.of, v.status>> \in Named \X Statuses /\ f[<<v.of, v.status>>] = v
    BY <2>1
  <2>3. f \in [Named \X Statuses -> Views]
    BY DEF Views
  <2> HIDE DEF f
  <2> QED BY <2>2, <2>3 DEF Surjection
<1> QED BY <1>1, <1>2, FS_Surjection

(* Sorting either way keeps every row, once each. *)
LEMMA SortKeeps ==
    ASSUME NEW S \in SUBSET Views, NEW b \in BOOLEAN
    PROVE  LET s == SortClusters(S, b)
           IN /\ s \in Seq(S) /\ ToSet(s) = S
              /\ \A i, j \in DOMAIN s : s[i] = s[j] => i = j
<1> DEFINE N == Cardinality(S)
           R == WorseIn(S)
           t == SortedBy(S, R)
           s == SortClusters(S, b)
<1>1. IsFiniteSet(S)
  BY ViewsAreFinite, FS_Subset
<1>2. StrictOrder(S, R) /\ \A x, y \in S : <<x, y>> \in R <=> Worse(x, y)
  BY WorseOrders
<1>3. /\ t \in [1 .. N -> S] /\ N \in Nat
      /\ \A a \in S : \E i \in 1 .. N : t[i] = a
      /\ \A i, j \in 1 .. N : i < j => <<t[i], t[j]>> \in R
  BY <1>1, <1>2, SortedByOrder
<1>4. t = [i \in 1 .. N |-> CHOOSE a \in S : Cardinality({c \in S : ~Worse(a, c)}) = i]
  <2> HIDE DEF N, R
  <2>1. \A a \in S : {c \in S : <<a, c>> \notin R} = {c \in S : ~Worse(a, c)}
    BY <1>2
  <2> DEFINE A(i) == CHOOSE a \in S : Cardinality({c \in S : <<a, c>> \notin R}) = i
             B(i) == CHOOSE a \in S : Cardinality({c \in S : ~Worse(a, c)}) = i
  <2>2. \A i : A(i) = B(i)
    BY <2>1
  <2>3. t = [i \in 1 .. N |-> A(i)]
    BY DEF SortedBy, N
  <2> HIDE DEF A, B, t
  <2>4. t = [i \in 1 .. N |-> B(i)]
    BY <2>2, <2>3
  <2> QED BY <2>4 DEF B
<1>5. s = IF b THEN Reverse(t) ELSE t
  BY <1>4 DEF SortClusters
<1> HIDE DEF t, s, N, R
<1>6. \A i, j \in 1 .. N : t[i] = t[j] => i = j
  <2> SUFFICES ASSUME NEW i \in 1 .. N, NEW j \in 1 .. N, t[i] = t[j], i # j PROVE FALSE
    OBVIOUS
  <2>1. t[i] \in S /\ t[j] \in S /\ (i < j \/ j < i)
    BY <1>3
  <2> QED BY <1>2, <1>3, <2>1 DEF StrictOrder
<1>7. t \in Seq(S) /\ Len(t) = N /\ DOMAIN t = 1 .. N
  BY <1>3
<1>8. CASE ~b
  <2>1. ToSet(t) = S
    BY <1>3, <1>7 DEF ToSet
  <2> QED BY <1>5, <1>6, <1>7, <1>8, <2>1 DEF s
<1>9. CASE b
  <2> DEFINE r == [i \in 1 .. N |-> t[(N - i) + 1]]
  <2>1. s = r
    BY <1>5, <1>7, <1>9 DEF Reverse
  <2>2. \A i \in 1 .. N : (N - i) + 1 \in 1 .. N
    BY <1>3
  <2>3. r \in [1 .. N -> S]
    BY <1>3, <2>2
  <2>4. r \in Seq(S) /\ DOMAIN r = 1 .. N
    BY <1>3, <2>3
  <2>5. ASSUME NEW i \in 1 .. N, NEW j \in 1 .. N, r[i] = r[j] PROVE i = j
    <3>1. (N - i) + 1 = (N - j) + 1
      BY <1>6, <2>2, <2>5
    <3> QED BY <1>3, <3>1
  <2>6. ASSUME NEW a \in S PROVE \E i \in 1 .. N : r[i] = a
    <3>1. PICK k \in 1 .. N : t[k] = a
      BY <1>3
    <3>2. (N - k) + 1 \in 1 .. N /\ (N - ((N - k) + 1)) + 1 = k
      BY <1>3
    <3>3. r[(N - k) + 1] = t[k]
      BY <3>2
    <3> QED BY <3>1, <3>2, <3>3
  <2> HIDE DEF r
  <2>7. ToSet(r) = S
    BY <2>3, <2>4, <2>6 DEF ToSet
  <2> QED BY <2>1, <2>4, <2>5, <2>7 DEF s
<1> QED BY <1>8, <1>9

(* A filtered list is a sequence; of rows of which none is there twice it    *)
(* has as many as match, in whichever order they are.                        *)
Matching(S, filter) == {v \in S : Occurs(v.of.name, filter)}

LEMMA FilteredIs ==
    ASSUME NEW list \in Seq(Views), \A i, j \in DOMAIN list : list[i] = list[j] => i = j, NEW filter
    PROVE  /\ Len(Filtered(list, filter)) = Cardinality(Matching(ToSet(list), filter))
           /\ Cardinality(Matching(ToSet(list), filter)) \in Nat
           /\ \E T : Filtered(list, filter) \in Seq(T)
<1> DEFINE kept == {i \in DOMAIN list : Occurs(list[i].of.name, filter)}
           At(k) == CHOOSE i \in kept : Cardinality({j \in kept : j <= i}) = k
           n == Cardinality(kept)
           M == Matching(ToSet(list), filter)
           g == [i \in kept |-> list[i]]
<1>1. Len(list) \in Nat /\ DOMAIN list = 1 .. Len(list)
  OBVIOUS
<1>2. IsFiniteSet(kept) /\ n \in Nat
  <2>1. IsFiniteSet(1 .. Len(list))
    BY <1>1, FS_Interval
  <2>2. kept \subseteq 1 .. Len(list)
    BY <1>1
  <2> HIDE DEF kept
  <2> QED BY <2>1, <2>2, FS_Subset, FS_CardinalityType
<1>3. g \in Bijection(kept, M)
  <2>1. g \in [kept -> M]
    BY DEF Matching, ToSet
  <2>2. \A i, j \in kept : g[i] = g[j] => i = j
    OBVIOUS
  <2>3. \A v \in M : \E i \in kept : g[i] = v
    BY DEF Matching, ToSet
  <2> HIDE DEF g, kept, M
  <2> QED BY <2>1, <2>2, <2>3 DEF Bijection, Injection, Surjection, IsInjective
<1>4. Cardinality(M) = n
  <2> HIDE DEF g, kept, M
  <2> QED BY <1>2, <1>3, FS_Bijection DEF ExistsBijection
<1>5. Filtered(list, filter) = [k \in 1 .. n |-> list[At(k)]]
  BY DEF Filtered
<1> HIDE DEF kept, At, M
<1>6. Filtered(list, filter) \in Seq({list[At(k)] : k \in 1 .. n}) /\ Len(Filtered(list, filter)) = n
  <2> DEFINE s == [k \in 1 .. n |-> list[At(k)]]
             T == {list[At(k)] : k \in 1 .. n}
  <2>1. s \in [1 .. n -> T]
    OBVIOUS
  <2> HIDE DEF s, T, n
  <2>2. s \in Seq(T) /\ Len(s) = n
    BY <1>2, <2>1
  <2> QED BY <1>5, <2>2 DEF s, T
<1> QED BY <1>2, <1>4, <1>6 DEF M

(* What makes CursorIsOnScreen inductive: no cluster is listed twice, so     *)
(* that sorting the other way leaves as many to be shown.                    *)
ListInv ==
    /\ rows \in Seq(Views) /\ \A i, j \in DOMAIN rows : rows[i] = rows[j] => i = j
    /\ cursor \in Nat /\ stale \in BOOLEAN /\ typing \in BOOLEAN /\ reversed \in BOOLEAN
    /\ height \in Nat
    /\ cursor < Len(Filtered(rows, typed)) \/ Len(Filtered(rows, typed)) = 0

(* A clamped cursor is a place in the list, if it has any. *)
LEMMA ClampedIs ==
    ASSUME NEW at \in Nat, NEW list, Len(list) \in Nat
    PROVE  Clamped(at, list) \in Nat /\ (Clamped(at, list) < Len(list) \/ Len(list) = 0)
<1> DEFINE n == Len(list)
           S == {n - 1, 0}
<1>1. n \in Nat /\ Clamped(at, list) = IF at >= n THEN Max(S) ELSE at
  BY DEF Clamped
<1>2. n # 0 => Max(S) = n - 1
  <2> SUFFICES ASSUME n # 0 PROVE Max(S) = n - 1
    OBVIOUS
  <2>1. n - 1 \in S /\ \A x \in S : n - 1 >= x
    BY <1>1
  <2>2. Max(S) \in S /\ \A x \in S : Max(S) >= x
    BY <2>1 DEF Max
  <2> HIDE DEF n
  <2>3. Max(S) \in Int /\ n - 1 \in Int /\ Max(S) >= n - 1 /\ n - 1 >= Max(S)
    BY <1>1, <2>1, <2>2
  <2> HIDE DEF S
  <2> QED BY <2>3
<1>3. n = 0 => Max(S) = 0
  <2> SUFFICES ASSUME n = 0 PROVE Max(S) = 0
    OBVIOUS
  <2>1. 0 \in S /\ \A x \in S : 0 >= x
    BY <1>1
  <2>2. Max(S) \in S /\ \A x \in S : Max(S) >= x
    BY <2>1 DEF Max
  <2> QED BY <1>1, <2>2
<1> HIDE DEF S, n
<1> QED BY <1>1, <1>2, <1>3 DEF n

(* Every step of the list keeps ListInv. *)
LEMMA ListInvHolds == ListSpec => []ListInv
<1>1. ListInit => ListInv
  <2> SUFFICES ASSUME ListInit PROVE ListInv
    OBVIOUS
  <2>1. rows = <<>> /\ ToSet(rows) = {} /\ rows \in Seq(Views)
    BY DEF ListInit, ToSet
  <2>2. \A i, j \in DOMAIN rows : rows[i] = rows[j] => i = j
    BY <2>1
  <2>3. Matching({}, typed) = {}
    BY DEF Matching
  <2>4. Len(Filtered(rows, typed)) = 0
    BY <2>1, <2>2, <2>3, FilteredIs, FS_EmptySet
  <2> QED BY <2>1, <2>2, <2>4 DEF ListInit, ListInv
<1>2. ListInv /\ [ListNext]_listVars => ListInv'
  <2> SUFFICES ASSUME ListInv, [ListNext]_listVars PROVE ListInv'
    OBVIOUS
  <2>1. \A list \in Seq(Views) : \A filter :
          (\A i, j \in DOMAIN list : list[i] = list[j] => i = j) => Len(Filtered(list, filter)) \in Nat
    BY FilteredIs
  <2>2. CASE ListUpdate
    <3>0. PICK known \in SUBSET Named, problem \in BOOLEAN : \E status \in [known -> Statuses] :
            /\ rows' = SortClusters({[of |-> n, status |-> status[n]] : n \in known}, reversed)
            /\ stale' = problem
            /\ cursor' = Clamped(cursor, Filtered(rows', typed))
            /\ UNCHANGED <<typed, typing, reversed, height>>
      BY <2>2, Zenon DEF ListUpdate
    <3>1. PICK status \in [known -> Statuses] :
            /\ rows' = SortClusters({[of |-> n, status |-> status[n]] : n \in known}, reversed)
            /\ stale' = problem
            /\ cursor' = Clamped(cursor, Filtered(rows', typed))
            /\ UNCHANGED <<typed, typing, reversed, height>>
      BY <3>0, Zenon
    <3>2. {[of |-> n, status |-> status[n]] : n \in known} \in SUBSET Views
      BY DEF Views
    <3>3. rows' \in Seq(Views) /\ \A i, j \in DOMAIN rows' : rows'[i] = rows'[j] => i = j
      <4> DEFINE S == {[of |-> n, status |-> status[n]] : n \in known}
      <4>1. rows' \in Seq(S) /\ \A i, j \in DOMAIN rows' : rows'[i] = rows'[j] => i = j
        <5> HIDE DEF S
        <5>1. S \in SUBSET Views /\ rows' = SortClusters(S, reversed)
          BY <3>1, <3>2 DEF S
        <5> QED BY <5>1, SortKeeps DEF ListInv
      <4> QED BY <3>2, <4>1
    <3>4. PICK list : list = Filtered(rows', typed)
      OBVIOUS
    <3>5. Len(list) \in Nat
      BY <2>1, <3>3, <3>4
    <3>6. cursor' \in Nat /\ (cursor' < Len(list) \/ Len(list) = 0)
      BY <3>1, <3>4, <3>5, ClampedIs DEF ListInv
    <3> QED BY <3>1, <3>3, <3>4, <3>6 DEF ListInv
  <2>3. CASE ResizeList
    BY <2>3, ListAssumption DEF ResizeList, ListInv
  <2>4. CASE Move
    <3>1. Len(Filtered(rows, typed)) \in Nat
      BY <2>1 DEF ListInv
    <3> QED BY <2>4, <3>1 DEF Move, ListInv
  <2>5. CASE ReverseRows
    <3>1. /\ reversed' \in BOOLEAN /\ rows' = SortClusters(ToSet(rows), reversed')
          /\ UNCHANGED <<stale, cursor, typed, typing, height>>
      BY <2>5 DEF ReverseRows, ListInv
    <3>2. ToSet(rows) \in SUBSET Views
      BY DEF ListInv, ToSet
    <3>3. /\ rows' \in Seq(ToSet(rows)) /\ ToSet(rows') = ToSet(rows)
          /\ \A i, j \in DOMAIN rows' : rows'[i] = rows'[j] => i = j
      <4>1. PICK b \in BOOLEAN : b = reversed'
        BY <3>1
      <4>2. rows' = SortClusters(ToSet(rows), b)
        BY <3>1, <4>1
      <4> QED BY <3>2, <4>2, SortKeeps
    <3>4. rows' \in Seq(Views)
      BY <3>2, <3>3
    <3>5. /\ Len(Filtered(rows, typed)) = Cardinality(Matching(ToSet(rows), typed))
      BY FilteredIs DEF ListInv
    <3>6. Len(Filtered(rows', typed)) = Cardinality(Matching(ToSet(rows), typed))
      <4>1. PICK r, S : r = rows' /\ S = ToSet(rows)
        OBVIOUS
      <4>2. r \in Seq(Views) /\ ToSet(r) = S /\ \A i, j \in DOMAIN r : r[i] = r[j] => i = j
        BY <3>3, <3>4, <4>1
      <4>3. Len(Filtered(r, typed)) = Cardinality(Matching(S, typed))
        BY <4>2, FilteredIs
      <4> QED BY <4>1, <4>3
    <3> QED BY <3>1, <3>3, <3>4, <3>5, <3>6 DEF ListInv
  <2>6. CASE OpenFilter
    BY <2>6 DEF OpenFilter, ListInv
  <2>7. ASSUME NEW filter, NEW open \in BOOLEAN, SetFilter(filter, open) PROVE ListInv'
    <3>1. /\ typed' = filter /\ typing' = open /\ cursor' = Clamped(cursor, Filtered(rows, filter))
          /\ UNCHANGED <<rows, stale, reversed, height>>
      BY <2>7 DEF SetFilter
    <3>2. Len(Filtered(rows, filter)) \in Nat
      BY <2>1 DEF ListInv
    <3>3. cursor' \in Nat /\ (cursor' < Len(Filtered(rows, filter)) \/ Len(Filtered(rows, filter)) = 0)
      BY <3>1, <3>2, ClampedIs DEF ListInv
    <3> QED BY <3>1, <3>3 DEF ListInv
  <2>8. CASE HandleFilterKey
    BY <2>7, <2>8 DEF HandleFilterKey
  <2>9. CASE UNCHANGED listVars
    BY <2>9 DEF listVars, ListInv
  <2> QED BY <2>2, <2>3, <2>4, <2>5, <2>6, <2>8, <2>9 DEF ListNext
<1> QED BY <1>1, <1>2, PTL DEF ListSpec

(* CursorIsOnScreen, for any clusters, letters and sizes of the terminal:    *)
(* the cursor is on a row there is, which is on the screen, and the screen   *)
(* is no taller than the terminal.                                           *)
THEOREM KeepsTheCursor == ListSpec => []CursorIsOnScreen
<1>1. \A x, y \in Int : /\ Max({x, y}) = IF x >= y THEN x ELSE y
                        /\ Min({x, y}) = IF x <= y THEN x ELSE y
  <2> TAKE x, y \in Int
  <2>1. \E z \in {x, y} : \A w \in {x, y} : z >= w
    OBVIOUS
  <2>2. \E z \in {x, y} : \A w \in {x, y} : z <= w
    OBVIOUS
  <2>3. Max({x, y}) \in {x, y} /\ \A w \in {x, y} : Max({x, y}) >= w
    BY <2>1, Zenon DEF Max
  <2>4. Min({x, y}) \in {x, y} /\ \A w \in {x, y} : Min({x, y}) <= w
    BY <2>2, Zenon DEF Min
  <2>5. Max({x, y}) = IF x >= y THEN x ELSE y
    BY <2>3
  <2>6. Min({x, y}) = IF x <= y THEN x ELSE y
    BY <2>4
  <2> QED BY <2>5, <2>6
<1>2. ASSUME ListInv PROVE CursorIsOnScreen
  <2> DEFINE list == Filtered(rows, typed)
             n == Len(list)
             room == Max({height - 4, 1})
             end == Min({cursor + room, n})
             start == Max({0, end - room})
  <2>1. n \in Nat /\ (n = 0 <=> list = <<>>) /\ \E T : list \in Seq(T)
    <3>1. n \in Nat /\ \E T : list \in Seq(T)
      BY <1>2, FilteredIs DEF ListInv
    <3> HIDE DEF list
    <3>2. PICK T : list \in Seq(T)
      BY <3>1
    <3> QED BY <3>1, <3>2
  <2>2. /\ Body.says = IF list # <<>> THEN "rows" ELSE IF stale THEN "problem"
                       ELSE IF typed # <<>> THEN "unmatched" ELSE "waiting"
        /\ Body.from = start /\ Body.rows = SubSeq(list, start + 1, end)
        /\ Body.lines = IF list = <<>> THEN 1 ELSE end - start + 1 + (IF stale THEN 1 ELSE 0)
    BY DEF Body
  <2> HIDE DEF list, n
  <2>3. cursor \in Nat /\ height \in Nat /\ (cursor < n \/ n = 0) /\ stale \in BOOLEAN /\ typing \in BOOLEAN
    BY <1>2 DEF ListInv, list, n
  <2>4. room \in Nat /\ room >= 1 /\ (height >= 5 => room = height - 4)
    BY <1>1, <2>3
  <2> HIDE DEF room
  <2>5. end = IF cursor + room <= n THEN cursor + room ELSE n
    <3>1. cursor + room \in Int /\ n \in Int
      BY <2>1, <2>3, <2>4
    <3> QED BY <1>1, <3>1
  <2> HIDE DEF end
  <2>6. start = IF 0 >= end - room THEN 0 ELSE end - room
    <3>1. 0 \in Int /\ end - room \in Int
      BY <2>1, <2>3, <2>4, <2>5
    <3> QED BY <1>1, <3>1
  <2> HIDE DEF start
  <2>7. /\ start \in Nat /\ end \in Nat /\ end - start <= room /\ end <= n
        /\ list # <<>> => cursor < n /\ start <= cursor /\ cursor < end
    BY <2>1, <2>3, <2>4, <2>5, <2>6
  <2>8. ASSUME list # <<>>
        PROVE  /\ cursor < n
               /\ Body.from <= cursor /\ cursor < Body.from + Len(Body.rows)
               /\ Body.rows[cursor - Body.from + 1] = list[cursor + 1]
    <3>1. PICK T : list \in Seq(T)
      BY <2>1
    <3>2. n = Len(list)
      BY DEF n
    <3>3. start < end /\ cursor < n /\ start <= cursor /\ cursor < end
      BY <2>3, <2>7, <2>8
    <3>4. PICK part : part = SubSeq(list, start + 1, end)
      OBVIOUS
    <3>5. Len(part) = end - start
      BY <2>1, <2>7, <3>1, <3>2, <3>3, <3>4
    <3>6. cursor - start + 1 \in 1 .. (end - start) /\ (start + 1) + (cursor - start + 1) - 1 = cursor + 1
      BY <2>3, <2>7, <3>3
    <3>7. part[cursor - start + 1] = list[(start + 1) + (cursor - start + 1) - 1]
      <4>1. PICK k \in Nat : k = cursor - start + 1 /\ k \in 1 .. (end - start)
        BY <3>6
      <4>2. part[k] = list[(start + 1) + k - 1]
        BY <2>1, <2>7, <3>1, <3>2, <3>3, <3>4, <4>1
      <4> QED BY <4>1, <4>2
    <3> QED BY <2>2, <2>3, <2>7, <3>3, <3>4, <3>5, <3>6, <3>7
  <2>9. list = <<>> <=> Body.says # "rows"
    BY <2>2
  <2>10. ASSUME height >= 5, ~(stale /\ typing) PROVE Screen <= height
    <3>1. Screen = 1 + Body.lines + (IF typing THEN 1 ELSE 0) + 1
      BY DEF Screen
    <3> QED BY <2>2, <2>3, <2>4, <2>7, <2>10, <3>1
  <2> QED BY <2>8, <2>9, <2>10 DEF CursorIsOnScreen, list, n
<1> QED BY <1>2, ListInvHolds, PTL

-------------------------------------------------------------------------------
(* The feed of the fleet, which the watcher's rows are a part of.           *)

(* Every step of the stores, the relays and the streams keeps the type of    *)
(* the state; only a stream that renders has clusters left to read.          *)
THEOREM FeedTypeCorrect == FeedSafeSpec => []FeedTypeOK
<1>1. FeedInit => FeedTypeOK
  <2> SUFFICES ASSUME FeedInit PROVE FeedTypeOK
    OBVIOUS
  <2>1. 0 \in Version
    BY FleetFeedAssumption DEF Version
  <2>2. page \in [Stream -> [Cluster -> Version]]
    BY <2>1 DEF FeedInit
  <2>3. subscribed \in [Cluster -> BOOLEAN] /\ tick \in [Cluster -> BOOLEAN]
    BY Zenon DEF FeedInit
  <2> QED
    BY <2>1, <2>2, <2>3 DEF FeedInit, FeedTypeOK
<1>2. FeedTypeOK /\ [FeedNext]_feedVars => FeedTypeOK'
  <2> SUFFICES ASSUME FeedTypeOK, [FeedNext]_feedVars
               PROVE  FeedTypeOK'
    OBVIOUS
  <2> USE FleetFeedAssumption DEF FeedTypeOK, Version, store, stream
  <2>1. ASSUME NEW c \in Cluster, FeedPut(c) \/ Subscribe(c)
        PROVE  FeedTypeOK'
    <3>1. CASE FeedPut(c)
      <4>1. version' \in [Cluster -> Version]
        BY <3>1 DEF FeedPut
      <4>2. tick' \in [Cluster -> BOOLEAN]
        BY <3>1 DEF FeedPut
      <4> QED
        BY <3>1, <4>1, <4>2 DEF FeedPut
    <3>2. CASE Subscribe(c)
      <4>1. subscribed' \in [Cluster -> BOOLEAN]
        BY <3>2 DEF Subscribe
      <4> QED
        BY <3>2, <4>1 DEF Subscribe
    <3> QED
      BY <2>1, <3>1, <3>2
  <2>2. ASSUME NEW c \in Cluster, Relay(c) \/ WindowPasses(c)
        PROVE  FeedTypeOK'
    BY <2>2 DEF Relay, WindowPasses, Notify
  <2>3. CASE Rediscover
    BY <2>3 DEF Rediscover, Notify
  <2>4. ASSUME NEW s \in Stream, Open(s) \/ Receive(s)
        PROVE  FeedTypeOK'
    BY <2>4 DEF Open, Receive
  <2>5. ASSUME NEW s \in Stream, Send(s) \/ Close(s)
        PROVE  FeedTypeOK'
    BY <2>5 DEF Send, Close
  <2>6. ASSUME NEW s \in Stream, NEW c \in Cluster, Read(s, c)
        PROVE  FeedTypeOK'
    BY <2>6 DEF Read
  <2>7. CASE UNCHANGED feedVars
    BY <2>7 DEF feedVars
  <2> QED
    BY <2>1, <2>2, <2>3, <2>4, <2>5, <2>6, <2>7 DEF FeedNext
<1> QED
  BY <1>1, <1>2, PTL DEF FeedSafeSpec

(* What makes LostOnlyToOthers inductive: while the channel is empty, a      *)
(* stream that has lost no tick, waiting or rendering, has read or will      *)
(* still read each cluster at the announced version or a newer one.          *)
FrameCovers ==
    /\ \A c \in Cluster : version[c] >= announced[c]
    /\ \A s \in Stream :
          state[s] # "closed" /\ ~changed /\ s \notin deprived =>
              \A c \in Cluster : c \in toRead[s] \/ page[s][c] >= announced[c]

(* LostOnlyToOthers: however Puts, windows, dropped sends and the frames of  *)
(* any number of streams interleave, a stream that waits on an empty channel *)
(* with a page older than the last notify has lost a tick to another stream. *)
THEOREM NotifyLostOnlyToOthers == FeedSafeSpec => []LostOnlyToOthers
<1>1. FeedInit => FrameCovers
  BY DEF FeedInit, FrameCovers
<1>2. FeedTypeOK /\ FrameCovers /\ [FeedNext]_feedVars => FrameCovers'
  <2> SUFFICES ASSUME FeedTypeOK, FrameCovers, [FeedNext]_feedVars
               PROVE  FrameCovers'
    OBVIOUS
  <2> USE DEF FeedTypeOK, Version, FrameCovers, store, stream
  <2>1. ASSUME NEW c \in Cluster, FeedPut(c) \/ Subscribe(c)
        PROVE  FrameCovers'
    BY <2>1 DEF FeedPut, Subscribe
  <2>2. ASSUME NEW c \in Cluster, Relay(c) \/ WindowPasses(c)
        PROVE  FrameCovers'
    BY <2>2 DEF Relay, WindowPasses, Notify
  <2>3. CASE Rediscover
    BY <2>3 DEF Rediscover, Notify
  <2>4. ASSUME NEW s \in Stream, Open(s) \/ Receive(s)
        PROVE  FrameCovers'
    BY <2>4 DEF Open, Receive
  <2>5. ASSUME NEW s \in Stream, Send(s) \/ Close(s)
        PROVE  FrameCovers'
    BY <2>5 DEF Send, Close
  <2>6. ASSUME NEW s \in Stream, NEW c \in Cluster, Read(s, c)
        PROVE  FrameCovers'
    BY <2>6 DEF Read
  <2>7. CASE UNCHANGED feedVars
    BY <2>7 DEF feedVars
  <2> QED
    BY <2>1, <2>2, <2>3, <2>4, <2>5, <2>6, <2>7 DEF FeedNext
<1>3. FeedTypeOK /\ FrameCovers => LostOnlyToOthers
  BY DEF FeedTypeOK, FrameCovers, LostOnlyToOthers
<1> QED
  BY <1>1, <1>2, <1>3, FeedTypeCorrect, PTL DEF FeedSafeSpec

===============================================================================
