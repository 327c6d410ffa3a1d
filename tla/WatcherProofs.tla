---------------------------- MODULE WatcherProofs ----------------------------
(***************************************************************************)
(* Proofs about Watcher, Store, PodRows and Rollouts, for every list and put*)
(* order, every set of objects and every bound on the queue, for every set *)
(* of keys, values, publishers and subscribers, and for pods of any        *)
(* containers.  A watch group keeps its type and coalescing forgets no     *)
(* change; the store keeps its type, dropping ticks loses no change, and   *)
(* every step of it is a step of ChangeFeed or leaves that unchanged; a    *)
(* pod's row says what the pod is, and claims for it what it uses; and a   *)
(* poll of the components, for every finite set of workloads, names the    *)
(* nodes whose pods are old.                                               *)
(***************************************************************************)
EXTENDS Watcher, Store, PodRows, Rollouts, Counting

-------------------------------------------------------------------------------
(* The watch group.                                                        *)

(* A step number below the puts names a kind, one above the lists a key. *)
LEMMA StepRange ==
    /\ Len(ListOrder) \in Nat \ {0} /\ Len(PutOrder) \in Nat \ {0}
    /\ DOMAIN ListOrder = 1..Len(ListOrder) /\ DOMAIN PutOrder = 1..Len(PutOrder)
    /\ \A i \in DOMAIN ListOrder : ListOrder[i] \in Kind
    /\ \A i \in 0..LastStep :
          i > Len(ListOrder) => PutOrder[i - Len(ListOrder)] \in ShownKey
    /\ 0 \in 0..LastStep /\ 1 \in 0..LastStep
    /\ \A i \in 0..LastStep : i # LastStep => i + 1 \in 0..LastStep
    /\ \A i \in DOMAIN ListOrder : i + 1 \in 0..LastStep
<1>1. /\ Len(ListOrder) \in Nat \ {0} /\ Len(PutOrder) \in Nat \ {0}
      /\ DOMAIN ListOrder = 1..Len(ListOrder) /\ DOMAIN PutOrder = 1..Len(PutOrder)
  BY WatcherAssumption
<1>2. \A i \in DOMAIN ListOrder : ListOrder[i] \in Kind
  BY DEF Kind
<1>3. \A i \in 0..LastStep : i > Len(ListOrder) => i - Len(ListOrder) \in DOMAIN PutOrder
  BY <1>1 DEF LastStep
<1>4. /\ 0 \in 0..LastStep /\ 1 \in 0..LastStep
      /\ \A i \in 0..LastStep : i # LastStep => i + 1 \in 0..LastStep
      /\ \A i \in DOMAIN ListOrder : i + 1 \in 0..LastStep
  BY <1>1 DEF LastStep
<1> QED
  BY <1>1, <1>2, <1>3, <1>4 DEF ShownKey

(* Every step of the informers, the coalescer and the publishers keeps the   *)
(* type of the state.                                                        *)
THEOREM TypeCorrect == SafeSpec => []TypeOK
<1>1. Init => TypeOK
  <2> SUFFICES ASSUME Init PROVE TypeOK
    OBVIOUS
  <2>1. fill \in [Kind -> {"unlisted", "filling", "synced"}]
    BY DEF Init
  <2>2. Nothing \in Lists /\ held \in [Goroutine -> Lists]
    BY DEF Init, Nothing, Lists
  <2>3. queued \in 0..MaxQueued /\ step \in [Goroutine -> 0..LastStep]
    BY StepRange, WatcherAssumption DEF Init
  <2>4. shown \in [ShownKey -> {Absent} \cup UNION {[K -> SUBSET Object] : K \in SUBSET Kind}]
    BY Zenon DEF Init
  <2> QED
    BY <2>1, <2>2, <2>3, <2>4 DEF Init, TypeOK
<1>2. TypeOK /\ [Next]_vars => TypeOK'
  <2> SUFFICES ASSUME TypeOK, [Next]_vars
               PROVE  TypeOK'
    OBVIOUS
  <2> USE DEF TypeOK, Lists
  <2>1. ASSUME NEW k \in Kind, NEW o \in Object, ClusterChanges(k, o)
        PROVE  TypeOK'
    BY <2>1 DEF ClusterChanges, Toggle
  <2>2. ASSUME NEW k \in Kind, NEW o \in Object, Fill(k, o) \/ Deliver(k, o)
        PROVE  TypeOK'
    <3>1. queued' \in 0..MaxQueued
      BY <2>2, WatcherAssumption DEF Fill, Deliver
    <3>2. cache' \in [Kind -> SUBSET Object] /\ backlog' \in [Kind -> SUBSET Object]
      <4>1. CASE Fill(k, o)
        BY <4>1 DEF Fill
      <4>2. CASE Deliver(k, o)
        <5>1. /\ cache' = [cache EXCEPT ![k] = Toggle(@, o)]
              /\ backlog' = backlog
          BY <4>2 DEF Deliver
        <5>2. Toggle(cache[k], o) \in SUBSET Object
          BY DEF Toggle
        <5> QED
          BY <5>1, <5>2
      <4> QED
        BY <2>2, <4>1, <4>2
    <3>3. UNCHANGED <<cluster, up, fill, dirty, step, held, initial, canceled, shown>>
      BY <2>2 DEF Fill, Deliver
    <3> QED
      BY <3>1, <3>2, <3>3
  <2>3. ASSUME NEW k \in Kind, FirstList(k) \/ Sync(k) \/ Resync(k)
        PROVE  TypeOK'
    <3>1. queued' \in 0..MaxQueued
      BY <2>3, WatcherAssumption DEF FirstList, Sync, Resync
    <3>2. fill' \in [Kind -> {"unlisted", "filling", "synced"}]
      BY <2>3 DEF FirstList, Sync, Resync
    <3>3. backlog' \in [Kind -> SUBSET Object]
      BY <2>3 DEF FirstList, Sync, Resync
    <3> QED
      BY <2>3, <3>1, <3>2, <3>3 DEF FirstList, Sync, Resync
  <2>4. CASE Callback
    BY <2>4, WatcherAssumption DEF Callback
  <2>5. CASE CoalesceTick
    BY <2>5, StepRange DEF CoalesceTick
  <2>6. CASE InitialPublish
    BY <2>6, StepRange DEF InitialPublish
  <2>7. CASE InitialCanceled \/ Cancel \/ Outage \/ Recover
    BY <2>7 DEF InitialCanceled, Cancel, Outage, Recover
  <2>8. ASSUME NEW g \in Goroutine, List(g)
        PROVE  TypeOK'
    <3>1. step' \in [Goroutine -> 0..LastStep]
      BY <2>8, StepRange DEF List
    <3>2. held' \in [Goroutine -> [Kind -> SUBSET Object]]
      BY <2>8, StepRange DEF List
    <3> QED
      BY <2>8, <3>1, <3>2 DEF List
  <2>9. ASSUME NEW g \in Goroutine, Publish(g)
        PROVE  TypeOK'
    <3> DEFINE key == PutOrder[step[g] - Len(ListOrder)]
               snapshot == [k \in From[key] |-> held[g][k]]
    <3>1. key \in ShownKey
      BY <2>9, StepRange DEF Publish
    <3>2. From[key] \in SUBSET Kind
      BY <3>1, WatcherAssumption
    <3>3. snapshot \in [From[key] -> SUBSET Object]
      BY <3>2
    <3>4. shown' = [shown EXCEPT ![key] = snapshot]
      BY <2>9 DEF Publish
    <3>5. shown' \in [ShownKey -> {Absent} \cup UNION {[K -> SUBSET Object] : K \in SUBSET Kind}]
      <4>1. snapshot \in UNION {[K -> SUBSET Object] : K \in SUBSET Kind}
        BY <3>2, <3>3
      <4> HIDE DEF snapshot, key
      <4> QED
        BY <3>1, <3>4, <4>1
    <3>6. step' \in [Goroutine -> 0..LastStep]
      BY <2>9, StepRange DEF Publish
    <3> QED
      BY <2>9, <3>5, <3>6 DEF Publish
  <2>10. CASE UNCHANGED vars
    BY <2>10 DEF vars
  <2> QED
    BY <2>1, <2>2, <2>3, <2>4, <2>5, <2>6, <2>7, <2>8, <2>9, <2>10 DEF Next
<1> QED
  BY <1>1, <1>2, PTL DEF SafeSpec

(* NoLostChange is inductive together with the types.  A cache changes only  *)
(* in Fill and Deliver, which queue a callback; a callback that runs marks   *)
(* the group dirty; the flag is cleared only by a tick, which then has every *)
(* kind to list; and a kind leaves that set only by being listed.            *)
THEOREM ForgetsNoChange == SafeSpec => []NoLostChange
<1>1. Init => NoLostChange
  BY DEF Init, NoLostChange, Goroutine, Nothing
<1>2. TypeOK /\ NoLostChange /\ [Next]_vars => NoLostChange'
  <2> SUFFICES ASSUME TypeOK, NoLostChange, [Next]_vars, NEW j \in Kind,
                      held'["coalesce"][j] # cache'[j]
               PROVE  queued' > 0 \/ dirty' \/ j \in ToList("coalesce")'
    BY DEF NoLostChange
  <2> "coalesce" \in Goroutine /\ queued \in Nat
    BY WatcherAssumption DEF Goroutine, TypeOK
  <2> DEFINE Owed == queued > 0 \/ dirty \/ j \in ToList("coalesce")
  <2>1. ASSUME UNCHANGED <<held, cache>>
        PROVE  Owed
    BY <2>1 DEF NoLostChange
  <2>2. ASSUME UNCHANGED <<held, cache, queued, dirty, step>>
        PROVE  Owed'
    BY <2>1, <2>2 DEF ToList
  <2>3. ASSUME NEW k \in Kind, NEW o \in Object, ClusterChanges(k, o)
        PROVE  Owed'
    BY <2>2, <2>3 DEF ClusterChanges
  <2>4. ASSUME NEW k \in Kind, NEW o \in Object, Fill(k, o) \/ Deliver(k, o)
        PROVE  Owed'
    BY <2>4 DEF Fill, Deliver
  <2>5. ASSUME NEW k \in Kind, FirstList(k) \/ Sync(k) \/ Resync(k)
        PROVE  Owed'
    BY <2>1, <2>2, <2>5 DEF FirstList, Sync, Resync
  <2>6. CASE Callback
    BY <2>6 DEF Callback
  <2>7. CASE CoalesceTick
    <3>1. step'["coalesce"] = 1
      BY <2>7 DEF CoalesceTick, TypeOK
    <3>2. \E i \in DOMAIN ListOrder : ListOrder[i] = j /\ i >= 1
      BY StepRange DEF Kind
    <3> QED
      BY <3>1, <3>2 DEF ToList
  <2>8. CASE InitialPublish
    <3>1. step'["coalesce"] = step["coalesce"] /\ UNCHANGED <<held, cache, queued, dirty>>
      BY <2>8 DEF InitialPublish, TypeOK
    <3> QED
      BY <2>1, <3>1 DEF ToList
  <2>9. CASE InitialCanceled \/ Cancel \/ Outage \/ Recover
    BY <2>2, <2>9 DEF InitialCanceled, Cancel, Outage, Recover
  <2>10. ASSUME NEW g \in Goroutine, List(g)
         PROVE  Owed'
    <3>1. CASE g # "coalesce"
      <4>1. /\ held'["coalesce"] = held["coalesce"] /\ step'["coalesce"] = step["coalesce"]
            /\ UNCHANGED <<cache, queued, dirty>>
        BY <2>10, <3>1 DEF List, TypeOK
      <4> QED
        BY <4>1 DEF NoLostChange, ToList
    <3>2. CASE g = "coalesce"
      <4> DEFINE i == step["coalesce"]
      <4>1. i \in DOMAIN ListOrder /\ i \in Nat /\ ListOrder[i] \in Kind
        BY <2>10, <3>2, StepRange DEF List
      <4>2. j # ListOrder[i]
        BY <2>10, <3>2, <4>1 DEF List, TypeOK, Lists
      <4>3. held'["coalesce"][j] = held["coalesce"][j] /\ UNCHANGED <<cache, queued, dirty>>
        BY <2>10, <3>2, <4>1, <4>2 DEF List, TypeOK, Lists
      <4>4. Owed
        BY <4>3 DEF NoLostChange
      <4>5. step'["coalesce"] = i + 1
        BY <2>10, <3>2 DEF List, TypeOK
      <4>6. j \in ToList("coalesce") => j \in ToList("coalesce")'
        <5> SUFFICES ASSUME j \in ToList("coalesce")
                     PROVE  j \in ToList("coalesce")'
          OBVIOUS
        <5>1. PICK n \in DOMAIN ListOrder : n >= i /\ ListOrder[n] = j
          BY DEF ToList
        <5>2. n \in Nat /\ n # i
          BY <4>2, <5>1, StepRange
        <5>3. n >= i + 1
          BY <4>1, <5>1, <5>2
        <5> QED
          BY <4>1, <4>5, <5>1, <5>3 DEF ToList
      <4> QED
        BY <4>3, <4>4, <4>6
    <3> QED
      BY <3>1, <3>2
  <2>11. ASSUME NEW g \in Goroutine, Publish(g)
         PROVE  Owed'
    <3>1. Owed
      BY <2>1, <2>11 DEF Publish
    <3>2. CASE g # "coalesce"
      <4>1. step'["coalesce"] = step["coalesce"]
        BY <2>11, <3>2 DEF Publish, TypeOK
      <4> QED
        BY <2>11, <3>1, <4>1 DEF Publish, ToList
    <3>3. CASE g = "coalesce"
      <4>1. step["coalesce"] \in Nat /\ step["coalesce"] > Len(ListOrder)
        BY <2>11, <3>3 DEF Publish, TypeOK
      <4>2. j \notin ToList("coalesce")
        BY <4>1, StepRange DEF ToList
      <4> QED
        BY <2>11, <3>1, <4>2 DEF Publish
    <3> QED
      BY <3>2, <3>3
  <2>12. CASE UNCHANGED vars
    BY <2>2, <2>12 DEF vars
  <2> QED
    BY <2>3, <2>4, <2>5, <2>6, <2>7, <2>8, <2>9, <2>10, <2>11, <2>12 DEF Next
<1> QED
  BY <1>1, <1>2, TypeCorrect, PTL DEF SafeSpec


-------------------------------------------------------------------------------
(* The store.                                                              *)

(* What Get returns is a typed snapshot or None. *)
LEMMA GetType == \A k \in Key : Get(k) \in Typed \cup {None}
BY DEF Get

(* Every step of the store's goroutines keeps the type of its state. *)
THEOREM StoreTypeCorrect == StoreSafeSpec => []StoreTypeOK
<1>1. StoreInit => StoreTypeOK
  BY DEF StoreInit, StoreTypeOK, WaiterState
<1>2. StoreTypeOK /\ [StoreNext]_storeVars => StoreTypeOK'
  <2> SUFFICES ASSUME StoreTypeOK, [StoreNext]_storeVars
               PROVE  StoreTypeOK'
    OBVIOUS
  <2> USE DEF StoreTypeOK, WaiterState
  <2>1. ASSUME NEW p \in Publisher, NEW k \in Key, NEW v \in Value, Put(p, k, v)
        PROVE  StoreTypeOK'
    BY <2>1 DEF Put
  <2>2. ASSUME NEW p \in Publisher, NEW s \in Subscriber, Notify(p, s)
        PROVE  StoreTypeOK'
    BY <2>2 DEF Notify
  <2>3. ASSUME NEW s \in Subscriber, Subscribe(s)
        PROVE  StoreTypeOK'
    BY <2>3 DEF Subscribe
  <2>4. ASSUME NEW s \in Subscriber, Unsubscribe(s)
        PROVE  StoreTypeOK'
    BY <2>4 DEF Unsubscribe
  <2>5. ASSUME NEW s \in Subscriber, Receive(s)
        PROVE  StoreTypeOK'
    BY <2>5 DEF Receive
  <2>6. ASSUME NEW s \in Subscriber, Update(s)
        PROVE  StoreTypeOK'
    BY <2>6 DEF Update
  <2>7. ASSUME NEW s \in Subscriber, NEW k \in Key, Read(s, k)
        PROVE  StoreTypeOK'
    <3>1. Get(k) \in Typed \cup {None}
      BY GetType
    <3>2. seen' \in [Subscriber -> [Key -> Typed \cup {None}]]
      BY <2>7, <3>1 DEF Read
    <3> QED
      BY <2>7, <3>2 DEF Read
  <2>8. CASE UNCHANGED storeVars
    BY <2>8 DEF storeVars
  <2> QED
    BY <2>1, <2>2, <2>3, <2>4, <2>5, <2>6, <2>7, <2>8 DEF StoreNext
<1> QED
  BY <1>1, <1>2, PTL DEF StoreSafeSpec

(* A Put changes one key and owes every subscriber a send, so it leaves      *)
(* every subscribed reader with a re-read to come.                           *)
LEMMA PutOwes ==
    ASSUME NEW p \in Publisher, NEW k \in Key, NEW v \in Value, StoreTypeOK,
           Put(p, k, v), NEW s \in subs', NEW key \in Key
    PROVE  WillRead(s, key)'
<1>1. s \in sending'[p]
  BY DEF Put, StoreTypeOK
<1> QED
  BY <1>1 DEF WillRead

(* One step of the invariance of NoLostWakeup.  It is inductive together     *)
(* with the types: the only steps that discharge one of the reasons in       *)
(* WillRead put the next one in its place, and the last of them, Read,       *)
(* makes the reader current.                                                 *)
LEMMA NoLostWakeupStep == StoreTypeOK /\ NoLostWakeup /\ [StoreNext]_storeVars => NoLostWakeup'
<1> SUFFICES ASSUME StoreTypeOK, NoLostWakeup, [StoreNext]_storeVars,
                    NEW s \in subs', NEW k \in Key, seen'[s][k] # Get(k)'
             PROVE  WillRead(s, k)'
  BY DEF NoLostWakeup
<1> s \in Subscriber
  BY DEF StoreTypeOK, StoreNext, storeVars, Put, Notify, Subscribe, Unsubscribe, Receive, Update, Read
<1>1. ASSUME NEW p \in Publisher, NEW j \in Key, NEW v \in Value, Put(p, j, v)
      PROVE  WillRead(s, k)'
  BY <1>1, PutOwes
<1>2. ASSUME NEW p \in Publisher, NEW t \in Subscriber, Notify(p, t)
      PROVE  WillRead(s, k)'
  <2>1. s \in subs /\ WillRead(s, k)
    BY <1>2 DEF Notify, NoLostWakeup, Get
  <2>2. CASE s = t
    BY <1>2, <2>2 DEF Notify, WillRead, StoreTypeOK
  <2>3. CASE s # t
    BY <1>2, <2>1, <2>3 DEF Notify, WillRead, StoreTypeOK
  <2> QED
    BY <2>2, <2>3
<1>3. ASSUME NEW t \in Subscriber, Subscribe(t)
      PROVE  WillRead(s, k)'
  <2>1. CASE s = t
    BY <1>3, <2>1 DEF Subscribe, WillRead, StoreTypeOK
  <2>2. CASE s # t
    <3>1. s \in subs /\ WillRead(s, k)
      BY <1>3, <2>2 DEF Subscribe, NoLostWakeup, Get
    <3> QED
      BY <1>3, <2>2, <3>1 DEF Subscribe, WillRead, StoreTypeOK
  <2> QED
    BY <2>1, <2>2
<1>4. ASSUME NEW t \in Subscriber, Unsubscribe(t)
      PROVE  WillRead(s, k)'
  BY <1>4 DEF Unsubscribe, NoLostWakeup, WillRead, Get
<1>5. ASSUME NEW t \in Subscriber, Receive(t)
      PROVE  WillRead(s, k)'
  <2>1. s \in subs /\ WillRead(s, k)
    BY <1>5 DEF Receive, NoLostWakeup, Get
  <2> QED
    BY <1>5, <2>1 DEF Receive, WillRead, StoreTypeOK
<1>6. ASSUME NEW t \in Subscriber, Update(t)
      PROVE  WillRead(s, k)'
  <2>1. s \in subs /\ WillRead(s, k)
    BY <1>6 DEF Update, NoLostWakeup, Get
  <2> QED
    BY <1>6, <2>1 DEF Update, WillRead, StoreTypeOK
<1>7. ASSUME NEW t \in Subscriber, NEW j \in Key, Read(t, j)
      PROVE  WillRead(s, k)'
  <2>1. CASE s = t /\ k = j
    <3>1. seen'[s][k] = Get(k)'
      BY <1>7, <2>1 DEF Read, StoreTypeOK, Get
    <3> QED
      BY <3>1
  <2>2. CASE ~(s = t /\ k = j)
    <3>1. seen'[s][k] = seen[s][k] /\ Get(k)' = Get(k)
      BY <1>7, <2>2 DEF Read, StoreTypeOK, Get
    <3>2. s \in subs /\ WillRead(s, k)
      BY <1>7, <3>1 DEF Read, NoLostWakeup
    <3> QED
      BY <1>7, <2>2, <3>2 DEF Read, WillRead, StoreTypeOK
  <2> QED
    BY <2>1, <2>2
<1>8. CASE UNCHANGED storeVars
  BY <1>8 DEF storeVars, NoLostWakeup, WillRead, Get
<1> QED
  BY <1>1, <1>2, <1>3, <1>4, <1>5, <1>6, <1>7, <1>8 DEF StoreNext

(* Dropping ticks loses no change, however many publishers, readers and      *)
(* keys there are.                                                           *)
THEOREM NeverLosesWakeup == StoreSafeSpec => []NoLostWakeup
<1>1. StoreInit => NoLostWakeup
  BY DEF StoreInit, NoLostWakeup
<1> QED
  BY <1>1, NoLostWakeupStep, StoreTypeCorrect, PTL DEF StoreSafeSpec

(* A Put is a Change of its key to what Get then returns; where two          *)
(* snapshots of another type follow each other, it changes nothing.          *)
LEMMA PutIsChange ==
    ASSUME StoreTypeOK, NEW p \in Publisher, NEW k \in Key, NEW v \in Value, Put(p, k, v)
    PROVE  \E w \in Typed \cup {None} : Feed!Change(k, w)
<1> DEFINE w == IF v \in Typed THEN v ELSE None
<1>1. w \in Typed \cup {None}
  OBVIOUS
<1>2. \A j \in Key : Get(j)' = IF j = k THEN w ELSE Get(j)
  BY DEF Put, Get, StoreTypeOK
<1>3. [j \in Key |-> Get(j)]' = [[j \in Key |-> Get(j)] EXCEPT ![k] = w]
  BY <1>2
<1> QED
  BY <1>1, <1>3 DEF Put, Feed!Change

(* A step that stores nothing leaves what Get returns as it was. *)
LEMMA SameSnapshots ==
    ASSUME UNCHANGED snapshots
    PROVE  [k \in Key |-> Get(k)]' = [k \in Key |-> Get(k)]
BY DEF Get

(* Every behaviour of the store is one of the abstract feed (its safety      *)
(* part): readers only ever copy what a key holds at that moment, and        *)
(* nothing but a Put changes what a key holds.                               *)
THEOREM RefinesChangeFeed == StoreSafeSpec => Feed!SafeSpec
<1>1. StoreInit => Feed!Init
  <2> SUFFICES ASSUME StoreInit PROVE Feed!Init
    OBVIOUS
  <2>1. \A k \in Key : Get(k) = None
    BY StoreAssumption DEF StoreInit, Get
  <2> QED
    BY <2>1 DEF StoreInit, Feed!Init
<1>2. StoreTypeOK /\ [StoreNext]_storeVars => [Feed!Next]_Feed!vars
  <2> SUFFICES ASSUME StoreTypeOK, [StoreNext]_storeVars
               PROVE  Feed!Next \/ UNCHANGED Feed!vars
    OBVIOUS
  <2>1. ASSUME NEW p \in Publisher, NEW k \in Key, NEW v \in Value, Put(p, k, v)
        PROVE  Feed!Next
    BY <2>1, PutIsChange DEF Feed!Next
  <2>2. ASSUME NEW p \in Publisher, NEW s \in Subscriber, Notify(p, s)
        PROVE  UNCHANGED Feed!vars
    BY <2>2, SameSnapshots DEF Notify, Feed!vars
  <2>3. ASSUME NEW s \in Subscriber, Subscribe(s)
        PROVE  Feed!Next
    <3>1. Feed!Join(s)
      BY <2>3, SameSnapshots DEF Subscribe, Feed!Join
    <3> QED
      BY <3>1 DEF Feed!Next
  <2>4. ASSUME NEW s \in Subscriber, Unsubscribe(s)
        PROVE  Feed!Next
    <3>1. Feed!Leave(s)
      BY <2>4, SameSnapshots DEF Unsubscribe, Feed!Leave
    <3> QED
      BY <3>1 DEF Feed!Next
  <2>5. ASSUME NEW s \in Subscriber, Receive(s) \/ Update(s)
        PROVE  UNCHANGED Feed!vars
    BY <2>5, SameSnapshots DEF Receive, Update, Feed!vars
  <2>6. ASSUME NEW s \in Subscriber, NEW k \in Key, Read(s, k)
        PROVE  Feed!Next
    <3>1. Feed!Refresh(s, k)
      BY <2>6, SameSnapshots DEF Read, Feed!Refresh
    <3> QED
      BY <3>1 DEF Feed!Next
  <2>7. CASE UNCHANGED storeVars
    BY <2>7, SameSnapshots DEF storeVars, Feed!vars
  <2> QED
    BY <2>1, <2>2, <2>3, <2>4, <2>5, <2>6, <2>7 DEF StoreNext
<1> QED
  BY <1>1, <1>2, StoreTypeCorrect, PTL DEF StoreSafeSpec, Feed!SafeSpec

-------------------------------------------------------------------------------
(* A pod's row.                                                            *)

(* What a list's first asks for, its first two, and so on. *)
LEMMA AskedIs ==
    ASSUME NEW list \in Seq(DOMAIN Requests), NEW cs
    PROVE  \E f : /\ f[0] = 0 /\ Asked(list, cs) = f[Len(list)]
                  /\ \A n \in 1 .. Len(list) :
                       f[n] = f[n - 1] + (IF list[n] \in cs THEN Requests[list[n]] ELSE 0)
<1> DEFINE N == Len(list)
           W(n) == IF list[n] \in cs THEN Requests[list[n]] ELSE 0
           g == [n \in 1 .. N |-> [x \in Nat |-> x + W(n)]]
           upTo[n \in 0 .. Len(list)] ==
             IF n = 0 THEN 0 ELSE upTo[n - 1] + (IF list[n] \in cs THEN Requests[list[n]] ELSE 0)
<1>1. N \in Nat /\ \A n \in 1 .. N : W(n) \in Nat
  BY PodAssumption
<1>2. g \in [1 .. N -> [Nat -> Nat]]
  BY <1>1
<1>3. PICK f \in [0 .. N -> Nat] : f[0] = 0 /\ \A n \in 1 .. N : f[n] = g[n][f[n - 1]]
  <2> HIDE DEF g, N, W
  <2>1. Steps(Nat, N, 0, g)
    BY <1>1, <1>2 DEF Steps
  <2> QED BY <2>1, Computed
<1>4. \A n \in 1 .. N : f[n] = f[n - 1] + W(n)
  <2> HIDE DEF W, N
  <2> TAKE n \in 1 .. N
  <2>1. n - 1 \in 0 .. N
    BY <1>1
  <2>2. f[n - 1] \in Nat /\ f[n] = g[n][f[n - 1]]
    BY <1>3, <2>1
  <2> HIDE DEF g
  <2>3. g[n] = [x \in Nat |-> x + W(n)]
    BY DEF g
  <2> QED BY <2>2, <2>3
<1>5. f = [n \in 0 .. N |-> IF n = 0 THEN 0 ELSE f[n - 1] + W(n)]
  <2> HIDE DEF W, N
  <2>1. \A n \in 0 .. N : f[n] = IF n = 0 THEN 0 ELSE f[n - 1] + W(n)
    BY <1>1, <1>3, <1>4
  <2>2. f = [n \in 0 .. N |-> f[n]]
    BY <1>3
  <2> QED BY <2>1, <2>2
<1>6. upTo = [n \in 0 .. N |-> IF n = 0 THEN 0 ELSE upTo[n - 1] + W(n)]
  BY <1>5
<1>7. Asked(list, cs) = upTo[N]
  BY DEF Asked
<1> HIDE DEF upTo
<1>8. \A n \in 0 .. N : upTo[n] = IF n = 0 THEN 0 ELSE upTo[n - 1] + W(n)
  <2> HIDE DEF W, N
  <2> QED BY <1>6
<1>9. upTo[0] = 0 /\ \A n \in 1 .. N : upTo[n] = upTo[n - 1] + W(n)
  <2> HIDE DEF W, N
  <2> QED BY <1>1, <1>8
<1> QED BY <1>7, <1>9

(* Fewer ask for no more; none ask for nothing, and one for what it asks.    *)
LEMMA AskedSums ==
    ASSUME NEW list \in Seq(DOMAIN Requests), NEW cs
    PROVE  /\ Asked(list, cs) \in Nat /\ Asked(list, ToSet(list)) \in Nat
           /\ Asked(list, cs) <= Asked(list, ToSet(list))
           /\ (\A i \in DOMAIN list : list[i] \notin cs) => Asked(list, cs) = 0
           /\ \A i \in DOMAIN list : list[i] \in cs /\ (\A j \in DOMAIN list \ {i} : list[j] \notin cs)
                => Asked(list, cs) = Requests[list[i]]
<1> DEFINE N == Len(list)
           R(n) == Requests[list[n]]
           In(n) == list[n] \in cs
           W(n) == IF list[n] \in cs THEN Requests[list[n]] ELSE 0
<1>1. /\ N \in Nat /\ DOMAIN list = 1 .. N
      /\ \A n \in 1 .. N : R(n) \in Nat /\ list[n] \in ToSet(list)
  BY PodAssumption DEF ToSet
<1>2. PICK f : /\ f[0] = 0 /\ Asked(list, cs) = f[N]
               /\ \A n \in 1 .. N : f[n] = f[n - 1] + W(n)
  BY AskedIs
<1>3. PICK a : /\ a[0] = 0 /\ Asked(list, ToSet(list)) = a[N]
               /\ \A n \in 1 .. N : a[n] = a[n - 1] + (IF list[n] \in ToSet(list) THEN Requests[list[n]] ELSE 0)
  BY AskedIs
<1>4. \A n \in 1 .. N : a[n] = a[n - 1] + R(n)
  BY <1>1, <1>3
<1>5. \A n \in 1 .. N : f[n] = f[n - 1] + (IF In(n) THEN R(n) ELSE 0)
  BY <1>2
<1> HIDE DEF N, R, In
<1> DEFINE S == {m \in Nat : m <= N =>
                   /\ f[m] \in Nat /\ a[m] \in Nat /\ f[m] <= a[m]
                   /\ (\A i \in 1 .. m : ~In(i)) => f[m] = 0
                   /\ \A i \in 1 .. m : In(i) /\ (\A j \in 1 .. m : j # i => ~In(j)) => f[m] = R(i)}
<1>6. 0 \in S
  BY <1>2, <1>3
<1>7. ASSUME NEW m \in S PROVE m + 1 \in S
  <2> SUFFICES ASSUME m + 1 <= N PROVE m + 1 \in S
    OBVIOUS
  <2>1. m \in Nat /\ m + 1 \in 1 .. N /\ m <= N
    BY <1>1
  <2>2. /\ f[m] \in Nat /\ a[m] \in Nat /\ f[m] <= a[m]
        /\ (\A i \in 1 .. m : ~In(i)) => f[m] = 0
        /\ \A i \in 1 .. m : In(i) /\ (\A j \in 1 .. m : j # i => ~In(j)) => f[m] = R(i)
    BY <2>1, <1>7
  <2>3. R(m + 1) \in Nat /\ a[m + 1] = a[m] + R(m + 1) /\ f[m + 1] = f[m] + (IF In(m + 1) THEN R(m + 1) ELSE 0)
    <3>1. m + 1 - 1 = m
      BY <2>1
    <3> QED BY <2>1, <3>1, <1>1, <1>4, <1>5
  <2>4. f[m + 1] \in Nat /\ a[m + 1] \in Nat /\ f[m + 1] <= a[m + 1]
    BY <2>2, <2>3
  <2>5. ASSUME \A i \in 1 .. m + 1 : ~In(i) PROVE f[m + 1] = 0
    <3>1. ~In(m + 1) /\ \A i \in 1 .. m : ~In(i)
      BY <2>1, <2>5
    <3> QED BY <2>2, <2>3, <3>1
  <2>6. ASSUME NEW i \in 1 .. m + 1, In(i), \A j \in 1 .. m + 1 : j # i => ~In(j)
        PROVE  f[m + 1] = R(i)
    <3>1. CASE i = m + 1
      <4>1. \A j \in 1 .. m : ~In(j)
        BY <2>1, <2>6, <3>1
      <4> QED BY <2>2, <2>3, <2>6, <3>1, <4>1
    <3>2. CASE i \in 1 .. m
      <4>1. ~In(m + 1) /\ \A j \in 1 .. m : j # i => ~In(j)
        BY <2>1, <2>6, <3>2
      <4>2. f[m] = R(i)
        BY <2>2, <2>6, <3>2, <4>1
      <4> QED BY <2>2, <2>3, <4>1, <4>2
    <3> QED BY <2>1, <3>1, <3>2
  <2> QED BY <2>1, <2>4, <2>5, <2>6
<1>8. N \in S
  <2> HIDE DEF S
  <2>1. S \in SUBSET Nat
    BY DEF S
  <2> QED BY <1>1, <1>6, <1>7, <2>1, Induct
<1>9. /\ f[N] \in Nat /\ a[N] \in Nat /\ f[N] <= a[N]
      /\ (\A i \in 1 .. N : ~In(i)) => f[N] = 0
      /\ \A i \in 1 .. N : In(i) /\ (\A j \in 1 .. N : j # i => ~In(j)) => f[N] = R(i)
  BY <1>1, <1>8
<1> QED BY <1>1, <1>2, <1>3, <1>9 DEF R, In

(* A claim is for all the regular containers together, and for any init      *)
(* container.                                                                *)
LEMMA ClaimCovers ==
    ASSUME ~Finished
    PROVE  /\ Claim \in Nat /\ Claim >= Asked(Regular, ToSet(Regular))
           /\ \A i \in DOMAIN InitContainers : Claim >= Requests[InitContainers[i]]
<1> DEFINE N == Len(InitContainers)
           R(n) == Requests[InitContainers[n]]
           all == Asked(Regular, ToSet(Regular))
           B(x, y) == Max({x, y})
           g == [n \in 1 .. N |-> [x \in Nat |-> B(x, R(n))]]
           upTo[n \in 0 .. Len(InitContainers)] ==
             IF n = 0 THEN Asked(Regular, ToSet(Regular)) ELSE Max({upTo[n - 1], Requests[InitContainers[n]]})
<1>1. all \in Nat /\ N \in Nat /\ DOMAIN InitContainers = 1 .. N /\ \A n \in 1 .. N : R(n) \in Nat
  <2>1. all \in Nat
    BY PodAssumption, AskedSums
  <2> QED BY <2>1, PodAssumption
<1>2. \A x, y \in Nat : B(x, y) \in Nat /\ B(x, y) >= x /\ B(x, y) >= y
  <2> TAKE x, y \in Nat
  <2>1. \E z \in {x, y} : \A w \in {x, y} : z >= w
    <3>1. CASE x >= y
      BY <3>1
    <3>2. CASE y >= x
      BY <3>2
    <3> QED BY <3>1, <3>2
  <2>2. Max({x, y}) \in {x, y} /\ \A w \in {x, y} : Max({x, y}) >= w
    BY <2>1, Zenon DEF Max
  <2> QED BY <2>2
<1> HIDE DEF all
<1>3. g \in [1 .. N -> [Nat -> Nat]]
  <2> HIDE DEF R, B
  <2> QED BY <1>1, <1>2
<1>4. PICK f \in [0 .. N -> Nat] : f[0] = all /\ \A n \in 1 .. N : f[n] = g[n][f[n - 1]]
  <2> HIDE DEF g, N
  <2>1. Steps(Nat, N, all, g)
    BY <1>1, <1>2, <1>3 DEF Steps
  <2> QED BY <2>1, Computed
<1>5. \A n \in 1 .. N : f[n] = B(f[n - 1], R(n))
  <2> HIDE DEF R, B, N
  <2> TAKE n \in 1 .. N
  <2>1. n - 1 \in 0 .. N
    BY <1>1
  <2>2. f[n - 1] \in Nat /\ f[n] = g[n][f[n - 1]]
    BY <1>4, <2>1
  <2> HIDE DEF g
  <2>3. g[n] = [x \in Nat |-> B(x, R(n))]
    BY DEF g
  <2> QED BY <2>2, <2>3
<1>6. f = [n \in 0 .. N |-> IF n = 0 THEN all ELSE B(f[n - 1], R(n))]
  <2> HIDE DEF R, N, B
  <2>1. \A n \in 0 .. N : f[n] = IF n = 0 THEN all ELSE B(f[n - 1], R(n))
    BY <1>1, <1>4, <1>5
  <2>2. f = [n \in 0 .. N |-> f[n]]
    BY <1>4
  <2> QED BY <2>1, <2>2
<1>7. upTo = [n \in 0 .. N |-> IF n = 0 THEN all ELSE B(upTo[n - 1], R(n))]
  BY <1>6 DEF all
<1>8. Claim = upTo[N]
  BY DEF Claim
<1> HIDE DEF upTo
<1>9. \A n \in 0 .. N : upTo[n] = IF n = 0 THEN all ELSE B(upTo[n - 1], R(n))
  <2> HIDE DEF R, N, B
  <2> QED BY <1>7
<1>10. upTo[0] = all /\ \A n \in 1 .. N : upTo[n] = B(upTo[n - 1], R(n))
  <2> HIDE DEF R, N, B
  <2> QED BY <1>1, <1>9
<1> HIDE DEF R, N, B
<1> DEFINE S == {m \in Nat : m <= N => /\ upTo[m] \in Nat /\ upTo[m] >= all
                                       /\ \A i \in 1 .. m : upTo[m] >= R(i)}
<1>11. 0 \in S
  BY <1>1, <1>10
<1>12. ASSUME NEW m \in S PROVE m + 1 \in S
  <2> SUFFICES ASSUME m + 1 <= N PROVE m + 1 \in S
    OBVIOUS
  <2>1. m \in Nat /\ m + 1 \in 1 .. N /\ m <= N /\ m + 1 - 1 = m
    BY <1>1
  <2>2. upTo[m] \in Nat /\ upTo[m] >= all /\ \A i \in 1 .. m : upTo[m] >= R(i)
    BY <2>1, <1>12
  <2>3. upTo[m + 1] = B(upTo[m], R(m + 1)) /\ R(m + 1) \in Nat
    BY <2>1, <1>1, <1>10
  <2>4. upTo[m + 1] \in Nat /\ upTo[m + 1] >= upTo[m] /\ upTo[m + 1] >= R(m + 1)
    BY <2>2, <2>3, <1>2
  <2>5. ASSUME NEW i \in 1 .. m + 1 PROVE upTo[m + 1] >= R(i)
    <3>1. i \in 1 .. m \/ i = m + 1
      BY <2>1
    <3>2. R(i) \in Nat
      BY <1>1, <2>1
    <3> QED BY <2>2, <2>4, <3>1, <3>2
  <2> QED BY <1>1, <2>1, <2>2, <2>4, <2>5
<1>13. N \in S
  <2> HIDE DEF S
  <2>1. S \in SUBSET Nat
    BY DEF S
  <2> QED BY <1>1, <1>11, <1>12, <2>1, Induct
<1>14. upTo[N] \in Nat /\ upTo[N] >= all /\ \A i \in 1 .. N : upTo[N] >= R(i)
  BY <1>1, <1>13
<1> QED BY <1>1, <1>8, <1>14 DEF all, R

(* What makes PodRowsAreRight inductive: an init container that is not done  *)
(* has everything after it wait, and a reason is given by what is not up.    *)
InOrder == \A i \in DOMAIN InitContainers :
    InitContainers[i] \notin Sidecars /\ container[InitContainers[i]].is # "done" =>
        /\ \A c \in ToSet(Regular) : container[c].is = "waiting"
        /\ \A j \in DOMAIN InitContainers : i < j => container[InitContainers[j]].is = "waiting"
SaysWhy == \A c \in Containers :
    /\ container[c].is = "running" => container[c].reason = "none"
    /\ container[c].reason = "CrashLoopBackOff" => container[c].is = "waiting"
PodInv == PodTypeOK /\ InOrder /\ SaysWhy

(* The two lists by place, and the containers in them. *)
LEMMA InBoth ==
    /\ DOMAIN InitContainers = 1 .. Len(InitContainers) /\ Len(InitContainers) \in Nat
    /\ DOMAIN Regular = 1 .. Len(Regular) /\ Len(Regular) \in Nat /\ Len(Regular) # 0
    /\ \A i \in DOMAIN InitContainers : InitContainers[i] \in ToSet(InitContainers)
    /\ \A i \in DOMAIN Regular : Regular[i] \in ToSet(Regular)
    /\ \A c \in ToSet(InitContainers) : \E i \in DOMAIN InitContainers : c = InitContainers[i]
    /\ \A c \in ToSet(Regular) : \E i \in DOMAIN Regular : c = Regular[i]
    /\ ToSet(InitContainers) \subseteq Containers /\ ToSet(Regular) \subseteq Containers
BY PodAssumption DEF ToSet, Containers

(* A step changes one container, and if it starts it those before it are     *)
(* done.                                                                     *)
LEMMA StepKeeps ==
    ASSUME PodInv, NEW c \in Containers, NEW new, container' = [container EXCEPT ![c] = new],
           UNCHANGED <<restartPolicy, deleting>>,
           new \in [is : {"waiting", "running", "done", "failed"},
                    reason : {"none", "PodInitializing", "CrashLoopBackOff", "Completed", "Error"},
                    ready : BOOLEAN, restarted : BOOLEAN],
           new.is = "running" => new.reason = "none",
           new.reason = "CrashLoopBackOff" => new.is = "waiting",
           container[c].is # "done" \/ c \notin ToSet(InitContainers) \/ c \in Sidecars \/ new.is = "done",
           \/ new.is = "waiting"
           \/ container[c].is # "waiting"
           \/ MayStart(c)
    PROVE  PodInv'
<1>1. PodTypeOK'
  BY DEF PodInv, PodTypeOK
<1>2. container'[c] = new /\ \A d \in Containers \ {c} : container'[d] = container[d]
  BY DEF PodInv, PodTypeOK
<1>3. SaysWhy'
  BY <1>2 DEF PodInv, SaysWhy
<1>4. ASSUME NEW i \in DOMAIN InitContainers, InitContainers[i] \notin Sidecars,
             container'[InitContainers[i]].is # "done"
      PROVE  /\ \A d \in ToSet(Regular) : container'[d].is = "waiting"
             /\ \A j \in DOMAIN InitContainers : i < j => container'[InitContainers[j]].is = "waiting"
  <2>1. container[InitContainers[i]].is # "done"
    BY <1>2, <1>4, InBoth
  <2>2. /\ \A d \in ToSet(Regular) : container[d].is = "waiting"
        /\ \A j \in DOMAIN InitContainers : i < j => container[InitContainers[j]].is = "waiting"
    BY <1>4, <2>1 DEF PodInv, InOrder
  <2>3. ~Over(InitContainers[i])
    BY <1>4, <2>1 DEF Over
  <2>4. ASSUME NEW d \in ToSet(Regular) PROVE container'[d].is = "waiting"
    <3>1. CASE d = c
      <4>1. \A j \in DOMAIN InitContainers : InitContainers[j] # c
        BY <3>1, <2>4, InBoth, PodAssumption
      <4>2. ~MayStart(c)
        <5>1. ~\E j \in 1 .. i : InitContainers[j] = c
          BY <4>1, InBoth
        <5> QED BY <2>3, <5>1 DEF MayStart
      <4> QED BY <1>2, <2>2, <3>1, <2>4, <4>2
    <3> QED BY <1>2, <2>2, <2>4, <3>1, InBoth
  <2>5. ASSUME NEW j \in DOMAIN InitContainers, i < j PROVE container'[InitContainers[j]].is = "waiting"
    <3>1. CASE InitContainers[j] = c
      <4>1. ~\E k \in 1 .. i : InitContainers[k] = c
        <5>1. SUFFICES ASSUME NEW k \in 1 .. i, InitContainers[k] = c PROVE FALSE
          OBVIOUS
        <5>2. k \in DOMAIN InitContainers /\ k \in Nat /\ i \in Nat /\ j \in Nat /\ k <= i
          BY InBoth
        <5>3. k = j
          BY <3>1, <5>1, <5>2, PodAssumption
        <5> QED BY <2>5, <5>2, <5>3
      <4>2. ~MayStart(c)
        BY <2>3, <4>1 DEF MayStart
      <4> QED BY <1>2, <2>2, <2>5, <3>1, <4>2
    <3> QED BY <1>2, <2>2, <2>5, <3>1, InBoth
  <2> QED BY <2>4, <2>5
<1>5. InOrder'
  BY <1>4 DEF InOrder
<1> QED BY <1>1, <1>3, <1>5 DEF PodInv

LEMMA PodInvHolds == PodSpec => []PodInv
<1>1. PodInit => PodInv
  <2> SUFFICES ASSUME PodInit PROVE PodInv
    OBVIOUS
  <2>1. \A c \in Containers : container[c] = [is |-> "waiting", reason |-> "PodInitializing", ready |-> FALSE, restarted |-> FALSE]
    BY DEF PodInit, Waits
  <2>2. PodTypeOK
    BY <2>1 DEF PodInit, PodTypeOK, Waits
  <2>3. InOrder
    BY <2>1, InBoth DEF InOrder
  <2>4. SaysWhy
    BY <2>1 DEF SaysWhy
  <2> QED BY <2>2, <2>3, <2>4 DEF PodInv
<1>2. PodInv /\ [PodNext]_podVars => PodInv'
  <2> SUFFICES ASSUME PodInv, [PodNext]_podVars PROVE PodInv'
    OBVIOUS
  <2> DEFINE State == [is : {"waiting", "running", "done", "failed"},
                       reason : {"none", "PodInitializing", "CrashLoopBackOff", "Completed", "Error"},
                       ready : BOOLEAN, restarted : BOOLEAN]
  <2>1. \A c \in Containers : container[c] \in State
    BY DEF PodInv, PodTypeOK
  <2>2. container \in [Containers -> State]
    BY DEF PodInv, PodTypeOK
  <2>3. ASSUME NEW c \in Containers, NEW is \in {"waiting", "running", "done", "failed"},
               NEW reason \in {"none", "PodInitializing", "CrashLoopBackOff", "Completed", "Error"}, NEW ready \in BOOLEAN,
               SetContainer(c, is, reason, ready)
        PROVE  /\ container' = [container EXCEPT ![c] = container'[c]] /\ UNCHANGED <<restartPolicy, deleting>>
               /\ container'[c] \in State /\ container'[c].is = is /\ container'[c].reason = reason
    <3>1. container'[c] = [container[c] EXCEPT !.is = is, !.reason = reason, !.ready = ready]
      BY <2>2, <2>3 DEF SetContainer
    <3>2. /\ container' = [container EXCEPT ![c] = container'[c]]
      BY <2>2, <2>3, <3>1 DEF SetContainer
    <3>3. container[c] \in State
      BY <2>1
    <3>4. container'[c] \in State /\ container'[c].is = is /\ container'[c].reason = reason
      BY <2>3, <3>1, <3>3
    <3> QED BY <2>3, <3>2, <3>4 DEF SetContainer
  <2> HIDE DEF State
  <2>4. ASSUME NEW c \in Containers, StartContainer(c) PROVE PodInv'
    <3>1. container[c].is = "waiting" /\ MayStart(c) /\ SetContainer(c, "running", "none", FALSE)
      BY <2>4 DEF StartContainer
    <3>2. /\ container' = [container EXCEPT ![c] = container'[c]] /\ UNCHANGED <<restartPolicy, deleting>>
          /\ container'[c] \in State /\ container'[c].is = "running" /\ container'[c].reason = "none"
      BY <2>3, <3>1
    <3> QED BY <3>1, <3>2, StepKeeps DEF State
  <2>5. ASSUME NEW c \in Containers, BecomeReady(c) PROVE PodInv'
    <3>1. container[c].is = "running" /\ SetContainer(c, "running", "none", TRUE)
      BY <2>5 DEF BecomeReady
    <3>2. /\ container' = [container EXCEPT ![c] = container'[c]] /\ UNCHANGED <<restartPolicy, deleting>>
          /\ container'[c] \in State /\ container'[c].is = "running" /\ container'[c].reason = "none"
      BY <2>3, <3>1
    <3> QED BY <3>1, <3>2, StepKeeps DEF State
  <2>6. ASSUME NEW c \in Containers, Exit(c) PROVE PodInv'
    <3>1. container[c].is = "running"
      BY <2>6 DEF Exit
    <3>2. CASE SetContainer(c, "done", "Completed", c \notin Sidecars /\ c \in ToSet(InitContainers))
      <4>1. (c \notin Sidecars /\ c \in ToSet(InitContainers)) \in BOOLEAN
        OBVIOUS
      <4>2. /\ container' = [container EXCEPT ![c] = container'[c]] /\ UNCHANGED <<restartPolicy, deleting>>
            /\ container'[c] \in State /\ container'[c].is = "done" /\ container'[c].reason = "Completed"
        BY <2>3, <3>2, <4>1
      <4> QED BY <3>1, <4>2, StepKeeps DEF State
    <3>3. CASE SetContainer(c, "failed", "Error", FALSE)
      <4>2. /\ container' = [container EXCEPT ![c] = container'[c]] /\ UNCHANGED <<restartPolicy, deleting>>
            /\ container'[c] \in State /\ container'[c].is = "failed" /\ container'[c].reason = "Error"
        BY <2>3, <3>3
      <4> QED BY <3>1, <4>2, StepKeeps DEF State
    <3> QED BY <2>6, <3>2, <3>3 DEF Exit
  <2>7. ASSUME NEW c \in Containers, BackOff(c) PROVE PodInv'
    <3> DEFINE new == [Waits("CrashLoopBackOff") EXCEPT !.restarted = TRUE]
    <3>1. container' = [container EXCEPT ![c] = new] /\ UNCHANGED <<restartPolicy, deleting>>
      BY <2>7 DEF BackOff
    <3>2. new \in State /\ new.is = "waiting" /\ new.reason = "CrashLoopBackOff"
      BY DEF Waits, State
    <3>3. container[c].is # "done" \/ c \notin ToSet(InitContainers) \/ c \in Sidecars
      BY <2>7, PodAssumption DEF BackOff, Restarts
    <3> HIDE DEF new
    <3> QED BY <3>1, <3>2, <3>3, StepKeeps DEF State
  <2>8. CASE Delete
    BY <2>8 DEF Delete, PodInv, PodTypeOK, InOrder, SaysWhy
  <2>9. CASE UNCHANGED podVars
    BY <2>9 DEF podVars, PodInv, PodTypeOK, InOrder, SaysWhy
  <2> QED BY <2>4, <2>5, <2>6, <2>7, <2>8, <2>9 DEF PodNext
<1> QED BY <1>1, <1>2, PTL DEF PodSpec

(* What a row may say, besides a phase. *)
LEMMA StatusIs ==
    ASSUME PodInv
    PROVE  /\ FirstReason \in {"none", "PodInitializing", "CrashLoopBackOff", "Completed", "Error"}
           /\ (\E c \in ToSet(Regular) : container[c].reason # "none") => FirstReason # "none"
           /\ (\A c \in ToSet(Regular) : container[c].reason = "none") => FirstReason = "none"
           /\ Phase \in {"Failed", "Succeeded", "Pending", "Running"}
           /\ \A c : InitStatus(c) \in {"Init:CrashLoopBackOff", "Init:Completed", "Init:Error", "Init:n/m"}
<1> DEFINE said == {i \in DOMAIN Regular : container[Regular[i]].reason # "none"}
<1>1. said \in SUBSET Nat
  BY InBoth
<1>2. FirstReason = IF said = {} THEN "none" ELSE container[Regular[Min(said)]].reason
  BY DEF FirstReason
<1>3. said # {} => Min(said) \in said
  BY <1>1, MinIsOne
<1>4. \A i \in DOMAIN Regular : Regular[i] \in Containers
  BY InBoth
<1>5. \A c \in Containers : container[c].reason \in {"none", "PodInitializing", "CrashLoopBackOff", "Completed", "Error"}
  BY DEF PodInv, PodTypeOK
<1>6. FirstReason \in {"none", "PodInitializing", "CrashLoopBackOff", "Completed", "Error"}
  <2>1. CASE said = {}
    BY <1>2, <2>1
  <2>2. CASE said # {}
    BY <1>2, <1>3, <1>4, <1>5, <2>2
  <2> QED BY <2>1, <2>2
<1>7. ASSUME NEW c \in ToSet(Regular), container[c].reason # "none" PROVE FirstReason # "none"
  <2>1. said # {}
    BY <1>7, InBoth
  <2> QED BY <1>2, <1>3, <2>1
<1>8. ASSUME \A d \in ToSet(Regular) : container[d].reason = "none" PROVE FirstReason = "none"
  <2>1. said = {}
    BY <1>8, InBoth
  <2> QED BY <1>2, <2>1
<1>9. Phase \in {"Failed", "Succeeded", "Pending", "Running"}
  BY DEF Phase
<1>10. \A c : InitStatus(c) \in {"Init:CrashLoopBackOff", "Init:Completed", "Init:Error", "Init:n/m"}
  BY DEF InitStatus
<1> QED BY <1>6, <1>7, <1>8, <1>9, <1>10

(* A pod that has not finished asks for at least what its containers in use  *)
(* ask for: while one that comes before the others is up, nothing else is.   *)
LEMMA ClaimsWhatItUses == ASSUME PodInv, ~Finished PROVE Claim >= InUse
<1>0. InitContainers \in Seq(DOMAIN Requests) /\ Regular \in Seq(DOMAIN Requests)
  BY PodAssumption
<1>1. /\ Asked(Regular, Up) \in Nat /\ Asked(InitContainers, Up) \in Nat
      /\ Asked(Regular, ToSet(Regular)) \in Nat /\ Asked(Regular, Up) <= Asked(Regular, ToSet(Regular))
      /\ Claim \in Nat /\ Claim >= Asked(Regular, ToSet(Regular))
  BY <1>0, AskedSums, ClaimCovers
<1>2. CASE \A i \in DOMAIN InitContainers : InitContainers[i] \notin Up
  <2>1. Asked(InitContainers, Up) = 0
    BY <1>0, <1>2, AskedSums
  <2> QED BY <1>1, <2>1 DEF InUse
<1>3. ASSUME NEW i \in DOMAIN InitContainers, InitContainers[i] \in Up PROVE Claim >= InUse
  <2>1. InitContainers[i] \notin Sidecars /\ container[InitContainers[i]].is = "running"
    BY <1>3 DEF Up
  <2>2. /\ \A c \in ToSet(Regular) : container[c].is = "waiting"
        /\ \A j \in DOMAIN InitContainers : i < j => container[InitContainers[j]].is = "waiting"
    BY <2>1 DEF PodInv, InOrder
  <2>3. \A j \in DOMAIN Regular : Regular[j] \notin Up
    BY <2>2, InBoth DEF Up
  <2>4. ASSUME NEW j \in DOMAIN InitContainers \ {i} PROVE InitContainers[j] \notin Up
    <3>1. CASE i < j
      BY <2>2, <3>1 DEF Up
    <3>2. CASE j < i
      <4>1. SUFFICES ASSUME InitContainers[j] \in Up PROVE FALSE
        OBVIOUS
      <4>2. InitContainers[j] \notin Sidecars /\ container[InitContainers[j]].is = "running"
        BY <4>1 DEF Up
      <4>3. container[InitContainers[i]].is = "waiting"
        BY <3>2, <4>2 DEF PodInv, InOrder
      <4> QED BY <2>1, <4>3
    <3>3. i < j \/ j < i
      BY InBoth
    <3> QED BY <3>1, <3>2, <3>3
  <2>5. Asked(Regular, Up) = 0
    BY <1>0, <2>3, AskedSums
  <2>6. Asked(InitContainers, Up) = Requests[InitContainers[i]]
    BY <1>0, <1>3, <2>4, AskedSums
  <2>7. Claim >= Requests[InitContainers[i]]
    BY ClaimCovers
  <2> QED BY <1>1, <2>5, <2>6, <2>7 DEF InUse
<1> QED BY <1>2, <1>3

(* PodRowsAreRight, for any containers in any order, whichever are sidecars, *)
(* whatever they request and whichever restart policy the pod has.           *)
THEOREM TellsItsPod == PodSpec => []PodRowsAreRight
<1>1. ASSUME PodInv PROVE PodRowsAreRight
  <2> DEFINE pending == {i \in DOMAIN InitContainers : ~Passed(InitContainers[i])}
             ready == \A c \in ToSet(InitContainers) : Over(c)
  <2>1. pending # {} => Min(pending) \in pending
    <3>1. pending \in SUBSET Nat
      BY InBoth
    <3> QED BY <3>1, MinIsOne
  <2>2. PodStatus = IF deleting THEN IF FirstReason # "none" THEN FirstReason ELSE "Terminating"
                    ELSE IF pending # {} THEN InitStatus(InitContainers[Min(pending)])
                    ELSE IF FirstReason # "none" THEN FirstReason
                    ELSE IF Phase = "Succeeded" THEN "Completed"
                    ELSE IF Phase = "Failed" THEN "Error" ELSE Phase
    BY DEF PodStatus
  <2>3. ready => pending = {}
    BY InBoth DEF Over, Passed
  <2>4. /\ FirstReason \in {"none", "PodInitializing", "CrashLoopBackOff", "Completed", "Error"}
        /\ Phase \in {"Failed", "Succeeded", "Pending", "Running"}
        /\ \A c : InitStatus(c) \in {"Init:CrashLoopBackOff", "Init:Completed", "Init:Error", "Init:n/m"}
    BY <1>1, StatusIs
  <2>5. PodRow.status = PodStatus /\ (PodRow.healthy <=> (PodStatus = "Running" /\ PodRow.ready = PodRow.total) \/ PodStatus = "Completed")
    BY DEF PodRow
  <2>6. Serving /\ ~deleting /\ ready => PodRow.healthy
    <3>1. SUFFICES ASSUME Serving, ~deleting, ready PROVE PodRow.healthy
      OBVIOUS
    <3>2. \A c \in ToSet(Regular) : container[c].is = "running" /\ container[c].reason = "none"
      BY <1>1, <3>1, InBoth DEF Serving, PodInv, SaysWhy
    <3>3. FirstReason = "none"
      BY <1>1, <3>2, StatusIs, InBoth
    <3>4. \E c \in ToSet(Regular) : container[c].is = "running"
      BY <3>2, InBoth
    <3>5. Phase = "Running"
      <4>1. ~\E c \in ToSet(InitContainers) \ Sidecars : container[c].is = "failed" /\ Stopped(c)
        BY <3>1 DEF Over
      <4>2. ~\A c \in ToSet(Regular) : Stopped(c)
        BY <3>4 DEF Stopped
      <4>3. ~\A c \in ToSet(Regular) : container[c].is = "waiting" /\ ~container[c].restarted
        BY <3>4
      <4> QED BY <4>1, <4>2, <4>3 DEF Phase
    <3>6. PodStatus = "Running"
      <4> HIDE DEF pending
      <4> QED BY <2>2, <2>3, <3>1, <3>3, <3>5
    <3>7. PodRow.ready = PodRow.total
      <4>1. {c \in ToSet(Regular) \cup Sidecars : container[c].ready} = ToSet(Regular) \cup Sidecars
        BY <3>1 DEF Serving
      <4> QED BY <4>1 DEF PodRow
    <3> QED BY <2>5, <3>6, <3>7
  <2>7. ready => \A c \in ToSet(InitContainers) : PodRow.status # InitStatus(c)
    <3> HIDE DEF pending, ready
    <3> QED BY <2>2, <2>3, <2>4, <2>5
  <2>8. (\E c \in Containers : container[c].reason = "CrashLoopBackOff") => PodRow.status # "Running"
    <3>1. SUFFICES ASSUME NEW c \in Containers, container[c].reason = "CrashLoopBackOff" PROVE PodStatus # "Running"
      BY <2>5
    <3>2. CASE c \in ToSet(Regular)
      <4>1. FirstReason # "none"
        BY <1>1, <3>1, <3>2, StatusIs
      <4> HIDE DEF pending
      <4> QED BY <2>2, <2>4, <4>1
    <3>3. CASE c \in ToSet(InitContainers)
      <4>1. container[c].is = "waiting"
        BY <1>1, <3>1 DEF PodInv, SaysWhy
      <4>2. pending # {}
        BY <3>3, <4>1, InBoth DEF Passed
      <4> HIDE DEF pending
      <4> QED BY <2>2, <2>4, <4>2
    <3> QED BY <3>2, <3>3 DEF Containers
  <2>9. ~Finished => Claim >= InUse
    BY <1>1, ClaimsWhatItUses
  <2>10. Finished => Claim = 0
    BY DEF Claim
  <2> QED BY <2>6, <2>7, <2>8, <2>9, <2>10 DEF PodRowsAreRight
<1> QED BY <1>1, PodInvHolds, PTL

-------------------------------------------------------------------------------
(* The rollouts of the components.                                         *)

Node == UNION {w.nodes : w \in Workload}
CountSet == [desired : Nat, updated : Nat, ready : Nat]
RollSet == [desired : Nat, updated : Nat, ready : Nat, manual : BOOLEAN, nodes : SUBSET Node]
AccSet == UNION {[D -> RollSet] : D \in SUBSET Family}
Polled == {w \in Workload : w.component = Nowhere}

(* What adds up to a rollout is one. *)
LEMMA AddType ==
    /\ NoRollout \in RollSet
    /\ \A r, o \in RollSet : Add(r, o) \in RollSet
    /\ \A w \in Workload, c \in CountSet : RolloutOf(w, c) \in RollSet
    /\ \A acc \in AccSet, f \in Family, r \in RollSet :
          /\ AddTo(acc, f, r) \in AccSet /\ DOMAIN AddTo(acc, f, r) = DOMAIN acc \cup {f}
<1>1. NoRollout \in RollSet /\ \A r, o \in RollSet : Add(r, o) \in RollSet
  <2>1. NoRollout \in RollSet
    BY DEF NoRollout, RollSet
  <2>2. ASSUME NEW r \in RollSet, NEW o \in RollSet PROVE Add(r, o) \in RollSet
    <3>1. /\ r.desired + o.desired \in Nat /\ r.updated + o.updated \in Nat /\ r.ready + o.ready \in Nat
          /\ r.nodes \cup o.nodes \in SUBSET Node /\ (r.manual /\ o.manual) \in BOOLEAN
      BY DEF RollSet
    <3> QED BY <3>1 DEF Add, RollSet
  <2> QED BY <2>1, <2>2
<1>2. \A w \in Workload, c \in CountSet : RolloutOf(w, c) \in RollSet
  BY RolloutsAssumption DEF RolloutOf, RollSet, CountSet
<1>3. ASSUME NEW acc \in AccSet, NEW f \in Family, NEW r \in RollSet
      PROVE  AddTo(acc, f, r) \in AccSet /\ DOMAIN AddTo(acc, f, r) = DOMAIN acc \cup {f}
  <2>1. PICK D \in SUBSET Family : acc \in [D -> RollSet]
    BY DEF AccSet
  <2>2. AddTo(acc, f, r) \in [D \cup {f} -> RollSet]
    <3> DEFINE of(g) == IF g # f THEN acc[g] ELSE Add(IF f \in DOMAIN acc THEN acc[f] ELSE NoRollout, r)
    <3>1. \A g \in D \cup {f} : of(g) \in RollSet
      BY <2>1, <1>1
    <3>2. AddTo(acc, f, r) = [g \in D \cup {f} |-> of(g)]
      BY <2>1 DEF AddTo
    <3> HIDE DEF of
    <3> QED BY <3>1, <3>2
  <2> QED BY <2>1, <2>2 DEF AccSet
<1> QED BY <1>1, <1>2, <1>3

(* What adding a list's first makes of acc, its first two, and so on. *)
LEMMA AddAllIs ==
    ASSUME NEW acc \in AccSet, NEW ws \in Seq(Workload), counts \in [Workload -> CountSet]
    PROVE  \E f \in [0 .. Len(ws) -> AccSet] :
             /\ f[0] = acc /\ AddAll(acc, ws) = f[Len(ws)]
             /\ \A n \in 1 .. Len(ws) : f[n] = AddTo(f[n - 1], ws[n].family, RolloutOf(ws[n], counts[ws[n]]))
<1> DEFINE N == Len(ws)
           W(n, x) == AddTo(x, ws[n].family, RolloutOf(ws[n], counts[ws[n]]))
           g == [n \in 1 .. N |-> [x \in AccSet |-> W(n, x)]]
           upTo[n \in 0 .. Len(ws)] ==
             IF n = 0 THEN acc ELSE AddTo(upTo[n - 1], ws[n].family, RolloutOf(ws[n], counts[ws[n]]))
<1>1. N \in Nat /\ \A n \in 1 .. N, x \in AccSet : W(n, x) \in AccSet
  <2>1. ASSUME NEW n \in 1 .. N, NEW x \in AccSet PROVE W(n, x) \in AccSet
    <3>1. ws[n] \in Workload /\ counts[ws[n]] \in CountSet
      OBVIOUS
    <3>2. ws[n].family \in Family
      BY <3>1 DEF Family
    <3> QED BY <3>1, <3>2, AddType
  <2> QED BY <2>1
<1>2. g \in [1 .. N -> [AccSet -> AccSet]]
  <2> HIDE DEF W
  <2> QED BY <1>1
<1>3. PICK f \in [0 .. N -> AccSet] : f[0] = acc /\ \A n \in 1 .. N : f[n] = g[n][f[n - 1]]
  <2> HIDE DEF g, N, W, upTo
  <2>1. Steps(AccSet, N, acc, g)
    BY <1>1, <1>2 DEF Steps
  <2> QED BY <2>1, Computed
<1>4. \A n \in 1 .. N : f[n] = W(n, f[n - 1])
  <2> HIDE DEF W, N
  <2> TAKE n \in 1 .. N
  <2>1. n - 1 \in 0 .. N
    BY <1>1
  <2>2. f[n - 1] \in AccSet /\ f[n] = g[n][f[n - 1]]
    BY <1>3, <2>1
  <2> HIDE DEF g
  <2>3. g[n] = [x \in AccSet |-> W(n, x)]
    BY DEF g
  <2> QED BY <2>2, <2>3
<1>5. f = [n \in 0 .. N |-> IF n = 0 THEN acc ELSE W(n, f[n - 1])]
  <2> HIDE DEF W, N
  <2>1. \A n \in 0 .. N : f[n] = IF n = 0 THEN acc ELSE W(n, f[n - 1])
    BY <1>1, <1>3, <1>4
  <2>2. f = [n \in 0 .. N |-> f[n]]
    BY <1>3
  <2> QED BY <2>1, <2>2
<1>6. upTo = [n \in 0 .. N |-> IF n = 0 THEN acc ELSE W(n, upTo[n - 1])]
  BY <1>5
<1>7. AddAll(acc, ws) = upTo[N]
  BY DEF AddAll
<1> HIDE DEF upTo
<1>8. \A n \in 0 .. N : upTo[n] = IF n = 0 THEN acc ELSE W(n, upTo[n - 1])
  <2> HIDE DEF W, N
  <2> QED BY <1>6
<1>9. upTo[0] = acc /\ \A n \in 1 .. N : upTo[n] = W(n, upTo[n - 1])
  <2> HIDE DEF W, N
  <2> QED BY <1>1, <1>8
<1>10. \A m \in Nat : m <= N => upTo[m] = f[m]
  <2> HIDE DEF W, N
  <2> DEFINE S == {m \in Nat : m <= N => upTo[m] = f[m]}
  <2>1. 0 \in S
    BY <1>3, <1>9
  <2>2. ASSUME NEW m \in S PROVE m + 1 \in S
    <3>1. m \in Nat /\ m + 1 - 1 = m /\ (m + 1 <= N => m + 1 \in 1 .. N /\ m <= N)
      BY <1>1
    <3> QED BY <3>1, <2>2, <1>4, <1>9
  <2> HIDE DEF S
  <2>3. S = Nat
    <3>1. S \in SUBSET Nat
      BY DEF S
    <3> QED BY <2>1, <2>2, <3>1, Induct
  <2> QED BY <2>3 DEF S
<1>11. upTo[N] = f[N]
  BY <1>1, <1>10
<1> HIDE DEF g
<1> QED BY <1>3, <1>4, <1>7, <1>11

(* What a Rollout is to say of the workloads ws, once their controllers have *)
(* caught up, and what the rollouts of the families are to say of D.         *)
Tells(r, ws) ==
    /\ r.updated <= r.desired
    /\ r.updated = r.desired <=> \A w \in ws : OldNodes(w) = {}
    /\ r.nodes = UNION {OldNodes(w) : w \in {x \in ws : x.kind = "DaemonSet"}}
AllCaught(f) == \A w \in Parts(f) : Caught(w)
AccTells(acc, D) ==
    /\ DOMAIN acc = {w.family : w \in D}
    /\ \A f \in DOMAIN acc : AllCaught(f) => Tells(acc[f], {w \in D : w.family = f})

(* A workload whose controller has caught up has as many up to date as there *)
(* are exactly if none is old.                                               *)
LEMMA CaughtTells ==
    ASSUME NEW w \in Workload, Caught(w)
    PROVE  /\ counts[w].updated <= counts[w].desired
           /\ counts[w].updated = counts[w].desired <=> OldNodes(w) = {}
<1> DEFINE new == {n \in w.nodes : ~Old(w, n)}
<1>1. counts[w].desired = Cardinality(w.nodes) /\ counts[w].updated = Cardinality(new)
  BY DEF Caught, CountsNow
<1>2. IsFiniteSet(w.nodes) /\ new \subseteq w.nodes /\ (new = w.nodes <=> OldNodes(w) = {})
  BY RolloutsAssumption DEF OldNodes
<1> HIDE DEF new
<1>3. Cardinality(new) <= Cardinality(w.nodes) /\ (Cardinality(new) = Cardinality(w.nodes) => new = w.nodes)
  BY <1>2, FS_Subset
<1> QED BY <1>1, <1>2, <1>3

(* Adding up what is told of two sets of workloads tells of both. *)
LEMMA AddTells ==
    ASSUME NEW r \in RollSet, NEW o \in RollSet, NEW A, NEW B, Tells(r, A), Tells(o, B)
    PROVE  Tells(Add(r, o), A \cup B)
<1> DEFINE U(ws) == UNION {OldNodes(w) : w \in {x \in ws : x.kind = "DaemonSet"}}
           NoneOld(ws) == \A w \in ws : OldNodes(w) = {}
<1>1. U(A \cup B) = U(A) \cup U(B) /\ (NoneOld(A \cup B) <=> NoneOld(A) /\ NoneOld(B))
  OBVIOUS
<1>2. \A ws : NoneOld(ws) => U(ws) = {}
  OBVIOUS
<1>3. /\ r.updated <= r.desired /\ (r.updated = r.desired <=> NoneOld(A)) /\ r.nodes = U(A)
      /\ o.updated <= o.desired /\ (o.updated = o.desired <=> NoneOld(B)) /\ o.nodes = U(B)
      /\ {r.updated, r.desired, o.updated, o.desired} \subseteq Nat
  BY DEF Tells, RollSet
<1> DEFINE a == Add(r, o)
<1> SUFFICES /\ a.updated <= a.desired /\ (a.updated = a.desired <=> NoneOld(A \cup B))
             /\ a.nodes = U(A \cup B)
  BY DEF Tells
<1> HIDE DEF U, NoneOld
<1>4. CASE r.desired = 0
  <2>1. a = o /\ NoneOld(A)
    BY <1>3, <1>4 DEF Add
  <2> QED BY <1>1, <1>2, <1>3, <2>1
<1>5. CASE r.desired # 0 /\ o.desired = 0
  <2>1. a = r /\ NoneOld(B)
    BY <1>3, <1>5 DEF Add
  <2> QED BY <1>1, <1>2, <1>3, <2>1
<1>6. CASE r.desired # 0 /\ o.desired # 0
  <2>1. a.desired = r.desired + o.desired /\ a.updated = r.updated + o.updated /\ a.nodes = r.nodes \cup o.nodes
    BY <1>6 DEF Add
  <2>2. a.updated <= a.desired /\ (a.updated = a.desired <=> r.updated = r.desired /\ o.updated = o.desired)
    <3> HIDE DEF a
    <3> QED BY <2>1, <1>3
  <2> QED BY <1>1, <1>3, <2>1, <2>2
<1> QED BY <1>4, <1>5, <1>6

(* So does adding one workload's to the rollouts of the families. *)
LEMMA AddToTells ==
    ASSUME NEW acc \in AccSet, NEW D \in SUBSET Polled, AccTells(acc, D),
           NEW w \in Polled, NEW r \in RollSet, Caught(w) => Tells(r, {w})
    PROVE  AddTo(acc, w.family, r) \in AccSet /\ AccTells(AddTo(acc, w.family, r), D \cup {w})
<1> DEFINE new == AddTo(acc, w.family, r)
           E == D \cup {w}
           In(S, f) == {x \in S : x.family = f}
<1>1. w \in Workload /\ w.family \in Family
  BY DEF Polled, Family
<1>2. new \in AccSet /\ DOMAIN new = DOMAIN acc \cup {w.family}
  BY <1>1, AddType
<1>3. DOMAIN new = {x.family : x \in E}
  BY <1>2 DEF AccTells
<1>4. ASSUME NEW f \in DOMAIN new, AllCaught(f) PROVE Tells(new[f], In(E, f))
  <2>1. CASE f # w.family
    <3>1. f \in DOMAIN acc /\ new[f] = acc[f] /\ In(E, f) = In(D, f)
      BY <1>2, <2>1 DEF AddTo
    <3> QED BY <1>4, <3>1 DEF AccTells
  <2>2. CASE f = w.family
    <3>1. Caught(w) /\ In(E, f) = In(D, f) \cup {w}
      BY <1>4, <2>2 DEF AllCaught, Parts, Polled
    <3>2. CASE f \in DOMAIN acc
      <4>1. new[f] = Add(acc[f], r) /\ acc[f] \in RollSet
        BY <1>2, <2>2, <3>2 DEF AddTo, AccSet
      <4>2. Tells(acc[f], In(D, f))
        BY <1>4, <3>2 DEF AccTells
      <4> HIDE DEF new, In
      <4> QED BY <3>1, <4>1, <4>2, AddTells
    <3>3. CASE f \notin DOMAIN acc
      <4>1. new[f] = r
        BY <1>2, <2>2, <3>3 DEF AddTo, Add, NoRollout
      <4>2. In(D, f) = {}
        BY <3>3 DEF AccTells
      <4> HIDE DEF new, In
      <4> QED BY <3>1, <4>1, <4>2
    <3> QED BY <3>2, <3>3
  <2> QED BY <2>1, <2>2
<1> HIDE DEF new
<1> QED BY <1>2, <1>3, <1>4 DEF AccTells, new

(* And adding all of a list tells of what was told of before and of them. *)
LEMMA AddAllTells ==
    ASSUME counts \in [Workload -> CountSet],
           NEW acc \in AccSet, NEW D \in SUBSET Polled, AccTells(acc, D),
           NEW ws \in Seq(Workload), ToSet(ws) \subseteq Polled,
           \A w \in ToSet(ws) : w.kind # "DaemonSet"
    PROVE  AddAll(acc, ws) \in AccSet /\ AccTells(AddAll(acc, ws), D \cup ToSet(ws))
<1> DEFINE N == Len(ws)
           Upto(m) == {ws[i] : i \in 1 .. m}
<1>1. N \in Nat /\ DOMAIN ws = 1 .. N /\ ToSet(ws) = Upto(N) /\ \A i \in 1 .. N : ws[i] \in Workload /\ ws[i] \in Polled
  BY DEF ToSet
<1>2. PICK f \in [0 .. N -> AccSet] :
         /\ f[0] = acc /\ AddAll(acc, ws) = f[N]
         /\ \A n \in 1 .. N : f[n] = AddTo(f[n - 1], ws[n].family, RolloutOf(ws[n], counts[ws[n]]))
  BY AddAllIs
<1> HIDE DEF N
<1> DEFINE S == {m \in Nat : m <= N => AccTells(f[m], D \cup Upto(m))}
<1>3. 0 \in S
  <2>1. D \cup Upto(0) = D
    OBVIOUS
  <2> HIDE DEF Upto
  <2> QED BY <1>2, <2>1
<1>4. ASSUME NEW m \in S PROVE m + 1 \in S
  <2> SUFFICES ASSUME m + 1 <= N PROVE AccTells(f[m + 1], D \cup Upto(m + 1))
    OBVIOUS
  <2> DEFINE w == ws[m + 1]
             r == RolloutOf(w, counts[w])
  <2>1. m \in Nat /\ m + 1 \in 1 .. N /\ m \in 0 .. N /\ m <= N /\ m + 1 - 1 = m
    BY <1>1
  <2>2. Upto(m + 1) = Upto(m) \cup {w} /\ Upto(m) \subseteq Polled
    <3>1. 1 .. m + 1 = (1 .. m) \cup {m + 1} /\ 1 .. m \subseteq 1 .. N
      BY <1>1, <2>1
    <3> QED BY <3>1, <1>1
  <2>3. w \in Polled /\ w \in Workload /\ w \in ToSet(ws) /\ counts[w] \in CountSet
    BY <1>1, <2>1 DEF ToSet
  <2>4. r \in RollSet
    BY <2>3, AddType
  <2>5. Caught(w) => Tells(r, {w})
    <3> SUFFICES ASSUME Caught(w) PROVE Tells(r, {w})
      OBVIOUS
    <3>1. /\ counts[w].updated <= counts[w].desired
          /\ counts[w].updated = counts[w].desired <=> OldNodes(w) = {}
      BY <2>3, CaughtTells
    <3>2. r.updated = counts[w].updated /\ r.desired = counts[w].desired /\ r.nodes = {}
      BY DEF RolloutOf
    <3>3. w.kind # "DaemonSet"
      BY <2>3
    <3> HIDE DEF r, w
    <3> QED BY <3>1, <3>2, <3>3 DEF Tells
  <2>6. f[m] \in AccSet /\ AccTells(f[m], D \cup Upto(m)) /\ f[m + 1] = AddTo(f[m], w.family, r)
    <3> HIDE DEF Upto
    <3> QED BY <1>2, <2>1
  <2>7. D \cup Upto(m) \in SUBSET Polled /\ D \cup Upto(m + 1) = (D \cup Upto(m)) \cup {w}
    BY <2>2
  <2> HIDE DEF Upto, w, r, S
  <2>8. PICK E : E = D \cup Upto(m)
    OBVIOUS
  <2>9. E \in SUBSET Polled /\ AccTells(f[m], E) /\ D \cup Upto(m + 1) = E \cup {w}
    BY <2>6, <2>7, <2>8
  <2>10. AccTells(AddTo(f[m], w.family, r), E \cup {w})
    BY <2>3, <2>4, <2>5, <2>6, <2>9, AddToTells
  <2> QED BY <2>6, <2>9, <2>10
<1>5. N \in S
  <2>1. S \in SUBSET Nat
    OBVIOUS
  <2> HIDE DEF S
  <2> QED BY <1>1, <1>3, <1>4, <2>1, Induct
<1>6. f[N] \in AccSet
  BY <1>1, <1>2
<1> HIDE DEF Upto
<1> QED BY <1>1, <1>2, <1>5, <1>6

(* What a poll has been through so far. *)
Done ==
    (UNION {OfKind(Kinds[k]) : k \in {x \in 1..3 : x < poll.step}}) \ {poll.listed[i][1] : i \in DOMAIN poll.listed}

(* What makes NodesAreNamed inductive.  During a poll nothing moved since    *)
(* which nothing failed, the rollouts are those of the workloads gone        *)
(* through; the others are listed with the counts they have, each once, and  *)
(* the revision asked for is that of the one under way.                      *)
PollSoFar ==
    /\ poll.step < 4 => poll.listed = <<>>
    /\ \A i \in DOMAIN poll.listed : /\ poll.listed[i][1] \in OfKind("DaemonSet")
                                     /\ poll.listed[i][2] = counts[poll.listed[i][1]]
    /\ \A i, j \in DOMAIN poll.listed : poll.listed[i][1] = poll.listed[j][1] => i = j
    /\ poll.of # Nowhere => poll.current = revision[poll.of]
    /\ AccTells(poll.acc, Done)

PollSet == [step : 0..4, listed : Seq(Workload \X CountSet), of : Workload \cup {Nowhere},
            current : Nat, acc : AccSet]
NamedInv ==
    /\ template \in [Workload -> Nat] /\ revision \in [Workload -> Nat]
    /\ counts \in [Workload -> CountSet] /\ fails \in Nat /\ moved \in BOOLEAN
    /\ poll \in PollSet
    /\ poll.of # Nowhere => poll.step = 4 /\ poll.listed # <<>> /\ poll.of = Head(poll.listed)[1]
    /\ poll.step > 0 /\ fails = 0 /\ ~moved => PollSoFar

LEMMA NamedInvInit == RolloutsInit => NamedInv
<1> SUFFICES ASSUME RolloutsInit PROVE NamedInv
  OBVIOUS
<1>1. <<>> \in AccSet
  <2>1. <<>> \in [{} -> RollSet]
    OBVIOUS
  <2> QED BY <2>1 DEF AccSet
<1>2. <<>> \in Seq(Workload \X CountSet)
  OBVIOUS
<1>3. poll \in PollSet /\ poll.step = 0 /\ poll.of = Nowhere
  BY <1>1, <1>2 DEF RolloutsInit, Idle, PollSet
<1>4. counts \in [Workload -> CountSet]
  <2>1. \A w \in Workload : Cardinality(w.nodes) \in Nat
    BY RolloutsAssumption, FS_CardinalityType
  <2> QED BY <2>1 DEF RolloutsInit, CountSet
<1>5. /\ template \in [Workload -> Nat] /\ revision \in [Workload -> Nat]
      /\ fails \in Nat /\ moved \in BOOLEAN
  BY DEF RolloutsInit
<1> QED BY <1>3, <1>4, <1>5 DEF NamedInv

(* The cluster's steps, and those of its controllers. *)
LEMMA ClusterKeeps ==
    ASSUME NamedInv, NEW w \in Workload,
           Bump(w) \/ Observe(w) \/ \E n \in w.nodes : Replace(w, n) \/ Drain(w, n) \/ Starts(w, n)
    PROVE  NamedInv'
<1>1. moved' = TRUE /\ UNCHANGED <<fails, poll>>
  BY DEF Bump, Observe, Replace, Drain, Starts, Renew
<1>2. template' \in [Workload -> Nat] /\ revision' \in [Workload -> Nat]
  <2>1. template \in [Workload -> Nat] /\ revision \in [Workload -> Nat]
    BY DEF NamedInv
  <2>2. CASE Bump(w)
    BY <2>1, <2>2 DEF Bump
  <2>3. CASE Observe(w)
    BY <2>1, <2>3 DEF Observe
  <2>4. CASE UNCHANGED <<template, revision>>
    BY <2>1, <2>4
  <2> QED BY <2>2, <2>3, <2>4 DEF Replace, Drain, Starts, Renew
<1>3. counts' \in [Workload -> CountSet]
  <2>1. CountsNow(w) \in CountSet
    <3>1. IsFiniteSet(w.nodes)
      BY RolloutsAssumption
    <3>2. \A T \in SUBSET w.nodes : Cardinality(T) \in Nat
      BY <3>1, FS_Subset, FS_CardinalityType
    <3>3. {n \in w.nodes : ~Old(w, n)} \in SUBSET w.nodes /\ {n \in w.nodes : running[w][n].ready} \in SUBSET w.nodes
      OBVIOUS
    <3> QED BY <3>2, <3>3 DEF CountsNow, CountSet
  <2> HIDE DEF CountSet
  <2> QED BY <2>1 DEF NamedInv, Bump, Observe, Replace, Drain, Starts, Renew
<1> QED BY <1>1, <1>2, <1>3 DEF NamedInv

(* While the cluster stands still, what is told stays so. *)
LEMMA StillTells ==
    ASSUME UNCHANGED clusterVars
    PROVE  \A acc, D : AccTells(acc, D)' <=> AccTells(acc, D)
<1>1. template' = template /\ revision' = revision /\ running' = running /\ counts' = counts
  BY DEF clusterVars
<1>2. \A w, n : Old(w, n)' <=> Old(w, n)
  BY <1>1 DEF Old
<1>3. \A w : OldNodes(w)' = OldNodes(w)
  BY <1>2 DEF OldNodes
<1>4. \A w : Caught(w)' <=> Caught(w)
  <2> TAKE w
  <2>1. {n \in w.nodes : ~Old(w, n)'} = {n \in w.nodes : ~Old(w, n)}
    BY <1>2
  <2>2. {n \in w.nodes : running'[w][n].ready} = {n \in w.nodes : running[w][n].ready}
    BY <1>1
  <2>3. CountsNow(w)' = CountsNow(w)
    BY <2>1, <2>2 DEF CountsNow
  <2> QED BY <1>1, <2>3 DEF Caught
<1>5. \A f : AllCaught(f)' <=> AllCaught(f)
  BY <1>4 DEF AllCaught, Parts
<1>6. \A r, ws : Tells(r, ws)' <=> Tells(r, ws)
  <2> TAKE r, ws
  <2>1. UNION {OldNodes(w)' : w \in {x \in ws : x.kind = "DaemonSet"}}
        = UNION {OldNodes(w) : w \in {x \in ws : x.kind = "DaemonSet"}}
    BY <1>3
  <2> QED BY <1>3, <2>1 DEF Tells
<1> QED BY <1>5, <1>6 DEF AccTells

(* The first of those that are listed is added, with the nodes of its old    *)
(* pods.                                                                     *)
LEMMA AddedTells ==
    ASSUME NamedInv, UNCHANGED clusterVars, poll.step = 4, poll.listed # <<>>,
           NEW nodes \in SUBSET Node, poll' = Added(nodes)
    PROVE  /\ poll' \in PollSet /\ poll'.step = 4 /\ poll'.of = Nowhere
           /\ PollSoFar /\ (LET w == Head(poll.listed)[1] IN Caught(w) => nodes = OldNodes(w)) => PollSoFar'
<1> DEFINE item == Head(poll.listed)
           w == item[1]
           r == [RolloutOf(item[1], item[2]) EXCEPT !.nodes = nodes]
<1>1. /\ poll \in PollSet /\ poll.listed \in Seq(Workload \X CountSet) /\ poll.acc \in AccSet
      /\ counts \in [Workload -> CountSet]
  BY DEF NamedInv, PollSet
<1>2. /\ item \in Workload \X CountSet /\ w \in Workload /\ item[2] \in CountSet /\ w.family \in Family
      /\ Tail(poll.listed) \in Seq(Workload \X CountSet)
  BY <1>1 DEF Family
<1>3. r \in RollSet /\ r.desired = item[2].desired /\ r.updated = item[2].updated /\ r.nodes = nodes
  <2>1. RolloutOf(item[1], item[2]) \in RollSet
    BY <1>2, AddType
  <2>2. \A x \in RollSet : /\ [x EXCEPT !.nodes = nodes] \in RollSet
                           /\ [x EXCEPT !.nodes = nodes].desired = x.desired
                           /\ [x EXCEPT !.nodes = nodes].updated = x.updated
                           /\ [x EXCEPT !.nodes = nodes].nodes = nodes
    BY DEF RollSet
  <2>3. /\ RolloutOf(item[1], item[2]).desired = item[2].desired
        /\ RolloutOf(item[1], item[2]).updated = item[2].updated
    BY DEF RolloutOf
  <2> QED BY <2>1, <2>2, <2>3
<1>4. AddTo(poll.acc, w.family, r) \in AccSet
  BY <1>1, <1>2, <1>3, AddType
<1>5. /\ poll'.step = 4 /\ poll'.listed = Tail(poll.listed) /\ poll'.of = Nowhere
      /\ poll'.acc = AddTo(poll.acc, w.family, r) /\ poll' \in PollSet
  <2> HIDE DEF r, w, item
  <2>1. poll' = [poll EXCEPT !.listed = Tail(@), !.of = Nowhere, !.acc = AddTo(@, w.family, r)]
    BY DEF Added, r, w, item
  <2>3. PICK x \in PollSet, l \in Seq(Workload \X CountSet), a \in AccSet :
          x = poll /\ l = Tail(poll.listed) /\ a = AddTo(poll.acc, w.family, r)
    BY <1>1, <1>2, <1>4
  <2>4. poll' = [x EXCEPT !.listed = l, !.of = Nowhere, !.acc = a]
    BY <2>1, <2>3
  <2> DEFINE y == [x EXCEPT !.listed = l, !.of = Nowhere, !.acc = a]
  <2>5. y \in PollSet /\ y.step = x.step /\ y.listed = l /\ y.of = Nowhere /\ y.acc = a
    BY DEF PollSet
  <2>6. poll' = y
    BY <2>4
  <2> HIDE DEF y
  <2> QED BY <2>3, <2>5, <2>6
<1>6. ASSUME PollSoFar, Caught(w) => nodes = OldNodes(w) PROVE PollSoFar'
  <2> DEFINE listed == poll.listed
             L == {listed[i][1] : i \in DOMAIN listed}
             T == {Tail(listed)[i][1] : i \in DOMAIN Tail(listed)}
             All == UNION {OfKind(Kinds[k]) : k \in {x \in 1..3 : x < 4}}
  <2>1. /\ listed \in Seq(Workload \X CountSet) /\ listed # <<>> /\ Len(listed) \in Nat
        /\ DOMAIN listed = 1 .. Len(listed) /\ 1 \in DOMAIN listed /\ item = listed[1]
        /\ DOMAIN Tail(listed) = 1 .. Len(listed) - 1
        /\ \A i \in 1 .. Len(listed) - 1 : Tail(listed)[i] = listed[i + 1] /\ i + 1 \in DOMAIN listed
    BY <1>1
  <2>2. /\ \A i \in DOMAIN listed : listed[i][1] \in OfKind("DaemonSet") /\ listed[i][2] = counts[listed[i][1]]
        /\ \A i, j \in DOMAIN listed : listed[i][1] = listed[j][1] => i = j
    BY <1>6 DEF PollSoFar
  <2> HIDE DEF listed, item
  <2>3. w \in OfKind("DaemonSet") /\ item[2] = counts[w] /\ w \in L
    BY <2>1, <2>2
  <2>4. T = L \ {w}
    <3>1. \A i \in 1 .. Len(listed) - 1 : Tail(listed)[i][1] \in L /\ Tail(listed)[i][1] # w
      BY <2>1, <2>2
    <3>2. ASSUME NEW x \in L \ {w} PROVE x \in T
      <4>1. PICK i \in DOMAIN listed : x = listed[i][1]
        OBVIOUS
      <4>2. i # 1 /\ i - 1 \in 1 .. Len(listed) - 1 /\ i - 1 + 1 = i
        BY <4>1, <2>1
      <4> QED BY <4>1, <4>2, <2>1
    <3> QED BY <3>1, <3>2, <2>1
  <2>5. w \in Polled /\ w \in All /\ All \subseteq Polled
    <3>1. 3 \in {x \in 1..3 : x < 4} /\ Kinds[3] = "DaemonSet"
      BY DEF Kinds
    <3>2. \A k : OfKind(k) \subseteq Polled
      BY DEF OfKind, Polled
    <3> HIDE DEF w
    <3> QED BY <2>3, <3>1, <3>2
  <2>6. Done = All \ L
    <3>1. {x \in 1..3 : x < poll.step} = {x \in 1..3 : x < 4}
      OBVIOUS
    <3> QED BY <3>1, Zenon DEF Done, listed, L, All
  <2>7. Done' = All \ T
    <3>1. {x \in 1..3 : x < poll'.step} = {x \in 1..3 : x < 4}
      BY <1>5
    <3>2. Done' = (UNION {OfKind(Kinds[k]) : k \in {x \in 1..3 : x < poll'.step}})
                    \ {poll'.listed[i][1] : i \in DOMAIN poll'.listed}
      BY DEF Done, OfKind, Kinds
    <3>3. poll'.listed = Tail(listed)
      BY <1>5 DEF listed
    <3> QED BY <3>1, <3>2, <3>3, Zenon DEF T, All
  <2> HIDE DEF T, L, All
  <2>8. Done' = Done \cup {w} /\ Done \in SUBSET Polled
    BY <2>3, <2>4, <2>5, <2>6, <2>7
  <2>9. Caught(w) => Tells(r, {w})
    <3> SUFFICES ASSUME Caught(w) PROVE Tells(r, {w})
      OBVIOUS
    <3>1. /\ counts[w].updated <= counts[w].desired
          /\ counts[w].updated = counts[w].desired <=> OldNodes(w) = {}
      BY <1>2, CaughtTells
    <3>2. w.kind = "DaemonSet" /\ nodes = OldNodes(w)
      BY <1>6, <2>3 DEF OfKind
    <3>3. r.desired = counts[w].desired /\ r.updated = counts[w].updated /\ r.nodes = OldNodes(w)
      BY <1>3, <2>3, <3>2
    <3> HIDE DEF r, w
    <3> QED BY <3>1, <3>2, <3>3 DEF Tells
  <2>10. AccTells(poll'.acc, Done')
    <3>1. AccTells(poll.acc, Done)
      BY <1>6 DEF PollSoFar
    <3> HIDE DEF r, w
    <3>2. PICK D \in SUBSET Polled : D = Done
      BY <2>8
    <3>3. PICK acc \in AccSet : acc = poll.acc
      BY <1>1
    <3>4. AccTells(AddTo(acc, w.family, r), D \cup {w})
      BY <3>1, <3>2, <3>3, <2>5, <2>9, <1>3, AddToTells
    <3> QED BY <3>2, <3>3, <3>4, <2>8, <1>5
  <2>11. AccTells(poll.acc, Done)'
    <3>1. PICK a, D : a = poll'.acc /\ D = Done'
      OBVIOUS
    <3>2. AccTells(a, D)'
      BY <2>10, <3>1, StillTells
    <3> QED BY <3>1, <3>2
  <2>12. \A i \in DOMAIN Tail(listed) : /\ Tail(listed)[i][1] \in OfKind("DaemonSet")
                                        /\ Tail(listed)[i][2] = counts[Tail(listed)[i][1]]
    BY <2>1, <2>2
  <2>13. \A i, j \in DOMAIN Tail(listed) : Tail(listed)[i][1] = Tail(listed)[j][1] => i = j
    <3> SUFFICES ASSUME NEW i \in DOMAIN Tail(listed), NEW j \in DOMAIN Tail(listed),
                        Tail(listed)[i][1] = Tail(listed)[j][1]
                 PROVE  i = j
      OBVIOUS
    <3>1. listed[i + 1][1] = listed[j + 1][1] /\ i + 1 \in DOMAIN listed /\ j + 1 \in DOMAIN listed
      BY <2>1
    <3>2. i + 1 = j + 1 /\ i \in Int /\ j \in Int
      BY <3>1, <2>1, <2>2
    <3> QED BY <3>2
  <2> QED BY <1>5, <2>11, <2>12, <2>13 DEF PollSoFar, OfKind, clusterVars, listed
<1> QED BY <1>5, <1>6

(* A poll begins with nothing. *)
LEMMA BeginKeeps == ASSUME NamedInv, Begin PROVE NamedInv'
<1>1. /\ poll' = [Idle EXCEPT !.step = 1] /\ UNCHANGED clusterVars /\ UNCHANGED fails /\ moved' = FALSE
  BY DEF Begin
<1>2. /\ poll'.step = 1 /\ poll'.listed = <<>> /\ poll'.of = Nowhere /\ poll'.acc = <<>>
      /\ poll' = [step |-> 1, listed |-> <<>>, of |-> Nowhere, current |-> 0, acc |-> <<>>]
  BY <1>1 DEF Idle
<1>3. poll' \in PollSet
  <2>1. <<>> \in AccSet
    <3>1. <<>> \in [{} -> RollSet]
      OBVIOUS
    <3> QED BY <3>1 DEF AccSet
  <2>2. <<>> \in Seq(Workload \X CountSet)
    OBVIOUS
  <2> QED BY <1>2, <2>1, <2>2 DEF PollSet
<1>4. AccTells(poll.acc, Done)'
  <2>1. {x \in 1..3 : x < poll'.step} = {}
    BY <1>2
  <2>2. Done' = {}
    <3>1. Done' = (UNION {OfKind(Kinds[k])' : k \in {x \in 1..3 : x < poll'.step}})
                  \ {poll'.listed[i][1] : i \in DOMAIN poll'.listed}
      BY DEF Done, Kinds
    <3> QED BY <2>1, <3>1
  <2>3. DOMAIN poll'.acc = {}
    BY <1>2
  <2> QED BY <2>2, <2>3 DEF AccTells
<1>5. PollSoFar'
  BY <1>2, <1>4 DEF PollSoFar
<1> QED BY <1>1, <1>2, <1>3, <1>5 DEF NamedInv, clusterVars

(* A kind that is listed is added, or kept to be gone through. *)
LEMMA ListKeeps == ASSUME NamedInv, ListKind PROVE NamedInv'
<1> DEFINE S == OfKind(Kinds[poll.step])
           ws == SetToSeq(S)
           rows == [i \in DOMAIN ws |-> <<ws[i], counts[ws[i]]>>]
<1>1. /\ poll.step \in 1..3 /\ UNCHANGED clusterVars /\ UNCHANGED moved /\ poll.of = Nowhere
      /\ poll \in PollSet /\ poll.acc \in AccSet /\ counts \in [Workload -> CountSet] /\ fails \in Nat
  BY DEF ListKind, NamedInv, PollSet
<1>2. S \subseteq Polled /\ S \subseteq Workload /\ IsFiniteSet(S)
  BY RolloutsAssumption, FS_Subset DEF OfKind, Polled
<1> HIDE DEF S
<1>3. /\ ws \in Seq(S) /\ ToSet(ws) = S /\ \A i, j \in DOMAIN ws : ws[i] = ws[j] => i = j
  BY <1>2, SeqOfSet
<1> HIDE DEF ws
<1>4. ws \in Seq(Workload) /\ \A i \in DOMAIN ws : ws[i] \in S
  BY <1>2, <1>3
<1>5. rows \in Seq(Workload \X CountSet) /\ DOMAIN rows = DOMAIN ws
  BY <1>1, <1>4
<1>6. AddAll(poll.acc, ws) \in AccSet
  <2>1. PICK acc \in AccSet : acc = poll.acc
    BY <1>1
  <2>2. PICK f \in [0 .. Len(ws) -> AccSet] : AddAll(acc, ws) = f[Len(ws)]
    BY <1>1, <1>4, AddAllIs
  <2>3. Len(ws) \in 0 .. Len(ws)
    BY <1>4
  <2> QED BY <2>1, <2>2, <2>3
<1>7. CASE Fails /\ poll' = [poll EXCEPT !.step = @ + 1]
  <2>1. fails' # 0 /\ fails' \in Nat
    BY <1>1, <1>7 DEF Fails
  <2>2. poll' \in PollSet /\ poll'.of = Nowhere
    BY <1>1, <1>7 DEF PollSet
  <2> QED BY <1>1, <2>1, <2>2 DEF NamedInv, clusterVars
<1>8. CASE Succeeds /\ poll.step = 3 /\ poll' = [poll EXCEPT !.step = 4, !.listed = rows]
  <2> HIDE DEF rows
  <2>1. poll' \in PollSet /\ poll'.of = Nowhere /\ poll'.listed = rows /\ poll'.step = 4 /\ poll'.acc = poll.acc
    <3>1. PICK x \in PollSet, n \in 0..4, l \in Seq(Workload \X CountSet) : x = poll /\ n = 4 /\ l = rows
      BY <1>1, <1>5
    <3> DEFINE y == [x EXCEPT !.step = n, !.listed = l]
    <3>2. y \in PollSet /\ y.step = n /\ y.listed = l /\ y.of = x.of /\ y.acc = x.acc
      BY DEF PollSet
    <3>3. poll' = y
      BY <1>8, <3>1
    <3> HIDE DEF y
    <3> QED BY <1>1, <3>1, <3>2, <3>3
  <2>2. ASSUME fails = 0, ~moved PROVE PollSoFar'
    <3>1. PollSoFar
      BY <1>8, <2>2 DEF NamedInv
    <3>2. S = OfKind("DaemonSet")
      BY <1>8 DEF S, Kinds
    <3>3. {rows[i][1] : i \in DOMAIN rows} = S
      BY <1>3, <1>5 DEF rows, ToSet
    <3>4. Done' = Done
      <4>1. Done' = (UNION {OfKind(Kinds[k])' : k \in {x \in 1..3 : x < poll'.step}})
                    \ {poll'.listed[i][1] : i \in DOMAIN poll'.listed}
        BY DEF Done, Kinds
      <4>2. {x \in 1..3 : x < poll'.step} = {1, 2, 3} /\ {x \in 1..3 : x < poll.step} = {1, 2}
        BY <2>1, <1>8
      <4>3. \A k : OfKind(Kinds[k])' = OfKind(Kinds[k])
        BY DEF OfKind, Kinds
      <4>4. Done' = (OfKind(Kinds[1]) \cup OfKind(Kinds[2]) \cup OfKind(Kinds[3])) \ S
        BY <4>1, <4>2, <4>3, <2>1, <3>3
      <4>5. Done = OfKind(Kinds[1]) \cup OfKind(Kinds[2])
        <5>1. {poll.listed[i][1] : i \in DOMAIN poll.listed} = {}
          BY <3>1, <1>8 DEF PollSoFar
        <5> QED BY <4>2, <5>1 DEF Done
      <4>6. OfKind(Kinds[3]) = S /\ OfKind(Kinds[1]) \cap S = {} /\ OfKind(Kinds[2]) \cap S = {}
        BY <3>2 DEF OfKind, Kinds
      <4> QED BY <4>4, <4>5, <4>6
    <3>5. AccTells(poll.acc, Done)'
      <4>1. PICK a, D : a = poll.acc /\ D = Done
        OBVIOUS
      <4>2. AccTells(a, D)'
        BY <3>1, <4>1, StillTells, <1>1 DEF PollSoFar
      <4> QED BY <4>1, <4>2, <3>4, <2>1
    <3>6. \A i \in DOMAIN rows : rows[i] = <<ws[i], counts[ws[i]]>> /\ ws[i] \in S
      BY <1>4, <1>5 DEF rows
    <3>7. \A i \in DOMAIN rows : rows[i][1] \in OfKind("DaemonSet") /\ rows[i][2] = counts[rows[i][1]]
      BY <3>2, <3>6
    <3>8. \A i, j \in DOMAIN rows : rows[i][1] = rows[j][1] => i = j
      BY <3>6, <1>3, <1>5
    <3> QED BY <1>1, <2>1, <3>5, <3>7, <3>8 DEF PollSoFar, OfKind, clusterVars
  <2> QED BY <1>1, <1>8, <2>1, <2>2 DEF NamedInv, clusterVars, Succeeds
<1>9. CASE Succeeds /\ poll.step # 3 /\ poll' = [poll EXCEPT !.step = @ + 1, !.acc = AddAll(@, ws)]
  <2>1. PICK acc \in AccSet : acc = AddAll(poll.acc, ws)
    BY <1>6
  <2>2. poll' = [poll EXCEPT !.step = poll.step + 1, !.acc = acc]
    BY <1>9, <2>1
  <2>3. /\ poll' \in PollSet /\ poll'.of = Nowhere /\ poll'.listed = poll.listed
        /\ poll'.step = poll.step + 1 /\ poll'.acc = acc
    <3>1. PICK x \in PollSet, n \in 0..4 : x = poll /\ n = poll.step + 1
      BY <1>1, <1>9
    <3> DEFINE y == [x EXCEPT !.step = n, !.acc = acc]
    <3>2. y \in PollSet /\ y.step = n /\ y.listed = x.listed /\ y.of = x.of /\ y.acc = acc
      BY DEF PollSet
    <3>3. poll' = y
      BY <2>2, <3>1
    <3> HIDE DEF y
    <3> QED BY <1>1, <3>1, <3>2, <3>3
  <2>4. ASSUME fails = 0, ~moved PROVE PollSoFar'
    <3>1. PollSoFar /\ poll.listed = <<>>
      BY <1>1, <1>9, <2>4 DEF NamedInv, PollSoFar
    <3>2. Done' = Done \cup S
      <4>1. Done' = (UNION {OfKind(Kinds[k])' : k \in {x \in 1..3 : x < poll'.step}})
                    \ {poll'.listed[i][1] : i \in DOMAIN poll'.listed}
        BY DEF Done, Kinds
      <4>2. {x \in 1..3 : x < poll'.step} = {x \in 1..3 : x < poll.step} \cup {poll.step}
        BY <1>1, <1>9, <2>3
      <4>3. \A k : OfKind(Kinds[k])' = OfKind(Kinds[k])
        BY DEF OfKind, Kinds
      <4>4. {poll.listed[i][1] : i \in DOMAIN poll.listed} = {} /\ {poll'.listed[i][1] : i \in DOMAIN poll'.listed} = {}
        BY <3>1, <2>3
      <4>5. Done' = UNION {OfKind(Kinds[k]) : k \in {x \in 1..3 : x < poll.step} \cup {poll.step}}
        BY <4>1, <4>2, <4>3, <4>4
      <4>6. Done = UNION {OfKind(Kinds[k]) : k \in {x \in 1..3 : x < poll.step}}
        BY <4>4 DEF Done
      <4> QED BY <4>5, <4>6 DEF S
    <3>3. PICK D : D = Done
      OBVIOUS
    <3>4. D \in SUBSET Polled
      BY <3>3 DEF Done, OfKind, Polled
    <3>5. \A w \in S : w.kind # "DaemonSet"
      BY <1>1, <1>9 DEF S, OfKind, Kinds
    <3>6. PICK a \in AccSet : a = poll.acc
      BY <1>1
    <3>7. AccTells(AddAll(a, ws), D \cup ToSet(ws))
      BY <3>1, <3>3, <3>4, <3>5, <3>6, <1>1, <1>2, <1>3, <1>4, AddAllTells DEF PollSoFar
    <3>8. AccTells(acc, D \cup S)
      BY <3>6, <3>7, <2>1, <1>3
    <3>9. PICK E : E = D \cup S
      OBVIOUS
    <3>10. AccTells(acc, E)'
      BY <1>1, <3>8, <3>9, StillTells
    <3>11. AccTells(poll.acc, Done)'
      BY <2>3, <3>2, <3>3, <3>9, <3>10
    <3> QED BY <2>3, <3>1, <3>11 DEF PollSoFar
  <2> QED BY <1>1, <1>9, <2>3, <2>4 DEF NamedInv, clusterVars, Succeeds
<1> QED BY <1>7, <1>8, <1>9 DEF ListKind, S, ws, rows

(* What is asked of the first, and what is answered. *)
LEMMA NextKeeps == ASSUME NamedInv, NextDaemonSet PROVE NamedInv'
<1> DEFINE item == Head(poll.listed)
           w == item[1]
<1>1. /\ poll.step = 4 /\ poll.listed # <<>> /\ poll.of = Nowhere /\ UNCHANGED clusterVars /\ UNCHANGED moved
      /\ poll \in PollSet /\ poll.listed \in Seq(Workload \X CountSet) /\ revision \in [Workload -> Nat]
      /\ fails \in Nat /\ {} \in SUBSET Node
  BY DEF NextDaemonSet, NamedInv, PollSet
<1>2. /\ item \in Workload \X CountSet /\ w \in Workload /\ item[2] \in CountSet /\ item = poll.listed[1]
      /\ 1 \in DOMAIN poll.listed
  BY <1>1
<1>3. CASE Succeeds /\ Converged(RolloutOf(item[1], item[2])) /\ poll' = Added({})
  <2>1. poll' \in PollSet /\ poll'.step = 4 /\ poll'.of = Nowhere
    BY <1>1, <1>3, AddedTells
  <2>2. ASSUME fails = 0, ~moved PROVE PollSoFar'
    <3>1. PollSoFar /\ item[2] = counts[w]
      BY <1>1, <1>2, <2>2 DEF NamedInv, PollSoFar
    <3>2. Caught(w) => {} = OldNodes(w)
      <4> SUFFICES ASSUME Caught(w) PROVE {} = OldNodes(w)
        OBVIOUS
      <4>1. /\ counts[w].updated <= counts[w].desired
            /\ counts[w].updated = counts[w].desired <=> OldNodes(w) = {}
        BY <1>2, CaughtTells
      <4>2. /\ counts[w].updated \in Nat /\ counts[w].desired \in Nat
            /\ ~(counts[w].desired > counts[w].updated)
        BY <1>2, <1>3, <3>1 DEF CountSet, Converged, Stale, RolloutOf
      <4> HIDE DEF w
      <4> QED BY <4>1, <4>2
    <3> QED BY <3>1, <3>2, <1>1, <1>3, AddedTells
  <2> QED BY <1>1, <1>3, <2>1, <2>2 DEF NamedInv, clusterVars, Succeeds
<1>4. CASE Fails /\ poll' = Added({})
  <2>1. poll' \in PollSet /\ poll'.step = 4 /\ poll'.of = Nowhere
    BY <1>1, <1>4, AddedTells
  <2>2. fails' # 0 /\ fails' \in Nat
    BY <1>1, <1>4 DEF Fails
  <2> QED BY <1>1, <2>1, <2>2 DEF NamedInv, clusterVars
<1>5. CASE Succeeds /\ poll' = [poll EXCEPT !.of = item[1], !.current = revision[item[1]]]
  <2>1. /\ poll' \in PollSet /\ poll'.step = 4 /\ poll'.of = w /\ poll'.current = revision[w]
        /\ poll'.listed = poll.listed /\ poll'.acc = poll.acc
    <3>1. PICK x \in PollSet, o \in Workload, n \in Nat : x = poll /\ o = w /\ n = revision[w]
      BY <1>1, <1>2
    <3> DEFINE y == [x EXCEPT !.of = o, !.current = n]
    <3>2. y \in PollSet /\ y.step = x.step /\ y.listed = x.listed /\ y.of = o /\ y.current = n /\ y.acc = x.acc
      BY DEF PollSet
    <3>3. poll' = y
      BY <1>5, <3>1
    <3> HIDE DEF y, item, w
    <3> QED BY <1>1, <3>1, <3>2, <3>3
  <2>2. ASSUME fails = 0, ~moved PROVE PollSoFar'
    <3>1. PollSoFar
      BY <1>1, <2>2 DEF NamedInv
    <3>2. Done' = Done
      <4>1. Done' = (UNION {OfKind(Kinds[k])' : k \in {x \in 1..3 : x < poll'.step}})
                    \ {poll'.listed[i][1] : i \in DOMAIN poll'.listed}
        BY DEF Done, Kinds
      <4>2. \A k : OfKind(Kinds[k])' = OfKind(Kinds[k])
        BY DEF OfKind, Kinds
      <4>3. poll'.step = poll.step /\ poll'.listed = poll.listed
        BY <1>1, <2>1
      <4> QED BY <4>1, <4>2, <4>3 DEF Done
    <3>3. PICK a, D : a = poll.acc /\ D = Done
      OBVIOUS
    <3>4. AccTells(a, D)'
      BY <3>1, <3>3, StillTells, <1>1 DEF PollSoFar
    <3>5. AccTells(poll.acc, Done)'
      BY <3>2, <3>3, <3>4, <2>1
    <3> QED BY <1>1, <2>1, <3>1, <3>5 DEF PollSoFar, OfKind, clusterVars
  <2> QED BY <1>1, <1>2, <1>5, <2>1, <2>2 DEF NamedInv, clusterVars, Succeeds
<1> QED BY <1>3, <1>4, <1>5 DEF NextDaemonSet

LEMMA StaleKeeps == ASSUME NamedInv, StaleNodes PROVE NamedInv'
<1> DEFINE old == {n \in poll.of.nodes : running[poll.of][n].rev # poll.current}
<1>1. /\ poll.step = 4 /\ poll.listed # <<>> /\ poll.of # Nowhere /\ poll.of = Head(poll.listed)[1]
      /\ UNCHANGED clusterVars /\ UNCHANGED moved /\ poll.of \in Workload /\ fails \in Nat
  BY DEF StaleNodes, NamedInv, PollSet
<1>2. old \in SUBSET Node /\ {} \in SUBSET Node
  BY <1>1 DEF Node
<1>3. CASE Fails /\ poll' = Added({})
  <2>1. poll' \in PollSet /\ poll'.step = 4 /\ poll'.of = Nowhere
    BY <1>1, <1>2, <1>3, AddedTells
  <2>2. fails' # 0 /\ fails' \in Nat
    BY <1>1, <1>3 DEF Fails
  <2> QED BY <1>1, <2>1, <2>2 DEF NamedInv, clusterVars
<1>4. CASE Succeeds /\ poll' = Added(old)
  <2> HIDE DEF old
  <2>1. poll' \in PollSet /\ poll'.step = 4 /\ poll'.of = Nowhere
    BY <1>1, <1>2, <1>4, AddedTells
  <2>2. ASSUME fails = 0, ~moved PROVE PollSoFar'
    <3>1. PollSoFar /\ poll.current = revision[poll.of]
      BY <1>1, <2>2 DEF NamedInv, PollSoFar
    <3>2. Caught(poll.of) => old = OldNodes(poll.of)
      BY <3>1 DEF old, Caught, OldNodes, Old
    <3> QED BY <3>1, <3>2, <1>1, <1>2, <1>4, AddedTells
  <2> QED BY <1>1, <1>4, <2>1, <2>2 DEF NamedInv, clusterVars, Succeeds
<1> QED BY <1>3, <1>4 DEF StaleNodes, old

LEMMA PublishKeeps == ASSUME NamedInv, PublishComponents PROVE NamedInv'
<1>1. poll' = Idle /\ UNCHANGED clusterVars /\ UNCHANGED moved /\ UNCHANGED fails
  BY DEF PublishComponents
<1>2. <<>> \in AccSet
  <2>1. <<>> \in [{} -> RollSet]
    OBVIOUS
  <2> QED BY <2>1 DEF AccSet
<1>3. <<>> \in Seq(Workload \X CountSet)
  OBVIOUS
<1>4. poll' \in PollSet /\ poll'.step = 0 /\ poll'.of = Nowhere
  BY <1>1, <1>2, <1>3 DEF Idle, PollSet
<1> QED BY <1>1, <1>4 DEF NamedInv, clusterVars

LEMMA NamedInvNext == NamedInv /\ [RolloutsNext]_rolloutVars => NamedInv'
<1> SUFFICES ASSUME NamedInv, [RolloutsNext]_rolloutVars PROVE NamedInv'
  OBVIOUS
<1>1. CASE \E w \in Workload : Bump(w) \/ Observe(w) \/ \E n \in w.nodes : Replace(w, n) \/ Drain(w, n) \/ Starts(w, n)
  BY <1>1, ClusterKeeps
<1>2. CASE Polling
  BY <1>2, BeginKeeps, ListKeeps, NextKeeps, StaleKeeps, PublishKeeps DEF Polling
<1>3. CASE UNCHANGED rolloutVars
  <2>1. UNCHANGED clusterVars /\ UNCHANGED <<poll, fails, moved>>
    BY <1>3 DEF rolloutVars, clusterVars
  <2>2. PollSoFar => PollSoFar'
    <3>1. Done' = Done
      <4>1. Done' = (UNION {OfKind(Kinds[k])' : k \in {x \in 1..3 : x < poll'.step}})
                    \ {poll'.listed[i][1] : i \in DOMAIN poll'.listed}
        BY DEF Done, Kinds
      <4>2. \A k : OfKind(Kinds[k])' = OfKind(Kinds[k])
        BY DEF OfKind, Kinds
      <4> QED BY <4>1, <4>2, <2>1 DEF Done
    <3>2. PICK a, D : a = poll.acc /\ D = Done
      OBVIOUS
    <3>3. AccTells(a, D)' <=> AccTells(a, D)
      BY <2>1, StillTells
    <3>4. AccTells(poll.acc, Done)' <=> AccTells(poll.acc, Done)
      BY <3>1, <3>2, <3>3, <2>1
    <3> QED BY <2>1, <3>4 DEF PollSoFar, OfKind, clusterVars
  <2> QED BY <2>1, <2>2 DEF NamedInv, clusterVars
<1> QED BY <1>1, <1>2, <1>3 DEF RolloutsNext

(* What is told of all the polled workloads is what NodesAreNamed says. *)
LEMMA NamedInvTells == NamedInv => NodesAreNamed
<1> SUFFICES ASSUME NamedInv, poll.step = 4, poll.listed = <<>>, ~moved, fails = 0,
                    NEW f \in DOMAIN poll.acc, \A w \in Parts(f) : Caught(w)
             PROVE  /\ Converged(poll.acc[f]) <=> \A w \in Parts(f) : OldNodes(w) = {}
                    /\ poll.acc[f].nodes = UNION {OldNodes(w) : w \in {x \in Parts(f) : x.kind = "DaemonSet"}}
  BY DEF NodesAreNamed
<1>1. PollSoFar /\ poll.acc \in AccSet
  BY DEF NamedInv, PollSet
<1>2. Done = Polled
  <2>1. {x \in 1..3 : x < poll.step} = 1..3 /\ {poll.listed[i][1] : i \in DOMAIN poll.listed} = {}
    OBVIOUS
  <2>2. \A w \in Workload : \E k \in 1..3 : w.kind = Kinds[k]
    BY RolloutsAssumption DEF ToSet, Kinds
  <2>3. Done = UNION {OfKind(Kinds[k]) : k \in 1..3}
    BY <2>1 DEF Done
  <2> QED BY <2>2, <2>3 DEF OfKind, Polled
<1>3. {w \in Done : w.family = f} = Parts(f)
  BY <1>2 DEF Polled, Parts
<1>4. Tells(poll.acc[f], Parts(f))
  BY <1>1, <1>3 DEF PollSoFar, AccTells, AllCaught
<1>5. poll.acc[f] \in RollSet
  BY <1>1 DEF AccSet
<1>6. PICK r \in RollSet : r = poll.acc[f]
  BY <1>5
<1>7. Converged(r) <=> r.updated = r.desired
  <2>1. r.updated <= r.desired /\ r.updated \in Nat /\ r.desired \in Nat
    BY <1>4, <1>6 DEF Tells, RollSet
  <2> QED BY <2>1 DEF Converged, Stale
<1> QED BY <1>4, <1>6, <1>7 DEF Tells

(* In every behaviour, the moment a poll is over during which nothing moved  *)
(* and no request failed, a component whose controllers had caught up is     *)
(* told converged only if every pod runs the current template, and the nodes *)
(* named are those whose pods do not (pollComponents, StaleNodes).           *)
THEOREM NamesTheOldNodes == RolloutsSpec => []NodesAreNamed
<1>1. RolloutsInit => NamedInv
  BY NamedInvInit
<1>2. NamedInv /\ [RolloutsNext]_rolloutVars => NamedInv'
  BY NamedInvNext
<1>3. NamedInv => NodesAreNamed
  BY NamedInvTells
<1> QED BY <1>1, <1>2, <1>3, PTL DEF RolloutsSpec

(* Types, and the controllers never being ahead of the templates. *)
RolloutsTypes ==
    /\ NamedInv /\ DOMAIN running = Workload /\ components \in AccSet
    /\ \A w \in Workload : revision[w] <= template[w] /\ counts[w].updated <= counts[w].desired

LEMMA TypesInit == RolloutsInit => RolloutsTypes
<1> SUFFICES ASSUME RolloutsInit PROVE RolloutsTypes
  OBVIOUS
<1>1. NamedInv
  BY NamedInvInit
<1>2. components \in AccSet
  <2>1. <<>> \in [{} -> RollSet]
    OBVIOUS
  <2> QED BY <2>1 DEF AccSet, RolloutsInit
<1>3. \A w \in Workload : revision[w] <= template[w]
  BY DEF RolloutsInit
<1>4. ASSUME NEW w \in Workload PROVE counts[w].updated <= counts[w].desired
  <2>1. PICK n \in Nat : n = Cardinality(w.nodes)
    BY RolloutsAssumption, FS_CardinalityType
  <2>2. counts[w].updated = n /\ counts[w].desired = n
    BY <2>1 DEF RolloutsInit
  <2> QED BY <2>2
<1>5. DOMAIN running = Workload
  BY DEF RolloutsInit
<1> QED BY <1>1, <1>2, <1>3, <1>4, <1>5 DEF RolloutsTypes

LEMMA TypesNext == RolloutsTypes /\ [RolloutsNext]_rolloutVars => RolloutsTypes'
<1> SUFFICES ASSUME RolloutsTypes, [RolloutsNext]_rolloutVars PROVE RolloutsTypes'
  OBVIOUS
<1>1. NamedInv /\ NamedInv' /\ components \in AccSet
  BY NamedInvNext DEF RolloutsTypes
<1>2. /\ template \in [Workload -> Nat] /\ revision \in [Workload -> Nat] /\ counts \in [Workload -> CountSet]
      /\ DOMAIN running = Workload /\ \A x \in Workload : revision[x] <= template[x]
      /\ \A x \in Workload : counts[x].updated <= counts[x].desired
  BY <1>1 DEF NamedInv, RolloutsTypes
<1>3. CASE \E w \in Workload : Bump(w) \/ Observe(w) \/ \E n \in w.nodes : Replace(w, n) \/ Drain(w, n) \/ Starts(w, n)
  <2> PICK w \in Workload : Bump(w) \/ Observe(w) \/ \E n \in w.nodes : Replace(w, n) \/ Drain(w, n) \/ Starts(w, n)
    BY <1>3
  <2>1. CASE Bump(w)
    <3>1. template' = [template EXCEPT ![w] = template[w] + 1] /\ UNCHANGED <<revision, running, counts, components>>
      BY <2>1 DEF Bump
    <3>2. \A x \in Workload : template'[x] \in Nat /\ template[x] \in Nat /\ template[x] <= template'[x] /\ revision[x] \in Nat
      BY <1>2, <3>1
    <3> QED BY <1>1, <1>2, <3>1, <3>2 DEF RolloutsTypes
  <2>2. CASE Observe(w)
    <3>1. /\ revision' = [revision EXCEPT ![w] = template[w]] /\ counts' = [counts EXCEPT ![w] = CountsNow(w)]
          /\ UNCHANGED <<template, running, components>>
      BY <2>2 DEF Observe
    <3>2. \A x \in Workload : revision'[x] <= template'[x]
      BY <1>2, <3>1
    <3>3. CountsNow(w).updated <= CountsNow(w).desired
      <4>1. IsFiniteSet(w.nodes) /\ {n \in w.nodes : ~Old(w, n)} \subseteq w.nodes
        BY RolloutsAssumption
      <4>2. Cardinality({n \in w.nodes : ~Old(w, n)}) <= Cardinality(w.nodes)
        BY <4>1, FS_Subset
      <4> QED BY <4>2 DEF CountsNow
    <3>4. \A x \in Workload : counts'[x].updated <= counts'[x].desired
      BY <1>2, <3>1, <3>3
    <3> QED BY <1>1, <1>2, <3>1, <3>2, <3>4 DEF RolloutsTypes
  <2>3. CASE \E n \in w.nodes : Replace(w, n) \/ Drain(w, n) \/ Starts(w, n)
    BY <1>1, <1>2, <2>3 DEF RolloutsTypes, Replace, Drain, Starts, Renew
  <2> QED BY <2>1, <2>2, <2>3
<1>4. CASE Polling
  <2>1. UNCHANGED clusterVars
    BY <1>4 DEF Polling, Begin, ListKind, NextDaemonSet, StaleNodes, PublishComponents
  <2>2. components' \in AccSet
    BY <1>1, <1>4 DEF Polling, Begin, ListKind, NextDaemonSet, StaleNodes, PublishComponents, NamedInv, PollSet
  <2> QED BY <1>1, <1>2, <2>1, <2>2 DEF RolloutsTypes, clusterVars
<1>5. CASE UNCHANGED rolloutVars
  BY <1>1, <1>2, <1>5 DEF RolloutsTypes, rolloutVars
<1> QED BY <1>3, <1>4, <1>5 DEF RolloutsNext

(* Every state of a behaviour is of the types the rollouts are given, and no *)
(* controller has seen a template that does not exist.                       *)
THEOREM RolloutsTypeCorrect == RolloutsSpec => []RolloutsTypeOK
<1>1. RolloutsInit => RolloutsTypes
  BY TypesInit
<1>2. RolloutsTypes /\ [RolloutsNext]_rolloutVars => RolloutsTypes'
  BY TypesNext
<1>3. RolloutsTypes => RolloutsTypeOK
  BY DEF RolloutsTypes, RolloutsTypeOK, NamedInv, PollSet, AccSet
<1> QED BY <1>1, <1>2, <1>3, PTL DEF RolloutsSpec

====
