------------------------------- MODULE Watcher -------------------------------
(***************************************************************************)
(* One watch group of a watcher: the informers it reads, the coalescer     *)
(* that rebuilds its snapshots (internal/core/coalesce.go) and the         *)
(* goroutine that publishes once when the caches are warm                  *)
(* (waitThenPublish in internal/core/workload, the tail of Run in          *)
(* internal/core/capi).                                                    *)
(*                                                                         *)
(* Both goroutines run the same publish function: list every cache, then   *)
(* Put every key.  Lists and Puts are separate steps and nothing orders    *)
(* one goroutine's against the other's.  The store itself is module        *)
(* Store; here a Put is one write to what the key shows.                   *)
(*                                                                         *)
(* Instances: nodes and pods (two kinds, two keys, the nodes key computed  *)
(* from both), one Cluster API kind (one kind, one key), Deployments,      *)
(* StatefulSets and DaemonSets (three kinds, one key).                     *)
(***************************************************************************)
EXTENDS Naturals, Sequences

CONSTANTS
    Object,      \* the objects a kind may have
    ListOrder,   \* the kinds, in the order publish lists them
    PutOrder,    \* the keys, in the order publish puts them
    From,        \* per key, the kinds its snapshot is computed from
    Absent,      \* a key that was never written
    MaxQueued    \* bound: handler callbacks waiting at the same time

Kind == {ListOrder[i] : i \in DOMAIN ListOrder}
ShownKey == {PutOrder[i] : i \in DOMAIN PutOrder}

ASSUME WatcherAssumption ==
    /\ ListOrder \in Seq(Kind) /\ ListOrder # <<>>
    /\ PutOrder \in Seq(ShownKey) /\ PutOrder # <<>>
    /\ From \in [ShownKey -> SUBSET Kind]
    /\ MaxQueued \in Nat \ {0}

Goroutine == {"coalesce", "initial"}

VARIABLES
    cluster,    \* per kind, the objects the API server holds
    up,         \* whether the API server answers
    cache,      \* per kind, the objects in the informer's cache
    fill,       \* per kind, "unlisted", then "filling", then "synced"
    backlog,    \* per kind, the objects of the first list not yet in the cache
    queued,     \* callbacks the informers have queued and not run
    dirty,      \* the coalescer's flag
    step,       \* per goroutine: 0 before publish, then one number per list and put
    held,       \* per goroutine, the lists of its current or last publish
    initial,    \* whether the initial publish is still "waiting", or "over"
    canceled,   \* whether the context is
    shown       \* per key, the lists its snapshot was computed from

vars == <<cluster, up, cache, fill, backlog, queued, dirty, step, held, initial,
          canceled, shown>>

Lists == [Kind -> SUBSET Object]
Nothing == [k \in Kind |-> {}]
LastStep == Len(ListOrder) + Len(PutOrder)

TypeOK ==
    /\ cluster \in Lists
    /\ up \in BOOLEAN
    /\ cache \in Lists
    /\ fill \in [Kind -> {"unlisted", "filling", "synced"}]
    /\ backlog \in Lists
    /\ queued \in 0..MaxQueued
    /\ dirty \in BOOLEAN
    /\ step \in [Goroutine -> 0..LastStep]
    /\ held \in [Goroutine -> Lists]
    /\ initial \in {"waiting", "over"}
    /\ canceled \in BOOLEAN
    /\ shown \in [ShownKey -> {Absent} \cup UNION {[K -> SUBSET Object] : K \in SUBSET Kind}]

Init ==
    /\ cluster \in Lists
    /\ up \in BOOLEAN
    /\ cache = Nothing
    /\ fill = [k \in Kind |-> "unlisted"]
    /\ backlog = Nothing
    /\ queued = 0
    /\ dirty = FALSE
    /\ step = [g \in Goroutine |-> 0]
    /\ held = [g \in Goroutine |-> Nothing]
    /\ initial = "waiting"
    /\ canceled = FALSE
    /\ shown = [key \in ShownKey |-> Absent]

-------------------------------------------------------------------------------
(* An object appears or disappears.  An update is its disappearance and      *)
(* return: only membership matters to the properties.                        *)
Toggle(S, o) == IF o \in S THEN S \ {o} ELSE S \cup {o}

ClusterChanges(k, o) ==
    /\ cluster' = [cluster EXCEPT ![k] = Toggle(@, o)]
    /\ UNCHANGED <<up, cache, fill, backlog, queued, dirty, step, held, initial, canceled, shown>>

Outage ==
    /\ up
    /\ up' = FALSE
    /\ UNCHANGED <<cluster, cache, fill, backlog, queued, dirty, step, held, initial, canceled, shown>>

Recover ==
    /\ ~up
    /\ up' = TRUE
    /\ UNCHANGED <<cluster, cache, fill, backlog, queued, dirty, step, held, initial, canceled, shown>>

(* The informer's first list, which it then applies object by object.  Each  *)
(* object applied queues a handler call, before HasSynced as after it.       *)
FirstList(k) ==
    /\ up
    /\ fill[k] = "unlisted"
    /\ fill' = [fill EXCEPT ![k] = "filling"]
    /\ backlog' = [backlog EXCEPT ![k] = cluster[k]]
    /\ UNCHANGED <<cluster, up, cache, queued, dirty, step, held, initial, canceled, shown>>

Fill(k, o) ==
    /\ o \in backlog[k]
    /\ queued < MaxQueued
    /\ backlog' = [backlog EXCEPT ![k] = @ \ {o}]
    /\ cache' = [cache EXCEPT ![k] = @ \cup {o}]
    /\ queued' = queued + 1
    /\ UNCHANGED <<cluster, up, fill, dirty, step, held, initial, canceled, shown>>

(* HasSynced: the first list has been applied completely. *)
Sync(k) ==
    /\ fill[k] = "filling"
    /\ backlog[k] = {}
    /\ fill' = [fill EXCEPT ![k] = "synced"]
    /\ UNCHANGED <<cluster, up, cache, backlog, queued, dirty, step, held, initial, canceled, shown>>

Synced(k) == fill[k] = "synced"

(* The watch applies one later difference and queues the handler call. *)
Deliver(k, o) ==
    /\ up
    /\ Synced(k)
    /\ (o \in cluster[k]) # (o \in cache[k])
    /\ queued < MaxQueued
    /\ cache' = [cache EXCEPT ![k] = Toggle(@, o)]
    /\ queued' = queued + 1
    /\ UNCHANGED <<cluster, up, fill, backlog, dirty, step, held, initial, canceled, shown>>

(* Faulty variant of Resync: a resync period of zero. *)
ResyncOff(k) == Synced(k) /\ UNCHANGED vars

(* The periodic resync calls UpdateFunc for every object in the cache: for   *)
(* none when the kind is empty.  Its period is long against the queue, so it *)
(* finds the queue drained.                                                  *)
Resync(k) ==
    /\ Synced(k)
    /\ cache[k] # {}
    /\ queued = 0
    /\ queued' = queued + 1
    /\ UNCHANGED <<cluster, up, cache, fill, backlog, dirty, step, held, initial, canceled, shown>>

(* A handler runs: it calls the trigger, which marks the group dirty. *)
Callback ==
    /\ queued > 0
    /\ queued' = queued - 1
    /\ dirty' = TRUE
    /\ UNCHANGED <<cluster, up, cache, fill, backlog, step, held, initial, canceled, shown>>

-------------------------------------------------------------------------------
(* The coalescer's timer fires on a dirty group: clear the flag, rebuild.    *)
(* A tick on a clean group does nothing.                                     *)
CoalesceTick ==
    /\ step["coalesce"] = 0
    /\ dirty
    /\ dirty' = FALSE
    /\ step' = [step EXCEPT !["coalesce"] = 1]
    /\ UNCHANGED <<cluster, up, cache, fill, backlog, queued, held, initial, canceled, shown>>

(* waitThenPublish: every cache is warm, so publish once. *)
InitialPublish ==
    /\ initial = "waiting"
    /\ \A k \in Kind : Synced(k)
    /\ initial' = "over"
    /\ step' = [step EXCEPT !["initial"] = 1]
    /\ UNCHANGED <<cluster, up, cache, fill, backlog, queued, dirty, held, canceled, shown>>

(* waitThenPublish: the context ended first, so publish nothing. *)
InitialCanceled ==
    /\ canceled
    /\ initial = "waiting"
    /\ initial' = "over"
    /\ UNCHANGED <<cluster, up, cache, fill, backlog, queued, dirty, step, held, canceled, shown>>

(* publish: list the next kind from the informer's cache. *)
List(g) ==
    /\ step[g] \in DOMAIN ListOrder
    /\ LET k == ListOrder[step[g]]
       IN  held' = [held EXCEPT ![g][k] = cache[k]]
    /\ step' = [step EXCEPT ![g] = @ + 1]
    /\ UNCHANGED <<cluster, up, cache, fill, backlog, queued, dirty, initial, canceled, shown>>

(* Faulty variant of Publish: the flag is cleared once the rebuild is done.  *)
PublishThenClean(g) ==
    /\ step[g] > Len(ListOrder)
    /\ LET key == PutOrder[step[g] - Len(ListOrder)]
       IN  shown' = [shown EXCEPT ![key] = [k \in From[key] |-> held[g][k]]]
    /\ step' = [step EXCEPT ![g] = IF @ = LastStep THEN 0 ELSE @ + 1]
    /\ dirty' = (dirty /\ step[g] # LastStep)
    /\ UNCHANGED <<cluster, up, cache, fill, backlog, queued, held, initial, canceled>>

(* publish: put the next key; the last one ends the call. *)
Publish(g) ==
    /\ step[g] > Len(ListOrder)
    /\ LET key == PutOrder[step[g] - Len(ListOrder)]
       IN  shown' = [shown EXCEPT ![key] = [k \in From[key] |-> held[g][k]]]
    /\ step' = [step EXCEPT ![g] = IF @ = LastStep THEN 0 ELSE @ + 1]
    /\ UNCHANGED <<cluster, up, cache, fill, backlog, queued, dirty, held, initial, canceled>>

Cancel ==
    /\ ~canceled
    /\ canceled' = TRUE
    /\ UNCHANGED <<cluster, up, cache, fill, backlog, queued, dirty, step, held, initial, shown>>

Next ==
    \/ \E k \in Kind, o \in Object : ClusterChanges(k, o) \/ Fill(k, o) \/ Deliver(k, o)
    \/ \E k \in Kind : FirstList(k) \/ Sync(k) \/ Resync(k)
    \/ Outage \/ Recover
    \/ Callback
    \/ CoalesceTick
    \/ InitialPublish
    \/ InitialCanceled
    \/ \E g \in Goroutine : List(g) \/ Publish(g)
    \/ Cancel

(* Until the context ends, an API server that answers keeps the watches fed, *)
(* the timers fire and the goroutines run.  The cluster need not change, the *)
(* server need not come back and nobody need cancel.  After a cancel only a  *)
(* publish already under way completes.  Fill and Deliver are strongly fair  *)
(* because the room they wait for is a bound of the model: every informer    *)
(* has a goroutine and a queue of its own, and the others cannot starve it.  *)
Fairness ==
    /\ \A k \in Kind, o \in Object :
          SF_vars(~canceled /\ Fill(k, o)) /\ SF_vars(~canceled /\ Deliver(k, o))
    /\ \A k \in Kind :
          /\ WF_vars(~canceled /\ FirstList(k))
          /\ WF_vars(~canceled /\ Sync(k))
          /\ WF_vars(~canceled /\ Resync(k))
    /\ WF_vars(~canceled /\ Callback)
    /\ WF_vars(~canceled /\ CoalesceTick)
    /\ WF_vars(~canceled /\ InitialPublish)
    /\ \A g \in Goroutine : WF_vars(List(g)) /\ WF_vars(Publish(g))

SafeSpec == Init /\ [][Next]_vars
Spec == SafeSpec /\ Fairness

-------------------------------------------------------------------------------
Shows(key, lists) == shown[key] = [k \in From[key] |-> lists[k]]

Publishing(g) == step[g] # 0

(* The kinds the publish of g has still to list. *)
ToList(g) ==
    IF step[g] = 0 THEN {} ELSE {ListOrder[i] : i \in {j \in DOMAIN ListOrder : j >= step[g]}}

(* Coalescing forgets no change.  A cache that no longer holds what the      *)
(* coalescer last listed has a callback queued, or the group is dirty, or    *)
(* the rebuild under way has not listed that kind yet; however callbacks     *)
(* fall between the clearing of the flag, the lists and the puts.            *)
NoLostChange ==
    \A k \in Kind :
        held["coalesce"][k] # cache[k] => queued > 0 \/ dirty \/ k \in ToList("coalesce")

(* A group that comes to rest with an object in it ends up shown as it is,   *)
(* whatever the two publishers did to each other before: the resync sees to  *)
(* that.                                                                     *)
DriftHeals ==
    \A lists \in Lists :
        lists # Nothing =>
            (<>[](cluster = lists /\ up /\ ~canceled)
                => <>[](\A key \in ShownKey : Shows(key, lists)))

===============================================================================
