----------------------------- MODULE CapiWatcher -----------------------------
(***************************************************************************)
(* Watcher.Run of internal/core/capi: the order in which the kinds of      *)
(* Cluster API and Metal3 are looked up, watched, waited for and first     *)
(* published, and the management events after them.                        *)
(*                                                                         *)
(* One kind's own race between its coalescer and the first publish is      *)
(* module Watcher; here a publish is one step.  What matters is who waits  *)
(* for whom: all kinds share one factory and one WaitForCacheSync, the     *)
(* events are watched after it, and nothing is published once until both   *)
(* waits are over.  Run looks the kinds up and publishes them in the order *)
(* they are written in; here the order is free.  WatchEvents is set by the *)
(* only caller (Watch in pkg/collect), so the events are always watched.   *)
(***************************************************************************)
CONSTANTS
    Kind,     \* the kinds watched through the dynamic factory
    Events    \* the management events, watched through a factory of their own

ASSUME CapiAssumption == Events \notin Kind

Source == Kind \cup {Events}

VARIABLES
    present,    \* per source, whether the API server holds an object of it
    listable,   \* per source, whether the API server lets the watcher list it
    phase,      \* where Run is
    unresolved, \* the kinds Run has still to look up
    informers,  \* the sources with an informer and a rebuild
    cache,      \* per source, whether its informer's cache holds an object
    synced,     \* per source, HasSynced
    dirty,      \* per source, its coalescer's flag
    toPublish,  \* the sources the closing loop has still to publish
    canceled,   \* whether the context is
    shown       \* per source, what its key holds

vars == <<present, listable, phase, unresolved, informers, cache, synced, dirty,
          toPublish, canceled, shown>>

environment == <<present, listable, canceled>>

Phase == {"resolving", "syncing", "syncingEvents", "publishing", "running"}

TypeOK ==
    /\ present \in [Source -> BOOLEAN]
    /\ listable \in [Source -> BOOLEAN]
    /\ phase \in Phase
    /\ unresolved \subseteq Kind
    /\ informers \subseteq Source
    /\ cache \in [Source -> BOOLEAN]
    /\ synced \in [Source -> BOOLEAN]
    /\ dirty \in [Source -> BOOLEAN]
    /\ toPublish \subseteq informers
    /\ canceled \in BOOLEAN
    /\ shown \in [Source -> {"absent", "error", "none", "some"}]

Init ==
    /\ present \in [Source -> BOOLEAN]
    /\ listable \in [Source -> BOOLEAN]
    /\ phase = "resolving"
    /\ unresolved = Kind
    /\ informers = {}
    /\ cache = [s \in Source |-> FALSE]
    /\ synced = [s \in Source |-> FALSE]
    /\ dirty = [s \in Source |-> FALSE]
    /\ toPublish = {}
    /\ canceled = FALSE
    /\ shown = [s \in Source |-> "absent"]

-------------------------------------------------------------------------------
(* The API server: objects come and go, permissions are granted and revoked. *)
ClusterChanges(s) ==
    /\ present' = [present EXCEPT ![s] = ~@]
    /\ UNCHANGED <<listable, phase, unresolved, informers, cache, synced, dirty,
                   toPublish, canceled, shown>>

GrantChanges(s) ==
    /\ listable' = [listable EXCEPT ![s] = ~@]
    /\ UNCHANGED <<present, phase, unresolved, informers, cache, synced, dirty,
                   toPublish, canceled, shown>>

Cancel ==
    /\ ~canceled
    /\ canceled' = TRUE
    /\ UNCHANGED <<present, listable, phase, unresolved, informers, cache, synced,
                   dirty, toPublish, shown>>

-------------------------------------------------------------------------------
(* watch: the kind is found, and gets an informer and a rebuild. *)
Resolve(k) ==
    /\ phase = "resolving"
    /\ k \in unresolved
    /\ unresolved' = unresolved \ {k}
    /\ informers' = informers \cup {k}
    /\ UNCHANGED <<environment, phase, cache, synced, dirty, toPublish, shown>>

(* watch: the kind is not installed, or discovery failed.  Its key gets the  *)
(* error and the kind is skipped for the life of the watcher.                *)
Skip(k) ==
    /\ phase = "resolving"
    /\ k \in unresolved
    /\ unresolved' = unresolved \ {k}
    /\ shown' = [shown EXCEPT ![k] = "error"]
    /\ UNCHANGED <<environment, phase, informers, cache, synced, dirty, toPublish>>

(* dynFactory.Start *)
Start ==
    /\ phase = "resolving"
    /\ unresolved = {}
    /\ phase' = "syncing"
    /\ UNCHANGED <<environment, unresolved, informers, cache, synced, dirty, toPublish, shown>>

(* dynFactory.WaitForCacheSync returns, and the events get their informer.   *)
(* The wait ends early when the context does, and nobody looks at how it     *)
(* ended.                                                                    *)
CachesWarm ==
    /\ phase = "syncing"
    /\ canceled \/ \A k \in informers : synced[k]
    /\ phase' = "syncingEvents"
    /\ informers' = informers \cup {Events}
    /\ UNCHANGED <<environment, unresolved, cache, synced, dirty, toPublish, shown>>

(* Faulty variant of EventsWarm: the wait for the events is left out. *)
EventsWarmAtOnce ==
    /\ phase = "syncingEvents"
    /\ phase' = "publishing"
    /\ toPublish' = informers
    /\ UNCHANGED <<environment, unresolved, informers, cache, synced, dirty, shown>>

(* typedFactory.WaitForCacheSync returns, and every rebuild is to run once. *)
EventsWarm ==
    /\ phase = "syncingEvents"
    /\ canceled \/ synced[Events]
    /\ phase' = "publishing"
    /\ toPublish' = informers
    /\ UNCHANGED <<environment, unresolved, informers, cache, synced, dirty, shown>>

Publish(s) == shown' = [shown EXCEPT ![s] = IF cache[s] THEN "some" ELSE "none"]

(* Faulty variant of Rebuild: a kind without objects is passed over. *)
RebuildNonEmpty(s) ==
    /\ phase = "publishing"
    /\ s \in toPublish
    /\ toPublish' = toPublish \ {s}
    /\ IF cache[s] THEN Publish(s) ELSE UNCHANGED shown
    /\ UNCHANGED <<environment, phase, unresolved, informers, cache, synced, dirty>>

(* One call of the closing loop. *)
Rebuild(s) ==
    /\ phase = "publishing"
    /\ s \in toPublish
    /\ toPublish' = toPublish \ {s}
    /\ Publish(s)
    /\ UNCHANGED <<environment, phase, unresolved, informers, cache, synced, dirty>>

(* The loop is through; Run waits for the end of the context. *)
Settle ==
    /\ phase = "publishing"
    /\ toPublish = {}
    /\ phase' = "running"
    /\ UNCHANGED <<environment, unresolved, informers, cache, synced, dirty, toPublish, shown>>

-------------------------------------------------------------------------------
(* An informer lists and watches once its factory has started.  A denied     *)
(* list is retried for ever and reported to nobody.                          *)
Watching(s) == phase # "resolving" /\ s \in informers /\ listable[s] /\ ~canceled

(* The first list fills the cache, calls the handlers and ends in HasSynced. *)
(* (The cache that is half filled is a matter of module Watcher.)            *)
FirstList(s) ==
    /\ Watching(s)
    /\ ~synced[s]
    /\ synced' = [synced EXCEPT ![s] = TRUE]
    /\ cache' = [cache EXCEPT ![s] = present[s]]
    /\ dirty' = [dirty EXCEPT ![s] = present[s]]
    /\ UNCHANGED <<environment, phase, unresolved, informers, toPublish, shown>>

(* The informer applies a change; its handlers mark the source dirty. *)
Deliver(s) ==
    /\ Watching(s)
    /\ synced[s]
    /\ cache[s] # present[s]
    /\ cache' = [cache EXCEPT ![s] = present[s]]
    /\ dirty' = [dirty EXCEPT ![s] = TRUE]
    /\ UNCHANGED <<environment, phase, unresolved, informers, synced, toPublish, shown>>

(* The source's coalescer publishes after a change. *)
CoalescedPublish(s) ==
    /\ dirty[s]
    /\ dirty' = [dirty EXCEPT ![s] = FALSE]
    /\ Publish(s)
    /\ UNCHANGED <<environment, phase, unresolved, informers, cache, synced, toPublish>>

Next ==
    \/ \E s \in Source :
          \/ ClusterChanges(s)
          \/ GrantChanges(s)
          \/ Rebuild(s)
          \/ FirstList(s)
          \/ Deliver(s)
          \/ CoalescedPublish(s)
    \/ \E k \in Kind : Resolve(k) \/ Skip(k)
    \/ Start
    \/ CachesWarm
    \/ EventsWarm
    \/ Settle
    \/ Cancel

(* Run, the informers and the coalescers run. *)
Fairness ==
    /\ \A k \in Kind : WF_vars(Resolve(k) \/ Skip(k))
    /\ WF_vars(Start) /\ WF_vars(CachesWarm) /\ WF_vars(EventsWarm) /\ WF_vars(Settle)
    /\ \A s \in Source :
          /\ WF_vars(Rebuild(s))
          /\ WF_vars(FirstList(s))
          /\ WF_vars(Deliver(s))
          /\ WF_vars(CoalescedPublish(s))

SafeSpec == Init /\ [][Next]_vars
Spec == SafeSpec /\ Fairness

-------------------------------------------------------------------------------
(* "None" is only said of a list that completed: an empty result is never    *)
(* the look of a cache that has not been filled yet, except in a collector   *)
(* that is being torn down, whose waits end early.                           *)
NoneMeansNone ==
    \A s \in Source : shown[s] = "none" /\ ~synced[s] => canceled

(* If the watcher may list everything, or comes to be allowed to, every      *)
(* source is reported in the end: with its objects, as none, or as an error. *)
EventuallyReported ==
    (\A s \in Source : <>[]listable[s]) /\ [](~canceled)
        => <>(\A s \in Source : shown[s] # "absent")

===============================================================================
