-------------------------------- MODULE Fleet --------------------------------
(***************************************************************************)
(* The fleet (internal/fleet/fleet.go): Run discovers the clusters again   *)
(* and again and keeps one collector for each.  reconcile lists what the   *)
(* management cluster holds and walks the list; start and stop put a       *)
(* collector in the map, write and remove its OpenStack credentials        *)
(* (writeClouds in clouds.go) and launch and cancel its goroutines.        *)
(*                                                                         *)
(* All of that is one goroutine, but it releases the lock between any two  *)
(* steps, so a page can be rendered there, and the management cluster      *)
(* changes meanwhile.  A collector's own goroutine is here only as far as  *)
(* its question whether the management cluster can be reached; what it     *)
(* collects is modules CapiWatcher, Watcher and ClusterCard, and how its   *)
(* changes reach a page is module FleetFeed.                               *)
(***************************************************************************)
EXTENDS Naturals, FiniteSets

CONSTANTS
    Cluster,      \* the cluster keys, namespace/name
    Credential,   \* the clouds.yaml contents there are
    Absent,       \* no such cluster, or no such file
    MaxStart      \* bound: collectors started over the life of the process

(* What discovery finds for a cluster: whether its kubeconfig could be       *)
(* resolved (if not, the reason is in Err), and its OpenStack credentials:   *)
(* "none", "broken" with a reason in CloudsErr, or the contents.             *)
Discovered == [config : BOOLEAN, clouds : {"none", "broken"} \cup Credential]

ASSUME FleetAssumption ==
    /\ Absent \notin Discovered
    /\ {Absent, "none", "broken", "partial"} \cap Credential = {}
    /\ Absent # "partial"
    /\ MaxStart \in Nat

Collector == Nat \ {0}
Nobody == 0

VARIABLES
    held,       \* per cluster, what the management cluster would let discovery find
    up,         \* whether the management cluster's API server answers
    canceled,   \* whether Run's context is
    pc,         \* where Run is
    settled,    \* whether the first reconcile has succeeded
    found,      \* the list reconcile walks
    todo,       \* the clusters of the list it has still to handle
    gone,       \* the tracked clusters it has still to stop
    call,       \* the start or stop under way
    clusters,   \* Fleet.clusters: per key, its collector
    started,    \* how many collectors have been started
    tracked,    \* per collector, its tracked record
    files       \* per cluster, the file in CloudsDir: its contents, "partial" or Absent

vars == <<held, up, canceled, pc, settled, found, todo, gone, call, clusters,
          started, tracked, files>>

world == <<held, up, canceled>>
run == <<pc, settled, found, todo, gone>>

Tracked == [key : Cluster, config : BOOLEAN, clouds : {"none", "broken"} \cup Credential,
            path : BOOLEAN,                        \* cloudsPath is set
            cloudsErr : BOOLEAN,
            watch : {"none", "asking", "answered"},
            reachable : {"unknown", "yes", "no"},
            canceled : BOOLEAN]

NoCall == [step |-> "none"]

(* "stopping": out of the map, not yet canceled.  "starting": a restart      *)
(* whose stop is through.  "launching": in the map, no goroutine yet.        *)
Call == {NoCall}
        \cup [step : {"stopping", "launching"}, of : Collector, key : Cluster]
        \cup [step : {"starting"}, key : Cluster]

TypeOK ==
    /\ held \in [Cluster -> Discovered \cup {Absent}]
    /\ up \in BOOLEAN
    /\ canceled \in BOOLEAN
    /\ pc \in {"listing", "handling", "removing", "waiting", "over"}
    /\ settled \in BOOLEAN
    /\ found \in [Cluster -> Discovered \cup {Absent}]
    /\ todo \subseteq {c \in Cluster : found[c] # Absent}
    /\ gone \subseteq Cluster
    /\ call \in Call
    /\ clusters \in [Cluster -> {Nobody} \cup Collector]
    /\ started \in Nat
    /\ tracked \in [1..started -> Tracked]
    /\ files \in [Cluster -> Credential \cup {"partial", Absent}]

Init ==
    /\ held \in [Cluster -> Discovered \cup {Absent}]
    /\ up \in BOOLEAN
    /\ canceled = FALSE
    /\ pc = "listing"
    /\ settled = FALSE
    /\ found = [c \in Cluster |-> Absent]
    /\ todo = {}
    /\ gone = {}
    /\ call = NoCall
    /\ clusters = [c \in Cluster |-> Nobody]
    /\ started = 0
    /\ tracked = <<>>
    /\ files = [c \in Cluster |-> Absent]

Running(c) == clusters[c] # Nobody
Of(c) == tracked[clusters[c]]

-------------------------------------------------------------------------------
(* A cluster is created or deleted, or its Secrets are. *)
ClusterChanges(c, d) ==
    /\ held[c] # d
    /\ held' = [held EXCEPT ![c] = d]
    /\ UNCHANGED <<up, canceled, run, call, clusters, started, tracked, files>>

Outage ==
    /\ up
    /\ up' = FALSE
    /\ UNCHANGED <<held, canceled, run, call, clusters, started, tracked, files>>

Recover ==
    /\ ~up
    /\ up' = TRUE
    /\ UNCHANGED <<held, canceled, run, call, clusters, started, tracked, files>>

Cancel ==
    /\ ~canceled
    /\ canceled' = TRUE
    /\ UNCHANGED <<held, up, run, call, clusters, started, tracked, files>>

-------------------------------------------------------------------------------
(* What reconcile would start, having found list; the bound is on that. *)
ToStart(list) ==
    {c \in Cluster : /\ list[c] # Absent
                     /\ ~Running(c) \/ (~Of(c).config /\ list[c].config)}

Room(list) == started + Cardinality(ToStart(list)) <= MaxStart

(* reconcile: the list comes back.  unread is the clusters whose Secrets     *)
(* could not be read although the clusters could be listed.                  *)
Lists(unread) ==
    /\ pc = "listing"
    /\ ~canceled
    /\ up => unread = {}
    /\ found' = [c \in Cluster |->
                    IF c \in unread /\ held[c] # Absent
                    THEN [held[c] EXCEPT !.config = FALSE] ELSE held[c]]
    /\ Room(found')
    /\ todo' = {c \in Cluster : held[c] # Absent}
    /\ pc' = "handling"
    /\ UNCHANGED <<world, settled, gone, call, clusters, started, tracked, files>>

(* reconcile: the list fails.  The first failure ends Run; a later one       *)
(* leaves everything as it is.                                               *)
ListFails ==
    /\ pc = "listing"
    /\ canceled \/ ~up
    /\ pc' = IF settled THEN "waiting" ELSE "over"
    /\ UNCHANGED <<world, settled, found, todo, gone, call, clusters, started, tracked, files>>

(* Nothing to do for a running collector, unless it had no kubeconfig and    *)
(* there is one now.                                                         *)
Keep(c) ==
    /\ pc = "handling"
    /\ call = NoCall
    /\ c \in todo
    /\ Running(c)
    /\ Of(c).config \/ ~found[c].config
    /\ todo' = todo \ {c}
    /\ UNCHANGED <<world, pc, settled, found, gone, call, clusters, started, tracked, files>>

(* stop, under the lock: out of the map. *)
Unlist(c) ==
    /\ clusters' = [clusters EXCEPT ![c] = Nobody]
    /\ call' = [step |-> "stopping", of |-> clusters[c], key |-> c]

Restart(c) ==
    /\ pc = "handling"
    /\ call = NoCall
    /\ c \in todo
    /\ Running(c)
    /\ ~Of(c).config /\ found[c].config
    /\ Unlist(c)
    /\ UNCHANGED <<world, run, started, tracked, files>>

(* start, under the lock: into the map, without its goroutines. *)
Start(c) ==
    /\ pc = "handling"
    /\ \/ call = NoCall /\ c \in todo /\ ~Running(c)
       \/ call = [step |-> "starting", key |-> c]
    /\ started' = started + 1
    /\ clusters' = [clusters EXCEPT ![c] = started']
    /\ tracked' = [g \in 1..started' |->
                      IF g \in 1..started THEN tracked[g]
                      ELSE [key |-> c, config |-> found[c].config, clouds |-> found[c].clouds,
                            path |-> FALSE, cloudsErr |-> FALSE, watch |-> "none",
                            reachable |-> "unknown", canceled |-> FALSE]]
    /\ call' = IF found[c].config
               THEN [step |-> "launching", of |-> started', key |-> c] ELSE NoCall
    /\ todo' = todo \ {c}
    /\ UNCHANGED <<world, pc, settled, found, gone, files>>

(* The goroutines of the collector start, after its credentials were dealt   *)
(* with: path and err say how.                                               *)
Launch(path, err) ==
    /\ tracked' = [tracked EXCEPT ![call.of].path = path,
                                  ![call.of].cloudsErr = err,
                                  ![call.of].watch = "asking"]
    /\ call' = NoCall
    /\ UNCHANGED <<world, run, clusters, started>>

LaunchWithoutClouds ==
    /\ call.step = "launching"
    /\ tracked[call.of].clouds \notin Credential
    /\ Launch(FALSE, tracked[call.of].clouds = "broken")
    /\ UNCHANGED files

LaunchWithClouds ==
    /\ call.step = "launching"
    /\ tracked[call.of].clouds \in Credential
    /\ files' = [files EXCEPT ![call.key] = tracked[call.of].clouds]
    /\ Launch(TRUE, FALSE)

(* writeClouds fails: before there is a file, or half way through it. *)
WriteFails ==
    /\ call.step = "launching"
    /\ tracked[call.of].clouds \in Credential
    /\ \/ files' = [files EXCEPT ![call.key] = "partial"]
       \/ UNCHANGED files
    /\ Launch(FALSE, TRUE)

(* The list is walked; what is tracked and was not listed is to be stopped. *)
FindGone ==
    /\ pc = "handling"
    /\ call = NoCall
    /\ todo = {}
    /\ gone' = {c \in Cluster : Running(c) /\ found[c] = Absent}
    /\ pc' = "removing"
    /\ UNCHANGED <<world, settled, found, todo, call, clusters, started, tracked, files>>

StopGone(c) ==
    /\ pc = "removing"
    /\ call = NoCall
    /\ c \in gone
    /\ gone' = gone \ {c}
    /\ Unlist(c)
    /\ UNCHANGED <<world, pc, settled, found, todo, started, tracked, files>>

(* Faulty variant of CancelStopped: the file is left behind. *)
CancelOnly ==
    /\ call.step = "stopping"
    /\ tracked' = [tracked EXCEPT ![call.of].canceled = TRUE]
    /\ call' = IF pc = "handling" THEN [step |-> "starting", key |-> call.key] ELSE NoCall
    /\ UNCHANGED <<world, run, clusters, started, files>>

(* Faulty variant of CancelStopped: the collector is forgotten only. *)
RemoveOnly ==
    /\ call.step = "stopping"
    /\ files' = IF tracked[call.of].path THEN [files EXCEPT ![call.key] = Absent] ELSE files
    /\ call' = IF pc = "handling" THEN [step |-> "starting", key |-> call.key] ELSE NoCall
    /\ UNCHANGED <<world, run, clusters, started, tracked>>

(* stop, after the lock: cancel, and remove the credentials that were        *)
(* written.                                                                  *)
CancelStopped ==
    /\ call.step = "stopping"
    /\ tracked' = [tracked EXCEPT ![call.of].canceled = TRUE]
    /\ files' = IF tracked[call.of].path THEN [files EXCEPT ![call.key] = Absent] ELSE files
    /\ call' = IF pc = "handling" THEN [step |-> "starting", key |-> call.key] ELSE NoCall
    /\ UNCHANGED <<world, run, clusters, started>>

(* reconcile returns.  (Its notify is an action of FleetFeed.) *)
Reconciled ==
    /\ pc = "removing"
    /\ call = NoCall
    /\ gone = {}
    /\ settled' = TRUE
    /\ pc' = "waiting"
    /\ UNCHANGED <<world, found, todo, gone, call, clusters, started, tracked, files>>

(* Faulty variant of Tick: rediscovery ends with the first success. *)
TickOnce ==
    /\ pc = "waiting"
    /\ ~settled
    /\ pc' = "listing"
    /\ UNCHANGED <<world, settled, found, todo, gone, call, clusters, started, tracked, files>>

(* The ticker fires.  It may win against a context that has ended, too. *)
Tick ==
    /\ pc = "waiting"
    /\ pc' = "listing"
    /\ UNCHANGED <<world, settled, found, todo, gone, call, clusters, started, tracked, files>>

(* The context has ended: stopAll, and Run returns. *)
StopAll ==
    /\ pc = "waiting"
    /\ canceled
    /\ pc' = "over"
    /\ clusters' = [c \in Cluster |-> Nobody]
    /\ tracked' = [g \in DOMAIN tracked |->
                      IF \E c \in Cluster : clusters[c] = g
                      THEN [tracked[g] EXCEPT !.canceled = TRUE] ELSE tracked[g]]
    /\ files' = [c \in Cluster |-> IF Running(c) /\ Of(c).path THEN Absent ELSE files[c]]
    /\ UNCHANGED <<world, settled, found, todo, gone, call, started>>

(* A collector's goroutine asks once whether the management cluster can be   *)
(* reached, and never again.                                                 *)
Reached(g) ==
    /\ tracked[g].watch = "asking"
    /\ tracked' = [tracked EXCEPT ![g].watch = "answered",
                                  ![g].reachable = IF up THEN "yes" ELSE "no"]
    /\ UNCHANGED <<world, run, call, clusters, started, files>>

Next ==
    \/ \E c \in Cluster, d \in Discovered \cup {Absent} : ClusterChanges(c, d)
    \/ Outage \/ Recover \/ Cancel
    \/ \E unread \in SUBSET Cluster : Lists(unread)
    \/ ListFails
    \/ \E c \in Cluster : Keep(c) \/ Restart(c) \/ Start(c) \/ StopGone(c)
    \/ LaunchWithoutClouds \/ LaunchWithClouds \/ WriteFails
    \/ FindGone
    \/ CancelStopped
    \/ Reconciled
    \/ Tick
    \/ StopAll
    \/ \E g \in DOMAIN tracked : Reached(g)

(* Run keeps going, its ticker fires, and a collector gets its answer; the   *)
(* world need not change.  select picks at random among what is ready, so a  *)
(* context that has ended is noticed in the end.                             *)
Fairness ==
    /\ WF_vars((\E unread \in SUBSET Cluster : Lists(unread)) \/ ListFails)
    /\ \A c \in Cluster :
          WF_vars(Keep(c)) /\ WF_vars(Restart(c)) /\ WF_vars(Start(c)) /\ WF_vars(StopGone(c))
    /\ WF_vars(LaunchWithoutClouds) /\ WF_vars(LaunchWithClouds \/ WriteFails)
    /\ WF_vars(FindGone) /\ WF_vars(CancelStopped) /\ WF_vars(Reconciled)
    /\ WF_vars(Tick) /\ SF_vars(StopAll)
    /\ \A g \in 1..MaxStart : WF_vars(g \in DOMAIN tracked /\ Reached(g))

SafeSpec == Init /\ [][Next]_vars
Spec == SafeSpec /\ Fairness

-------------------------------------------------------------------------------
(* A collector that runs for a cluster: the one in the map, or the one a     *)
(* stop has just taken out of it.                                            *)
Answers(g, c) ==
    \/ clusters[c] = g
    \/ call.step = "stopping" /\ call.of = g /\ call.key = c

Alive(g) == tracked[g].watch # "none" /\ ~tracked[g].canceled

(* No collector is leaked: one that has been launched and not canceled can   *)
(* be reached through the map, however its cluster vanished, came back or    *)
(* found its credentials.  So a cluster never has two.                       *)
NoLeakedCollector == \A g \in DOMAIN tracked : Alive(g) => Answers(g, tracked[g].key)

(* A credentials file that was written completely belongs to the collector   *)
(* of its cluster and holds what that collector was started with; and a      *)
(* collector that was given a file still has it.                             *)
CredentialsMatch ==
    \A c \in Cluster :
        /\ files[c] \in Credential =>
              \E g \in DOMAIN tracked : Answers(g, c) /\ tracked[g].path
        /\ \A g \in DOMAIN tracked :
              Answers(g, c) /\ tracked[g].path => files[c] = tracked[g].clouds

Reads(d) == d # Absent /\ d.config

(* Once the management cluster comes to rest and answers, the fleet tracks   *)
(* exactly its clusters, and collects from each whose kubeconfig resolves,   *)
(* unless the context ends or Run has given up.                              *)
Converges ==
    \A c \in Cluster, d \in Discovered \cup {Absent} :
        <>[](held[c] = d /\ up /\ ~canceled /\ pc # "over" /\ Room(held))
            => <>[](/\ Running(c) <=> d # Absent
                    /\ Reads(d) => Running(c) /\ Alive(clusters[c]))

(* A shutdown leaves no collector behind and no completely written file. *)
ShutsDown ==
    canceled ~> /\ pc = "over"
                /\ \A g \in DOMAIN tracked : ~Alive(g)
                /\ \A c \in Cluster : files[c] \notin Credential

(* The collectors follow the clusters for as long as the fleet is to run,    *)
(* and no longer.                                                            *)
CollectorsFollow == Converges /\ ShutsDown

===============================================================================
