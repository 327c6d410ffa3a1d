----------------------------- MODULE FleetProofs -----------------------------
(***************************************************************************)
(* Proofs about module Fleet, for every set of clusters and of             *)
(* credentials and every bound on the starts: the state keeps its type, no *)
(* collector is leaked, and a complete credentials file is its running     *)
(* collector's.  And about module Management, for any nodes, pods and      *)
(* workloads: what the section on the management cluster says is earned.   *)
(***************************************************************************)
EXTENDS Fleet, Management, FiniteSetTheorems, TLAPS

(* Every collector in the map was started, for that key. *)
MapOK == \A c \in Cluster : Running(c) => clusters[c] \in DOMAIN tracked /\ Of(c).key = c

(* What a start or stop under way has done so far. *)
CallOK ==
    /\ call # NoCall => pc \in {"handling", "removing"}
    /\ call.step \in {"stopping", "launching"} =>
          call.of \in DOMAIN tracked /\ tracked[call.of].key = call.key
    /\ call.step \in {"stopping", "starting"} => ~Running(call.key)
    /\ call.step \in {"stopping", "starting"} /\ pc = "handling" => call.key \in todo
    /\ call.step \in {"starting", "launching"} => pc = "handling"
    /\ call.step = "launching" =>
          /\ clusters[call.key] = call.of
          /\ tracked[call.of].watch = "none"
          /\ ~tracked[call.of].path

GoneOK == pc = "removing" => \A c \in gone : Running(c)

Consistent == TypeOK /\ MapOK /\ CallOK /\ GoneOK

-------------------------------------------------------------------------------
(* The shapes a call has. *)
LEMMA CallShape ==
    ASSUME call \in Call
    PROVE  /\ call.step \in {"none", "stopping", "launching", "starting"}
           /\ call.step = "none" <=> call = NoCall
           /\ call.step \in {"stopping", "launching"} =>
                 call.of \in Collector /\ call.key \in Cluster
           /\ call.step = "starting" =>
                 call.key \in Cluster /\ call = [step |-> "starting", key |-> call.key]
  BY DEF Call, NoCall

(* The calls that Run makes are calls.                                       *)
LEMMA CallMade ==
    /\ NoCall \in Call
    /\ \A c \in Cluster, g \in Collector :
          /\ [step |-> "stopping", of |-> g, key |-> c] \in Call
          /\ [step |-> "launching", of |-> g, key |-> c] \in Call
    /\ \A c \in Cluster : [step |-> "starting", key |-> c] \in Call
  BY DEF Call

(* The world moves, Run walks its list, a collector gets its answer: the     *)
(* parts of the invariant that speak of other variables hold on.             *)
LEMMA Kept ==
    /\ MapOK /\ UNCHANGED <<clusters, tracked>> => MapOK'
    /\ CallOK /\ UNCHANGED <<pc, todo, call, clusters, tracked>> => CallOK'
    /\ GoneOK /\ UNCHANGED <<pc, gone, clusters>> => GoneOK'
  BY DEF MapOK, CallOK, GoneOK, Running, Of

(* Every part of a step keeps the invariant.                                 *)
LEMMA WorldStep ==
    ASSUME Consistent,
           (\E c \in Cluster, d \in Discovered \cup {Absent} : ClusterChanges(c, d))
              \/ Outage \/ Recover \/ Cancel \/ UNCHANGED vars
    PROVE  Consistent'
<1>1. UNCHANGED <<run, call, clusters, started, tracked, files>>
  BY DEF ClusterChanges, Outage, Recover, Cancel, vars, run
<1>2. held' \in [Cluster -> Discovered \cup {Absent}]
  BY DEF ClusterChanges, Outage, Recover, Cancel, vars, Consistent, TypeOK
<1>3. up' \in BOOLEAN /\ canceled' \in BOOLEAN
  BY DEF ClusterChanges, Outage, Recover, Cancel, vars, Consistent, TypeOK
<1>4. TypeOK'
  BY <1>1, <1>2, <1>3 DEF Consistent, TypeOK, run
<1> QED
  BY <1>1, <1>4, Kept DEF Consistent, run

LEMMA NoCallOK == CallOK' \/ call' # NoCall
  BY DEF CallOK, NoCall

(* The steps of Run that read lists and walk them. *)
LEMMA ListStep ==
    ASSUME Consistent, NEW unread \in SUBSET Cluster, Lists(unread)
    PROVE  Consistent'
<1>1. UNCHANGED <<world, settled, gone, call, clusters, started, tracked, files>>
  BY DEF Lists
<1>2. call = NoCall
  BY DEF Lists, Consistent, CallOK
<1>3. found' \in [Cluster -> Discovered \cup {Absent}]
      /\ \A c \in Cluster : held[c] # Absent => found'[c] # Absent
  <2> DEFINE unseen(c) == [held[c] EXCEPT !.config = FALSE]
  <2>1. \A c \in Cluster : held[c] # Absent => unseen(c) \in Discovered
    <3> SUFFICES ASSUME NEW c \in Cluster, held[c] # Absent PROVE unseen(c) \in Discovered
      OBVIOUS
    <3>1. held[c] \in Discovered
      BY DEF Consistent, TypeOK
    <3> QED
      BY <3>1 DEF Discovered
  <2>2. \A c \in Cluster : held[c] \in Discovered \cup {Absent}
    BY DEF Consistent, TypeOK
  <2>3. found' = [c \in Cluster |-> IF c \in unread /\ held[c] # Absent THEN unseen(c) ELSE held[c]]
    BY DEF Lists
  <2> HIDE DEF unseen
  <2> QED
    BY <2>1, <2>2, <2>3, FleetAssumption
<1>4. todo' \subseteq {c \in Cluster : found'[c] # Absent}
  BY <1>3 DEF Lists
<1>5. TypeOK'
  BY <1>1, <1>3, <1>4 DEF Lists, Consistent, TypeOK, world
<1>6. CallOK' /\ GoneOK'
  BY <1>1, <1>2, NoCallOK DEF Lists, GoneOK
<1> QED
  BY <1>1, <1>5, <1>6, Kept DEF Consistent

LEMMA WalkStep ==
    ASSUME Consistent,
           ListFails \/ (\E c \in Cluster : Keep(c)) \/ FindGone \/ Reconciled \/ Tick
    PROVE  Consistent'
<1>1. UNCHANGED <<world, found, call, clusters, started, tracked, files>>
  BY DEF ListFails, Keep, FindGone, Reconciled, Tick
<1>2. call = NoCall
  BY DEF ListFails, Keep, FindGone, Reconciled, Tick, Consistent, CallOK
<1>3. /\ pc' \in {"listing", "handling", "removing", "waiting", "over"}
      /\ settled' \in BOOLEAN
      /\ todo' \subseteq todo /\ gone' \subseteq Cluster
  BY DEF ListFails, Keep, FindGone, Reconciled, Tick, Consistent, TypeOK
<1>4. TypeOK'
  BY <1>1, <1>3 DEF Consistent, TypeOK, world
<1>5. CallOK'
  BY <1>1, <1>2, NoCallOK
<1>6. GoneOK'
  BY <1>1 DEF ListFails, Keep, FindGone, Reconciled, Tick, Consistent, GoneOK, Running
<1> QED
  BY <1>1, <1>4, <1>5, <1>6, Kept DEF Consistent

(* stop, under the lock. *)
LEMMA UnlistStep ==
    ASSUME Consistent, NEW c \in Cluster, Restart(c) \/ StopGone(c)
    PROVE  Consistent'
<1>1. /\ call = NoCall /\ Running(c) /\ clusters[c] \in DOMAIN tracked /\ Of(c).key = c
      /\ pc \in {"handling", "removing"}
  BY DEF Restart, StopGone, Consistent, GoneOK, MapOK
<1>2. /\ UNCHANGED <<world, pc, settled, found, todo, started, tracked, files>>
      /\ clusters' = [clusters EXCEPT ![c] = Nobody]
      /\ call' = [step |-> "stopping", of |-> clusters[c], key |-> c]
      /\ gone' \subseteq gone
  BY DEF Restart, StopGone, Unlist, run
<1>3. clusters[c] \in Collector
  BY <1>1 DEF Consistent, TypeOK, Running
<1>4. TypeOK'
  BY <1>2, <1>3, CallMade DEF Consistent, TypeOK, world
<1>5. MapOK'
  BY <1>2 DEF Consistent, TypeOK, MapOK, Running, Of
<1>6. CallOK'
  <2>1. ~Running(c)'
    BY <1>2 DEF Consistent, TypeOK, Running
  <2>2. pc = "handling" => c \in todo
    BY DEF Restart, StopGone
  <2> QED
    BY <1>1, <1>2, <2>1, <2>2 DEF CallOK, Of
<1>7. GoneOK'
  <2> SUFFICES ASSUME pc = "removing", NEW d \in gone' PROVE Running(d)'
    BY <1>2 DEF GoneOK
  <2>1. d \in Cluster /\ d # c /\ Running(d)
    BY <1>2 DEF Restart, StopGone, Consistent, TypeOK, GoneOK
  <2> QED
    BY <1>2, <2>1 DEF Running, Consistent, TypeOK
<1> QED
  BY <1>4, <1>5, <1>6, <1>7 DEF Consistent

(* start, under the lock. *)
LEMMA StartStep ==
    ASSUME Consistent, NEW c \in Cluster, Start(c)
    PROVE  Consistent'
<1> DEFINE g == started + 1
           record == [key |-> c, config |-> found[c].config, clouds |-> found[c].clouds,
                      path |-> FALSE, cloudsErr |-> FALSE, watch |-> "none",
                      reachable |-> "unknown", canceled |-> FALSE]
<1>1. /\ ~Running(c) /\ c \in todo /\ found[c] \in Discovered
      /\ pc = "handling"
  <2>1. /\ pc = "handling" /\ c \in todo /\ ~Running(c)
    BY DEF Start, Consistent, CallOK, NoCall
  <2> QED
    BY <2>1 DEF Consistent, TypeOK
<1>2. g \in Collector /\ g # Nobody /\ g \notin DOMAIN tracked /\ DOMAIN tracked = 1..started
  BY DEF Consistent, TypeOK, Collector, Nobody
<1>3. /\ started' = g /\ clusters' = [clusters EXCEPT ![c] = g]
      /\ todo' = todo \ {c}
      /\ UNCHANGED <<world, pc, settled, found, gone, files>>
  BY DEF Start
<1>4. call' = IF found[c].config THEN [step |-> "launching", of |-> g, key |-> c] ELSE NoCall
  BY DEF Start
<1>5. tracked' = [h \in 1..g |-> IF h \in 1..started THEN tracked[h] ELSE record]
  BY DEF Start
<1>6. record \in Tracked
  BY <1>1 DEF Tracked, Discovered
<1>7. /\ tracked' \in [1..g -> Tracked] /\ tracked'[g] = record
      /\ \A h \in DOMAIN tracked : h \in DOMAIN tracked' /\ tracked'[h] = tracked[h]
  <2> HIDE DEF record
  <2>1. \A h \in 1..started : tracked[h] \in Tracked
    BY DEF Consistent, TypeOK
  <2>2. started \in Nat /\ g \in 1..g /\ g \notin 1..started
    BY DEF Consistent, TypeOK
  <2>3. \A h \in 1..started : h \in 1..g
    BY <2>2
  <2> QED
    BY <1>2, <1>5, <1>6, <2>1, <2>2, <2>3
<1> HIDE DEF g
<1>8. TypeOK'
  <2>1. call' \in Call
    BY <1>2, <1>4, CallMade
  <2>2. clusters' \in [Cluster -> {Nobody} \cup Collector]
    BY <1>2, <1>3 DEF Consistent, TypeOK
  <2>3. started' \in Nat /\ tracked' \in [1..started' -> Tracked]
    BY <1>2, <1>3, <1>7 DEF Collector
  <2> QED
    BY <1>3, <2>1, <2>2, <2>3 DEF Consistent, TypeOK, world
<1>9. MapOK'
  <2> SUFFICES ASSUME NEW d \in Cluster, Running(d)'
               PROVE  clusters'[d] \in DOMAIN tracked' /\ tracked'[clusters'[d]].key = d
    BY DEF MapOK, Of
  <2>1. CASE d = c
    <3>1. clusters'[d] = g /\ g \in 1..g
      BY <1>2, <1>3, <2>1 DEF Consistent, TypeOK, Collector
    <3> QED
      BY <1>7, <2>1, <3>1
  <2>2. CASE d # c
    <3>1. clusters'[d] = clusters[d]
      BY <1>3, <2>2 DEF Consistent, TypeOK
    <3> QED
      BY <1>7, <3>1 DEF Consistent, MapOK, Running, Of
  <2> QED
    BY <2>1, <2>2
<1>10. CallOK'
  <2>1. CASE call' = NoCall
    BY <2>1, NoCallOK DEF CallOK, NoCall
  <2>2. CASE call' = [step |-> "launching", of |-> g, key |-> c]
    <3>1. clusters'[c] = g /\ g \in DOMAIN tracked'
      BY <1>2, <1>3, <1>7 DEF Consistent, TypeOK, Collector
    <3> QED
      BY <1>1, <1>3, <1>7, <2>2, <3>1 DEF CallOK
  <2> QED
    BY <1>4, <2>1, <2>2
<1>11. GoneOK'
  BY <1>1, <1>3 DEF GoneOK
<1> QED
  BY <1>8, <1>9, <1>10, <1>11 DEF Consistent

(* The rest of start. *)
LEMMA LaunchStep ==
    ASSUME Consistent, LaunchWithoutClouds \/ LaunchWithClouds \/ WriteFails
    PROVE  Consistent'
<1> DEFINE g == call.of
<1>1. /\ call.step = "launching" /\ g \in DOMAIN tracked /\ call.key \in Cluster
      /\ tracked[g] \in Tracked
  BY CallShape DEF LaunchWithoutClouds, LaunchWithClouds, WriteFails, Consistent, CallOK, TypeOK
<1>2. PICK path \in BOOLEAN, err \in BOOLEAN : Launch(path, err)
  BY DEF LaunchWithoutClouds, LaunchWithClouds, WriteFails
<1>3. call' = NoCall /\ UNCHANGED <<world, run, clusters, started>>
  BY <1>2 DEF Launch
<1>4. tracked' = [tracked EXCEPT ![g].path = path, ![g].cloudsErr = err, ![g].watch = "asking"]
  BY <1>2 DEF Launch
<1>5. /\ tracked' \in [1..started -> Tracked]
      /\ \A h \in DOMAIN tracked : tracked'[h].key = tracked[h].key
  <2> DEFINE new == [tracked[g] EXCEPT !.path = path, !.cloudsErr = err, !.watch = "asking"]
  <2>1. new \in Tracked /\ new.key = tracked[g].key
    BY <1>1 DEF Tracked
  <2>2. tracked \in [1..started -> Tracked]
    BY DEF Consistent, TypeOK
  <2>3. tracked' = [tracked EXCEPT ![g] = new]
    BY <1>4
  <2> HIDE DEF new
  <2> QED
    BY <1>1, <2>1, <2>2, <2>3
<1>6. files' \in [Cluster -> Credential \cup {"partial", Absent}]
  BY <1>1 DEF LaunchWithoutClouds, LaunchWithClouds, WriteFails, Consistent, TypeOK
<1>7. TypeOK'
  BY <1>3, <1>5, <1>6, CallMade DEF Consistent, TypeOK, world, run
<1>8. MapOK'
  BY <1>3, <1>5 DEF Consistent, TypeOK, MapOK, Running, Of
<1>9. CallOK'
  BY <1>3, NoCallOK
<1> QED
  BY <1>3, <1>7, <1>8, <1>9, Kept DEF Consistent, run

(* The rest of stop. *)
LEMMA CancelStep ==
    ASSUME Consistent, CancelStopped
    PROVE  Consistent'
<1> DEFINE g == call.of
<1>1. /\ call.step = "stopping" /\ g \in DOMAIN tracked /\ call.key \in Cluster
      /\ ~Running(call.key) /\ pc \in {"handling", "removing"}
      /\ pc = "handling" => call.key \in todo
  BY CallShape DEF CancelStopped, Consistent, CallOK, TypeOK, NoCall
<1>2. /\ UNCHANGED <<world, run, clusters, started>>
      /\ tracked' = [tracked EXCEPT ![g].canceled = TRUE]
      /\ call' = IF pc = "handling" THEN [step |-> "starting", key |-> call.key] ELSE NoCall
  BY DEF CancelStopped
<1>3. /\ tracked' \in [1..started -> Tracked]
      /\ \A h \in DOMAIN tracked : tracked'[h].key = tracked[h].key
  <2> DEFINE new == [tracked[g] EXCEPT !.canceled = TRUE]
  <2>1. tracked \in [1..started -> Tracked]
    BY DEF Consistent, TypeOK
  <2>2. new \in Tracked /\ new.key = tracked[g].key
    <3>1. \A t \in Tracked : LET n == [t EXCEPT !.canceled = TRUE]
                            IN  n \in Tracked /\ n.key = t.key
      BY DEF Tracked
    <3> QED
      BY <1>1, <2>1, <3>1
  <2>3. tracked' = [tracked EXCEPT ![g] = new]
    BY <1>2
  <2> HIDE DEF new
  <2> QED
    BY <1>1, <2>1, <2>2, <2>3
<1>4. files' \in [Cluster -> Credential \cup {"partial", Absent}]
  BY <1>1 DEF CancelStopped, Consistent, TypeOK
<1>5. call' \in Call
  BY <1>1, <1>2, CallMade
<1>6. TypeOK'
  BY <1>2, <1>3, <1>4, <1>5 DEF Consistent, TypeOK, world, run
<1>7. MapOK'
  BY <1>2, <1>3 DEF Consistent, TypeOK, MapOK, Running, Of
<1>8. CallOK'
  <2>1. CASE pc = "handling"
    BY <1>1, <1>2, <2>1 DEF CallOK, Running, run
  <2>2. CASE pc # "handling"
    BY <1>2, <2>2, NoCallOK
  <2> QED
    BY <2>1, <2>2
<1> QED
  BY <1>2, <1>6, <1>7, <1>8, Kept DEF Consistent, run

LEMMA ShutdownStep ==
    ASSUME Consistent, StopAll
    PROVE  Consistent'
<1>1. /\ call = NoCall /\ call' = NoCall /\ pc' = "over"
      /\ UNCHANGED <<world, settled, found, todo, gone, started>>
  BY DEF StopAll, Consistent, CallOK
<1>2. clusters' = [c \in Cluster |-> Nobody]
  BY DEF StopAll
<1>3. tracked' \in [1..started -> Tracked]
  <2>1. tracked \in [1..started -> Tracked]
    BY DEF Consistent, TypeOK
  <2>2. \A t \in Tracked : [t EXCEPT !.canceled = TRUE] \in Tracked
    BY DEF Tracked
  <2> QED
    BY <2>1, <2>2 DEF StopAll
<1>4. files' \in [Cluster -> Credential \cup {"partial", Absent}]
  BY DEF StopAll, Consistent, TypeOK
<1>5. TypeOK'
  BY <1>1, <1>2, <1>3, <1>4, CallMade DEF Consistent, TypeOK, world
<1>6. MapOK'
  BY <1>2 DEF MapOK, Running
<1>7. CallOK' /\ GoneOK'
  BY <1>1, NoCallOK DEF GoneOK
<1> QED
  BY <1>5, <1>6, <1>7 DEF Consistent

LEMMA ReachedStep ==
    ASSUME Consistent, NEW g \in DOMAIN tracked, Reached(g)
    PROVE  Consistent'
<1>1. UNCHANGED <<world, run, call, clusters, started, files>>
  BY DEF Reached
<1>2. /\ tracked' \in [1..started -> Tracked]
      /\ \A h \in DOMAIN tracked : /\ tracked'[h].key = tracked[h].key
                                   /\ tracked'[h].path = tracked[h].path
                                   /\ h # g => tracked'[h] = tracked[h]
  <2> DEFINE new == [tracked[g] EXCEPT !.watch = "answered", !.reachable = IF up THEN "yes" ELSE "no"]
  <2>1. tracked \in [1..started -> Tracked]
    BY DEF Consistent, TypeOK
  <2>2. new \in Tracked /\ new.key = tracked[g].key /\ new.path = tracked[g].path
    BY <2>1 DEF Tracked
  <2>3. tracked' = [tracked EXCEPT ![g] = new]
    BY DEF Reached
  <2> HIDE DEF new
  <2> QED
    BY <2>1, <2>2, <2>3
<1>3. tracked[g].watch = "asking"
  BY DEF Reached
<1>4. TypeOK'
  BY <1>1, <1>2 DEF Consistent, TypeOK, world, run
<1>5. MapOK'
  BY <1>1, <1>2 DEF Consistent, TypeOK, MapOK, Running, Of
<1>6. CallOK'
  <2>1. DOMAIN tracked' = DOMAIN tracked
    BY <1>2 DEF Consistent, TypeOK
  <2> QED
    BY <1>1, <1>2, <1>3, <2>1 DEF Consistent, CallOK, Running, run
<1> QED
  BY <1>1, <1>4, <1>5, <1>6, Kept DEF Consistent, run

-------------------------------------------------------------------------------
LEMMA ConsistentStep == Consistent /\ [Next]_vars => Consistent'
  BY WorldStep, ListStep, WalkStep, UnlistStep, StartStep, LaunchStep, CancelStep, ShutdownStep,
     ReachedStep DEF Next

(* It holds at first.                                                        *)
LEMMA InitConsistent == Init => Consistent
<1> SUFFICES ASSUME Init PROVE Consistent
  OBVIOUS
<1>1. tracked \in [1..started -> Tracked] /\ started \in Nat
  <2>1. started = 0 /\ tracked = <<>>
    BY DEF Init
  <2>2. 1..0 = {} /\ <<>> = [g \in {} |-> 0]
    OBVIOUS
  <2> QED
    BY <2>1, <2>2
<1>2. TypeOK
  BY <1>1, CallMade DEF Init, TypeOK
<1>3. MapOK /\ CallOK /\ GoneOK
  BY DEF Init, MapOK, CallOK, GoneOK, Running, NoCall
<1> QED
  BY <1>2, <1>3 DEF Consistent

(* Discovery, starts, stops and the goroutines keep the type of the state. *)
THEOREM TypeCorrect == SafeSpec => []TypeOK
<1>1. SafeSpec => []Consistent
  BY InitConsistent, ConsistentStep, PTL DEF SafeSpec
<1>2. Consistent => TypeOK
  BY DEF Consistent
<1> QED
  BY <1>1, <1>2, PTL

-------------------------------------------------------------------------------
(* What the two safety properties need to know of a step: where a collector  *)
(* is reached from, whether it is alive, and which file it was given.        *)

(* A collector is reached from one key only, its own. *)
LEMMA OneKey ==
    ASSUME Consistent, NEW g \in DOMAIN tracked, NEW c \in Cluster, Answers(g, c)
    PROVE  tracked[g].key = c
<1>1. g # Nobody
  BY DEF Consistent, TypeOK, Nobody
<1> QED
  BY <1>1 DEF Answers, Consistent, MapOK, CallOK, Running, Of

(* Of a cluster that is not running and not being stopped nobody answers. *)
LEMMA NoAnswer ==
    ASSUME Consistent, NEW g \in DOMAIN tracked, NEW c \in Cluster, ~Running(c),
           call.step = "stopping" => call.key # c
    PROVE  ~Answers(g, c)
<1>1. g # Nobody
  BY DEF Consistent, TypeOK, Nobody
<1> QED
  BY <1>1 DEF Answers, Running

LEMMA SameKept ==
    ASSUME NoLeakedCollector, CredentialsMatch,
           UNCHANGED <<call, clusters, tracked, files>>
    PROVE  NoLeakedCollector' /\ CredentialsMatch'
  BY DEF NoLeakedCollector, CredentialsMatch, Answers, Alive

(* A collector that gets its answer leaks nothing and changes no credential. *)
LEMMA ReachedSafe ==
    ASSUME Consistent, NoLeakedCollector, CredentialsMatch,
           NEW g \in DOMAIN tracked, Reached(g)
    PROVE  NoLeakedCollector' /\ CredentialsMatch'
<1>1. UNCHANGED <<call, clusters, files>> /\ tracked[g].watch = "asking"
  BY DEF Reached
<1>2. /\ DOMAIN tracked' = DOMAIN tracked
      /\ \A h \in DOMAIN tracked :
            /\ tracked'[h].key = tracked[h].key
            /\ tracked'[h].path = tracked[h].path
            /\ tracked'[h].clouds = tracked[h].clouds
            /\ tracked'[h].canceled = tracked[h].canceled
            /\ tracked'[h].watch # "none" <=> tracked[h].watch # "none"
  <2> DEFINE new == [tracked[g] EXCEPT !.watch = "answered", !.reachable = IF up THEN "yes" ELSE "no"]
  <2>1. tracked \in [1..started -> Tracked]
    BY DEF Consistent, TypeOK
  <2>2. \A t \in Tracked : \A r :
          LET n == [t EXCEPT !.watch = "answered", !.reachable = r]
          IN  /\ n.key = t.key /\ n.path = t.path /\ n.clouds = t.clouds
              /\ n.canceled = t.canceled /\ n.watch = "answered"
    BY DEF Tracked
  <2>3. /\ new.key = tracked[g].key /\ new.path = tracked[g].path
        /\ new.clouds = tracked[g].clouds /\ new.canceled = tracked[g].canceled
        /\ new.watch = "answered"
    BY <2>1, <2>2
  <2>4. tracked' = [tracked EXCEPT ![g] = new]
    BY DEF Reached
  <2> HIDE DEF new
  <2> QED
    BY <1>1, <2>1, <2>3, <2>4
<1>3. \A h \in DOMAIN tracked, c \in Cluster : Answers(h, c)' <=> Answers(h, c)
  BY <1>1 DEF Answers
<1>4. \A h \in DOMAIN tracked : tracked[h].key \in Cluster
  BY DEF Consistent, TypeOK, Tracked
<1>5. NoLeakedCollector'
  BY <1>2, <1>3, <1>4 DEF NoLeakedCollector, Alive
<1>6. CredentialsMatch'
  BY <1>1, <1>2, <1>3 DEF CredentialsMatch
<1> QED
  BY <1>5, <1>6

(* A collector that leaves the map is still reached through the call. *)
LEMMA UnlistSafe ==
    ASSUME Consistent, NoLeakedCollector, CredentialsMatch,
           NEW c \in Cluster, Restart(c) \/ StopGone(c)
    PROVE  NoLeakedCollector' /\ CredentialsMatch'
<1>1. call = NoCall /\ UNCHANGED <<tracked, files>>
  BY DEF Restart, StopGone
<1>2. /\ clusters' = [clusters EXCEPT ![c] = Nobody]
      /\ call' = [step |-> "stopping", of |-> clusters[c], key |-> c]
  BY DEF Restart, StopGone, Unlist
<1>3. \A g \in DOMAIN tracked, d \in Cluster : Answers(g, d)' <=> Answers(g, d)
  <2> SUFFICES ASSUME NEW g \in DOMAIN tracked, NEW d \in Cluster
               PROVE  Answers(g, d)' <=> Answers(g, d)
    OBVIOUS
  <2>1. g # Nobody
    BY DEF Consistent, TypeOK, Nobody
  <2>2. clusters \in [Cluster -> {Nobody} \cup Collector]
    BY DEF Consistent, TypeOK
  <2>3. Answers(g, d) <=> clusters[d] = g
    BY <1>1 DEF Answers, NoCall
  <2>4. Answers(g, d)' <=> clusters'[d] = g \/ (clusters[c] = g /\ c = d)
    BY <1>2 DEF Answers
  <2> QED
    BY <1>2, <2>1, <2>2, <2>3, <2>4
<1>4. \A h \in DOMAIN tracked : tracked[h].key \in Cluster
  BY DEF Consistent, TypeOK, Tracked
<1> QED
  BY <1>1, <1>3, <1>4 DEF NoLeakedCollector, CredentialsMatch, Alive

(* A collector that is put into the map had no predecessor left to answer    *)
(* for its cluster, so no complete file either.                              *)
LEMMA StartSafe ==
    ASSUME Consistent, NoLeakedCollector, CredentialsMatch, NEW c \in Cluster, Start(c)
    PROVE  NoLeakedCollector' /\ CredentialsMatch'
<1> DEFINE g == started + 1
<1>1. ~Running(c) /\ call.step \in {"none", "starting"}
  BY DEF Start, Consistent, CallOK, NoCall
<1>2. /\ g \notin DOMAIN tracked /\ g # Nobody /\ g \in DOMAIN tracked'
      /\ \A h \in DOMAIN tracked' : h = g \/ h \in DOMAIN tracked
      /\ \A h \in DOMAIN tracked : h # Nobody /\ h \in DOMAIN tracked' /\ tracked'[h] = tracked[h]
      /\ tracked'[g].watch = "none" /\ ~tracked'[g].path
  BY DEF Start, Consistent, TypeOK, Nobody
<1> HIDE DEF g
<1>3. clusters' = [clusters EXCEPT ![c] = g] /\ UNCHANGED files /\ call'.step \in {"none", "launching"}
  <2>1. clusters' = [clusters EXCEPT ![c] = g] /\ UNCHANGED files
    BY DEF Start, g
  <2>2. call'.step \in {"none", "launching"}
    BY DEF Start, NoCall
  <2> QED
    BY <2>1, <2>2
<1>4. clusters \in [Cluster -> {Nobody} \cup Collector]
  BY DEF Consistent, TypeOK
<1>5. \A h \in DOMAIN tracked, d \in Cluster : Answers(h, d)' <=> Answers(h, d)
  <2> SUFFICES ASSUME NEW h \in DOMAIN tracked, NEW d \in Cluster
               PROVE  Answers(h, d)' <=> Answers(h, d)
    OBVIOUS
  <2>1. Answers(h, d) <=> clusters[d] = h
    BY <1>1 DEF Answers
  <2>2. Answers(h, d)' <=> clusters'[d] = h
    BY <1>3 DEF Answers
  <2> QED
    BY <1>1, <1>2, <1>3, <1>4, <2>1, <2>2 DEF Running
<1>6. \A h \in DOMAIN tracked : tracked[h].key \in Cluster
  BY DEF Consistent, TypeOK, Tracked
<1>7. NoLeakedCollector'
  BY <1>2, <1>5, <1>6 DEF NoLeakedCollector, Alive
<1>8. CredentialsMatch'
  BY <1>2, <1>3, <1>5 DEF CredentialsMatch
<1> QED
  BY <1>7, <1>8

(* A collector that is launched is in the map; whatever became of its file,  *)
(* there was no complete one before.                                         *)
LEMMA LaunchSafe ==
    ASSUME Consistent, NoLeakedCollector, CredentialsMatch,
           LaunchWithoutClouds \/ LaunchWithClouds \/ WriteFails
    PROVE  NoLeakedCollector' /\ CredentialsMatch'
<1> DEFINE g == call.of
           k == call.key
<1>1. /\ call.step = "launching" /\ g \in DOMAIN tracked /\ k \in Cluster
      /\ tracked[g].key = k /\ clusters[k] = g /\ ~tracked[g].path
  BY CallShape DEF LaunchWithoutClouds, LaunchWithClouds, WriteFails, Consistent, CallOK, TypeOK
<1>2. PICK path \in BOOLEAN, err \in BOOLEAN :
         /\ Launch(path, err)
         /\ IF path THEN files' = [files EXCEPT ![k] = tracked[g].clouds]
                    ELSE files' = [files EXCEPT ![k] = "partial"] \/ files' = files
  BY DEF LaunchWithoutClouds, LaunchWithClouds, WriteFails
<1>3. call' = NoCall /\ clusters' = clusters
  BY <1>2 DEF Launch
<1>4. /\ DOMAIN tracked' = DOMAIN tracked
      /\ tracked'[g].path = path
      /\ \A h \in DOMAIN tracked : /\ tracked'[h].key = tracked[h].key
                                   /\ tracked'[h].clouds = tracked[h].clouds
                                   /\ h # g => tracked'[h] = tracked[h]
  <2> DEFINE new == [tracked[g] EXCEPT !.path = path, !.cloudsErr = err, !.watch = "asking"]
  <2>1. tracked \in [1..started -> Tracked]
    BY DEF Consistent, TypeOK
  <2>2. \A t \in Tracked : LET n == [t EXCEPT !.path = path, !.cloudsErr = err, !.watch = "asking"]
                           IN  n.key = t.key /\ n.clouds = t.clouds /\ n.path = path
    BY DEF Tracked
  <2>3. new.key = tracked[g].key /\ new.clouds = tracked[g].clouds /\ new.path = path
    BY <1>1, <2>1, <2>2
  <2>4. tracked' = [tracked EXCEPT ![g] = new]
    BY <1>2 DEF Launch
  <2> HIDE DEF new, g
  <2> QED
    BY <1>1, <2>1, <2>3, <2>4
<1>5. \A h \in DOMAIN tracked, c \in Cluster : Answers(h, c) <=> clusters[c] = h
  BY <1>1 DEF Answers
<1>6. \A h \in DOMAIN tracked, c \in Cluster : Answers(h, c)' <=> clusters[c] = h
  BY <1>3 DEF Answers, NoCall
<1> HIDE DEF g, k
<1>7. \A h \in DOMAIN tracked : tracked[h].key \in Cluster
  BY DEF Consistent, TypeOK, Tracked
<1>8. NoLeakedCollector'
  <2> SUFFICES ASSUME NEW h \in DOMAIN tracked, Alive(h)'
               PROVE  clusters[tracked[h].key] = h
    BY <1>4, <1>6, <1>7 DEF NoLeakedCollector
  <2>1. CASE h = g
    BY <1>1, <2>1
  <2>2. CASE h # g
    BY <1>4, <1>5, <1>7, <2>2 DEF NoLeakedCollector, Alive
  <2> QED
    BY <2>1, <2>2
<1>9. CredentialsMatch'
  <2>1. files[k] \notin Credential
    BY <1>1, <1>5 DEF CredentialsMatch
  <2>2. \A c \in Cluster : c # k => clusters[c] # g
    BY <1>1 DEF Consistent, MapOK, Running, Of, TypeOK, Nobody
  <2>3. files \in [Cluster -> Credential \cup {"partial", Absent}]
    BY DEF Consistent, TypeOK
  <2>4. \A c \in Cluster : c # k => files'[c] = files[c]
    BY <1>2, <2>3
  <2>5. IF path THEN files'[k] = tracked[g].clouds ELSE files'[k] \notin Credential
    BY <1>1, <1>2, <2>1, <2>3, FleetAssumption
  <2> SUFFICES ASSUME NEW c \in Cluster
               PROVE  /\ files'[c] \in Credential =>
                            \E h \in DOMAIN tracked : clusters[c] = h /\ tracked'[h].path
                      /\ \A h \in DOMAIN tracked :
                            clusters[c] = h /\ tracked'[h].path => files'[c] = tracked'[h].clouds
    BY <1>4, <1>6 DEF CredentialsMatch
  <2>6. CASE c = k
    BY <1>1, <1>4, <2>5, <2>6
  <2>7. CASE c # k
    BY <1>4, <1>5, <2>2, <2>4, <2>7 DEF CredentialsMatch
  <2> QED
    BY <2>6, <2>7
<1> QED
  BY <1>8, <1>9

(* A collector that is canceled leaves, and its file with it. *)
LEMMA CancelSafe ==
    ASSUME Consistent, NoLeakedCollector, CredentialsMatch, CancelStopped
    PROVE  NoLeakedCollector' /\ CredentialsMatch'
<1> DEFINE g == call.of
           k == call.key
<1>1. /\ call.step = "stopping" /\ g \in DOMAIN tracked /\ k \in Cluster
      /\ tracked[g].key = k /\ clusters[k] = Nobody
  BY CallShape DEF CancelStopped, Consistent, CallOK, TypeOK, Running
<1>2. /\ tracked' = [tracked EXCEPT ![g].canceled = TRUE] /\ clusters' = clusters
      /\ files' = IF tracked[g].path THEN [files EXCEPT ![k] = Absent] ELSE files
      /\ call'.step \in {"starting", "none"}
  <2>1. call'.step \in {"starting", "none"}
    BY DEF CancelStopped, NoCall
  <2> QED
    BY <2>1 DEF CancelStopped
<1>3. /\ DOMAIN tracked' = DOMAIN tracked
      /\ tracked'[g].canceled
      /\ \A h \in DOMAIN tracked : /\ tracked'[h].key = tracked[h].key
                                   /\ tracked'[h].clouds = tracked[h].clouds
                                   /\ tracked'[h].path = tracked[h].path
                                   /\ h # g => tracked'[h] = tracked[h]
  <2> DEFINE new == [tracked[g] EXCEPT !.canceled = TRUE]
  <2>1. tracked \in [1..started -> Tracked]
    BY DEF Consistent, TypeOK
  <2>2. \A t \in Tracked : LET n == [t EXCEPT !.canceled = TRUE]
                           IN  n.key = t.key /\ n.clouds = t.clouds /\ n.path = t.path /\ n.canceled
    BY DEF Tracked
  <2>3. /\ new.key = tracked[g].key /\ new.clouds = tracked[g].clouds
        /\ new.path = tracked[g].path /\ new.canceled
    BY <1>1, <2>1, <2>2
  <2>4. tracked' = [tracked EXCEPT ![g] = new]
    BY <1>2
  <2> HIDE DEF new, g
  <2> QED
    BY <1>1, <2>1, <2>3, <2>4
<1>4. \A h \in DOMAIN tracked, c \in Cluster :
         Answers(h, c) <=> clusters[c] = h \/ (h = g /\ c = k)
  BY <1>1 DEF Answers
<1>5. \A h \in DOMAIN tracked, c \in Cluster : Answers(h, c)' <=> clusters[c] = h
  BY <1>2 DEF Answers
<1> HIDE DEF g, k
<1>6. \A h \in DOMAIN tracked : tracked[h].key \in Cluster /\ h # Nobody
  BY DEF Consistent, TypeOK, Tracked, Nobody
<1>7. NoLeakedCollector'
  BY <1>3, <1>4, <1>5, <1>6 DEF NoLeakedCollector, Alive
<1>8. CredentialsMatch'
  <2>1. files \in [Cluster -> Credential \cup {"partial", Absent}]
    BY DEF Consistent, TypeOK
  <2>2. \A c \in Cluster : c # k => files'[c] = files[c]
    BY <1>2, <2>1
  <2>3. files'[k] \notin Credential
    <3>1. CASE tracked[g].path
      BY <1>1, <1>2, <2>1, <3>1, FleetAssumption
    <3>2. CASE ~tracked[g].path
      BY <1>1, <1>2, <1>4, <1>6, <3>2 DEF CredentialsMatch
    <3> QED
      BY <3>1, <3>2
  <2> SUFFICES ASSUME NEW c \in Cluster
               PROVE  /\ files'[c] \in Credential =>
                            \E h \in DOMAIN tracked : clusters[c] = h /\ tracked'[h].path
                      /\ \A h \in DOMAIN tracked :
                            clusters[c] = h /\ tracked'[h].path => files'[c] = tracked'[h].clouds
    BY <1>3, <1>5 DEF CredentialsMatch
  <2>4. CASE c = k
    BY <1>1, <1>6, <2>3, <2>4
  <2>5. CASE c # k
    BY <1>3, <1>4, <2>2, <2>5 DEF CredentialsMatch
  <2> QED
    BY <2>4, <2>5
<1> QED
  BY <1>7, <1>8

(* stopAll empties the map and cancels all that was in it. *)
LEMMA ShutdownSafe ==
    ASSUME Consistent, NoLeakedCollector, CredentialsMatch, StopAll
    PROVE  NoLeakedCollector' /\ CredentialsMatch'
<1>1. call = NoCall /\ call' = NoCall
  BY DEF StopAll, Consistent, CallOK
<1>2. \A c \in Cluster : clusters'[c] = Nobody
  BY DEF StopAll
<1>3. DOMAIN tracked' = DOMAIN tracked
  BY DEF StopAll
<1>4. \A h \in DOMAIN tracked, c \in Cluster : Answers(h, c) <=> clusters[c] = h
  BY <1>1 DEF Answers, NoCall
<1>5. \A h \in DOMAIN tracked, c \in Cluster : ~Answers(h, c)'
  BY <1>1, <1>2 DEF Answers, NoCall, Consistent, TypeOK, Nobody
<1>6. \A h \in DOMAIN tracked : tracked[h].key \in Cluster /\ h # Nobody
  BY DEF Consistent, TypeOK, Tracked, Nobody
<1>7. NoLeakedCollector'
  <2> SUFFICES ASSUME NEW h \in DOMAIN tracked
               PROVE  ~Alive(h)'
    BY <1>3 DEF NoLeakedCollector
  <2>1. CASE \E c \in Cluster : clusters[c] = h
    <3>1. tracked'[h] = [tracked[h] EXCEPT !.canceled = TRUE]
      BY <2>1 DEF StopAll
    <3>2. tracked[h] \in Tracked
      BY DEF Consistent, TypeOK
    <3>3. tracked'[h].canceled
      BY <3>1, <3>2 DEF Tracked
    <3> QED
      BY <3>3 DEF Alive
  <2>2. CASE ~ \E c \in Cluster : clusters[c] = h
    <3>1. tracked'[h] = tracked[h]
      BY <2>2 DEF StopAll
    <3>2. ~Alive(h)
      BY <1>4, <1>6, <2>2 DEF NoLeakedCollector
    <3> QED
      BY <3>1, <3>2 DEF Alive
  <2> QED
    BY <2>1, <2>2
<1>8. CredentialsMatch'
  <2> SUFFICES ASSUME NEW c \in Cluster, files'[c] \in Credential
               PROVE  FALSE
    BY <1>3, <1>5 DEF CredentialsMatch
  <2>1. ~(Running(c) /\ Of(c).path) /\ files[c] \in Credential
    BY FleetAssumption DEF StopAll
  <2>2. PICK h \in DOMAIN tracked : clusters[c] = h /\ tracked[h].path
    BY <1>4, <2>1 DEF CredentialsMatch
  <2> QED
    BY <1>6, <2>1, <2>2 DEF Running, Of
<1> QED
  BY <1>7, <1>8

LEMMA SafeStep ==
    Consistent /\ NoLeakedCollector /\ CredentialsMatch /\ [Next]_vars
        => NoLeakedCollector' /\ CredentialsMatch'
<1> SUFFICES ASSUME Consistent, NoLeakedCollector, CredentialsMatch, [Next]_vars
             PROVE  NoLeakedCollector' /\ CredentialsMatch'
  OBVIOUS
<1>1. CASE UNCHANGED <<call, clusters, tracked, files>>
  BY <1>1, SameKept
<1>2. CASE \/ \E c \in Cluster, d \in Discovered \cup {Absent} : ClusterChanges(c, d)
           \/ Outage \/ Recover \/ Cancel \/ UNCHANGED vars
  BY <1>1, <1>2 DEF ClusterChanges, Outage, Recover, Cancel, vars
<1>3. CASE \/ \E unread \in SUBSET Cluster : Lists(unread)
           \/ ListFails \/ FindGone \/ Reconciled \/ Tick
           \/ \E c \in Cluster : Keep(c)
  BY <1>1, <1>3 DEF Lists, ListFails, FindGone, Reconciled, Tick, Keep
<1> QED
  BY <1>2, <1>3, UnlistSafe, StartSafe, LaunchSafe, CancelSafe, ShutdownSafe, ReachedSafe DEF Next

(* The inductive invariant.                                                  *)
LEMMA Safe == SafeSpec => [](Consistent /\ NoLeakedCollector /\ CredentialsMatch)
<1>1. Init => Consistent /\ NoLeakedCollector /\ CredentialsMatch
  <2> SUFFICES ASSUME Init PROVE NoLeakedCollector /\ CredentialsMatch
    BY InitConsistent
  <2>1. DOMAIN tracked = {} /\ \A c \in Cluster : files[c] \notin Credential
    BY FleetAssumption DEF Init
  <2> QED
    BY <2>1 DEF NoLeakedCollector, CredentialsMatch
<1> QED
  BY <1>1, ConsistentStep, SafeStep, PTL DEF SafeSpec

(* However clusters vanish, return and find their kubeconfigs, and wherever  *)
(* Run is canceled, a launched collector that was not canceled can be        *)
(* reached through the map or through the stop under way.                    *)
THEOREM LeaksNoCollector == SafeSpec => []NoLeakedCollector
  BY Safe, PTL

(* A complete credentials file is that of its cluster's collector, and a     *)
(* collector that was given a file has it, through write failures and stops. *)
THEOREM KeepsCredentials == SafeSpec => []CredentialsMatch
  BY Safe, PTL

-------------------------------------------------------------------------------
(* What the two keys may hold, and how many pods a set of unwell ones is.    *)
NodesHeld == {NotYet, Errored} \cup {Holds(n) : n \in NodeCounts}
PodsHeld == {NotYet, Errored} \cup {Holds(u) : u \in SUBSET DOMAIN ManagementPod}
ManagementInv ==
    /\ reachable \in {"asked", "yes", "no"}
    /\ nodesNow \in NodeCounts /\ podsNow \in SUBSET DOMAIN ManagementPod
    /\ nodes \in NodesHeld /\ pods \in PodsHeld

LEMMA ManagementInvHolds == ManagementSpec => []ManagementInv
<1>1. ManagementInit => ManagementInv
  BY ManagementAssumption DEF ManagementInit, ManagementInv, NodesHeld, PodsHeld, NodeCounts
<1>2. ManagementInv /\ [ManagementNext]_managementVars => ManagementInv'
  <2> SUFFICES ASSUME ManagementInv, [ManagementNext]_managementVars PROVE ManagementInv'
    OBVIOUS
  <2>1. CASE ListManagement
    BY <2>1 DEF ListManagement, ManagementInv, NodesHeld, PodsHeld, managed
  <2>2. CASE ManagementChanges
    BY <2>2 DEF ManagementChanges, ManagementInv
  <2>3. CASE ProbeManagement
    BY <2>3 DEF ProbeManagement, ManagementInv, managed
  <2>4. CASE UNCHANGED <<reachable, nodesNow, podsNow, nodes, pods>>
    BY <2>4 DEF ManagementInv
  <2> QED BY <2>1, <2>2, <2>3, <2>4 DEF ManagementNext, managementVars, managed, StartManagement,
       ServerVersion, WatchManagement, Follow, WindowCloses, StopManagement, AskManagement
<1> QED BY <1>1, <1>2, PTL DEF ManagementSpec

(* The list of unwell pods is as long as there are pods or lines for them,   *)
(* and says how many it left out.                                            *)
LEMMA UnhealthyPodsAre ==
    ASSUME NEW u \in SUBSET DOMAIN ManagementPod
    PROVE  LET page == UnhealthyPods(u)
           IN /\ Cardinality(u) = Len(page.shown) + page.truncated
              /\ u # {} => page.shown # <<>>
<1> DEFINE total == Cardinality(u)
           At(i) == CHOOSE p \in u : Cardinality({q \in u : Before(q, p)}) = i - 1
           sorted == [i \in 1 .. total |-> At(i)]
           n == Min({total, MaxManagementPods})
<1>1. total \in Nat /\ (u # {} => total > 0)
  BY ManagementAssumption, FS_Subset, FS_CardinalityType, FS_EmptySet
<1>2. n \in 0 .. total /\ (total > 0 => n > 0)
  <2> DEFINE S == {total, MaxManagementPods}
  <2>1. \E x \in S : \A y \in S : x <= y
    BY <1>1, ManagementAssumption
  <2>2. Min(S) \in S /\ \A y \in S : Min(S) <= y
    BY <2>1 DEF Min
  <2> QED BY <1>1, <2>2, ManagementAssumption
<1>3. UnhealthyPods(u) = [shown |-> SubSeq(sorted, 1, n), truncated |-> total - n]
  BY DEF UnhealthyPods
<1> HIDE DEF At
<1>4. PICK T : sorted \in [1 .. total -> T]
  <2>1. sorted \in [1 .. total -> {At(i) : i \in 1 .. total}]
    OBVIOUS
  <2> QED BY <2>1
<1> HIDE DEF sorted, n, total
<1>5. sorted \in Seq(T) /\ Len(sorted) = total
  BY <1>1, <1>4
<1>6. Len(SubSeq(sorted, 1, n)) = n
  BY <1>1, <1>2, <1>5
<1> DEFINE s == SubSeq(sorted, 1, n)
           page == UnhealthyPods(u)
<1>7. Len(s) = n /\ page = [shown |-> s, truncated |-> total - n]
  BY <1>3, <1>6
<1> HIDE DEF s, page
<1>8. page.shown = s /\ page.truncated = total - n
  BY <1>7
<1>9. n \in Nat /\ (n > 0 => s # <<>>)
  BY <1>1, <1>2, <1>7
<1> QED BY <1>1, <1>2, <1>7, <1>8, <1>9 DEF total, page

(* The worse of two cells. *)
LEMMA WorstOfTwo ==
    ASSUME NEW a \in {"loading", "ok", "warn", "err"}, NEW b \in {"loading", "ok", "warn", "err"}, NEW x, NEW y
    PROVE  LET worst == WorstOf(<<[name |-> x, status |-> a], [name |-> y, status |-> b]>>)
           IN /\ worst = "ok" <=> {a, b} \subseteq {"ok", "loading"} /\ "ok" \in {a, b}
              /\ worst = "err" => "err" \in {a, b}
<1> DEFINE cells == <<[name |-> x, status |-> a], [name |-> y, status |-> b]>>
           At(v) == CHOOSE i \in DOMAIN Severity : Severity[i] = v
           S == {At(cells[c].status) : c \in DOMAIN cells}
<1>1. /\ DOMAIN Severity = 1 .. 4
      /\ Severity[1] = "loading" /\ Severity[2] = "ok" /\ Severity[3] = "warn" /\ Severity[4] = "err"
  BY DEF Severity
<1>2. /\ At("loading") = 1 /\ At("ok") = 2 /\ At("warn") = 3 /\ At("err") = 4
  BY <1>1
<1>3. S = {At(a), At(b)}
  <2>1. DOMAIN cells = {1, 2} /\ cells[1].status = a /\ cells[2].status = b
    OBVIOUS
  <2> HIDE DEF cells, At
  <2> QED BY <2>1
<1>4. WorstOf(cells) = Severity[Max(S)]
  BY DEF WorstOf
<1> HIDE DEF At, S
<1>5. Max(S) \in S /\ \A z \in S : z <= Max(S)
  <2>1. At(a) \in 1 .. 4 /\ At(b) \in 1 .. 4
    BY <1>2
  <2>2. \E z \in S : \A w \in S : w <= z
    BY <1>3, <2>1
  <2> QED BY <2>2 DEF Max
<1> QED BY <1>1, <1>2, <1>3, <1>4, <1>5

(* Green is earned by a list that was read and is well, red has a reason or  *)
(* a node, and the pods that are counted are those that are named or left    *)
(* out, however many nodes, pods and workloads there are and however few     *)
(* pods are named (Fleet.Management).                                        *)
THEOREM EarnsItsColour == ManagementSpec => []ManagementIsEarned
<1>1. ManagementInv => ManagementIsEarned
  <2> SUFFICES ASSUME ManagementInv PROVE ManagementIsEarned
    OBVIOUS
  <2> DEFINE v == ManagementView
             cells == ManagementCells(nodes, pods)
             Unready == Known(nodes) /\ nodes.items.ready < nodes.items.total
             blank == [version |-> kubeVersion, reachable |-> reachable = "yes",
                       error |-> IF reachable = "no" THEN "probe" ELSE IF watch = "failed" THEN "watch" ELSE "none",
                       nodes |-> [total |-> 0, ready |-> 0], nodesKnown |-> FALSE,
                       health |-> NotYet, pods |-> [shown |-> <<>>, truncated |-> 0],
                       cells |-> <<>>, status |-> "err"]
  <2>1. ~Known(NotYet)
    BY DEF Known, NotYet
  <2>2. CASE management = "off"
    <3>1. v = [blank EXCEPT !.error = "off", !.version = FALSE]
      BY <2>2 DEF ManagementView
    <3>2. v.status = "err" /\ v.error = "off" /\ v.health = NotYet
      BY <3>1
    <3> HIDE DEF v, blank
    <3> QED BY <2>1, <3>2 DEF ManagementIsEarned, v
  <2>3. CASE management # "off" /\ reachable # "yes"
    <3>1. v = blank
      BY <2>3 DEF ManagementView
    <3>2. /\ v.status = "err" /\ v.health = NotYet /\ v.cells = <<>> /\ v.nodesKnown = FALSE
          /\ v.error = "none" => reachable # "no"
      BY <3>1
    <3> HIDE DEF v, blank
    <3> QED BY <2>1, <2>3, <3>2 DEF ManagementIsEarned, ManagementInv, v
  <2>4. CASE management # "off" /\ reachable = "yes"
    <3> DEFINE cell1 == IF ~Known(nodes) THEN "loading" ELSE IF nodes.items.ready < nodes.items.total THEN "err" ELSE "ok"
               cell2 == IF ~Known(pods) THEN "loading" ELSE IF pods.items # {} THEN "warn" ELSE "ok"
               health == IF Known(pods) THEN Holds(BuildControllerHealth(pods.items)) ELSE NotYet
               page == IF Known(pods) THEN UnhealthyPods(pods.items) ELSE [shown |-> <<>>, truncated |-> 0]
    <3>1. v = [blank EXCEPT !.nodes = IF Known(nodes) THEN nodes.items ELSE @, !.nodesKnown = Known(nodes),
                            !.health = health, !.pods = page, !.cells = cells, !.status = WorstOf(cells)]
      BY <2>4 DEF ManagementView
    <3>2. /\ v.status = WorstOf(cells) /\ v.health = health /\ v.pods = page
          /\ v.error # "probe"
      BY <2>4, <3>1
    <3>3. cells = <<[name |-> "Nodes", status |-> cell1], [name |-> "Pods", status |-> cell2]>>
      BY DEF ManagementCells
    <3>4. /\ v.status = "ok" => {cell1, cell2} \subseteq {"ok", "loading"} /\ "ok" \in {cell1, cell2}
          /\ v.status = "err" => "err" \in {cell1, cell2}
      BY <3>2, <3>3, WorstOfTwo
    <3>5. Known(v.health) => /\ v.health.items.unhealthy = Len(v.pods.shown) + v.pods.truncated
                             /\ (\E w \in DOMAIN Workload : ~v.health.items.critical[w]) => v.pods.shown # <<>>
      <4> SUFFICES ASSUME Known(health)
                   PROVE  /\ health.items.unhealthy = Len(page.shown) + page.truncated
                          /\ (\E w \in DOMAIN Workload : ~health.items.critical[w]) => page.shown # <<>>
        BY <3>2
      <4>1. Known(pods)
        BY <2>1
      <4>2. pods.items \in SUBSET DOMAIN ManagementPod
        BY <4>1 DEF ManagementInv, PodsHeld, Known, NotYet, Errored, Holds
      <4>3. /\ health.items = [critical |-> [w \in DOMAIN Workload |-> Workload[w] \cap pods.items = {}],
                               unhealthy |-> Cardinality(pods.items)]
            /\ page = UnhealthyPods(pods.items)
        BY <4>1 DEF Holds, BuildControllerHealth
      <4> DEFINE critical == [w \in DOMAIN Workload |-> Workload[w] \cap pods.items = {}]
      <4>4. \A w \in DOMAIN Workload : critical[w] <=> Workload[w] \cap pods.items = {}
        BY Zenon
      <4> HIDE DEF critical
      <4>5. health.items.unhealthy = Cardinality(pods.items) /\ health.items.critical = critical
        BY <4>3 DEF critical
      <4> HIDE DEF health, page
      <4>6. (\E w \in DOMAIN Workload : ~health.items.critical[w]) => pods.items # {}
        BY <4>4, <4>5
      <4> QED BY <4>2, <4>3, <4>5, <4>6, UnhealthyPodsAre
    <3> HIDE DEF v, blank, cells, health, page
    <3> QED BY <2>4, <3>2, <3>4, <3>5 DEF ManagementIsEarned, v
  <2> QED BY <2>2, <2>3, <2>4
<1> QED BY <1>1, ManagementInvHolds, PTL

===============================================================================
