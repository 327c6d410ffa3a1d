------------------------------- MODULE Rollouts -------------------------------
(***************************************************************************)
(* Whether every pod runs its workload's current template                  *)
(* (internal/plugin/kube/rollout.go, plugin/ovn/rollout.go,                *)
(* plugin/openstack/services.go, pkg/subsystem Rollout).  The controllers  *)
(* of the cluster replace pods and report counts, each in its own time;    *)
(* the OVN poll lists the workloads kind by kind and asks for the nodes of *)
(* the stale pods afterwards; the services of the cloud are summed from    *)
(* the counts a store holds.                                               *)
(***************************************************************************)
EXTENDS Integers, Sequences, FiniteSets, FiniteSetsExt, SequencesExt

CONSTANTS
    Workload,   \* [kind, name, family, component, manual, nodes]
    MaxBump, MaxFail,   \* bounds: new templates, requests that fail
    Nowhere

Kinds == <<"Deployment", "StatefulSet", "DaemonSet">>

ASSUME RolloutsAssumption ==
    /\ {MaxBump, MaxFail} \subseteq Nat
    /\ IsFiniteSet(Workload) /\ Nowhere \notin Workload
    /\ \A w \in Workload : w.kind \in ToSet(Kinds) /\ w.manual \in BOOLEAN /\ IsFiniteSet(w.nodes)

VARIABLES
    template,   \* Workload -> number of its current template
    revision,   \* Workload -> newest template its controller has seen
    running,    \* Workload -> node -> [rev, ready]: its pods
    counts,     \* Workload -> [desired, updated, ready]: its status
    bumps, fails,
    poll,       \* the poll under way: [step, listed, wants, of, acc]
    components, \* what was last published: family -> Rollout
    moved       \* a pod or a template has changed since the poll began

clusterVars == <<template, revision, running, counts>>
rolloutVars == <<template, revision, running, counts, bumps, fails, poll, components, moved>>

Family == {w.family : w \in Workload}
Idle == [step |-> 0, listed |-> <<>>, of |-> Nowhere, current |-> 0, acc |-> <<>>]

-------------------------------------------------------------------------------
(* A Rollout is [desired, updated, ready, manual, nodes]. *)

Stale(r) == IF r.desired > r.updated THEN r.desired - r.updated ELSE 0
Converged(r) == Stale(r) = 0

(* Faulty variant of RolloutOf: the update strategy is not looked at. *)
RolloutOfAuto(w, c) ==
    [desired |-> c.desired, updated |-> c.updated, ready |-> c.ready, manual |-> FALSE, nodes |-> {}]

(* RolloutOfDeployment, RolloutOfStatefulSet, RolloutOfDaemonSet. *)
RolloutOf(w, c) ==
    [desired |-> c.desired, updated |-> c.updated, ready |-> c.ready, manual |-> w.manual, nodes |-> {}]

(* Add: manual only if all of it is. *)
Add(r, o) ==
    IF r.desired = 0 THEN o ELSE IF o.desired = 0 THEN r
    ELSE [desired |-> r.desired + o.desired, updated |-> r.updated + o.updated,
          ready |-> r.ready + o.ready, manual |-> r.manual /\ o.manual, nodes |-> r.nodes \cup o.nodes]

NoRollout == [desired |-> 0, updated |-> 0, ready |-> 0, manual |-> FALSE, nodes |-> {}]
AddTo(acc, f, r) ==
    [g \in DOMAIN acc \cup {f} |->
        IF g # f THEN acc[g] ELSE Add(IF f \in DOMAIN acc THEN acc[f] ELSE NoRollout, r)]

(* One workload after another. *)
AddAll(acc, ws) ==
    LET upTo[n \in 0 .. Len(ws)] ==
          IF n = 0 THEN acc ELSE AddTo(upTo[n - 1], ws[n].family, RolloutOf(ws[n], counts[ws[n]]))
    IN upTo[Len(ws)]

-------------------------------------------------------------------------------
(* CollectServices: the workloads of a service, and the parts of it that are *)
(* behind.                                                                   *)
SumOf(ws) == FoldLeft(Add, NoRollout, [i \in 1..Len(ws) |-> RolloutOf(ws[i], counts[ws[i]])])
Services == {w.family : w \in {x \in Workload : x.component # Nowhere}}
PartsOf(s) == {w.component : w \in {x \in Workload : x.family = s}}
Of(s) == {w \in Workload : w.family = s /\ counts[w].desired > 0}
Part(s, p) == SumOf(SetToSeq({w \in Of(s) : w.component = p}))

ServiceRow(s) ==
    [sum |-> SumOf(SetToSeq(Of(s))),
     behind |-> {p \in PartsOf(s) : ~Converged(Part(s, p))}]

-------------------------------------------------------------------------------
(* The cluster. *)

Old(w, n) == running[w][n].rev # template[w]
CountsNow(w) ==
    [desired |-> Cardinality(w.nodes),
     updated |-> Cardinality({n \in w.nodes : ~Old(w, n)}),
     ready |-> Cardinality({n \in w.nodes : running[w][n].ready})]

RolloutsInit ==
    /\ template = [w \in Workload |-> 0]
    /\ revision = [w \in Workload |-> 0]
    /\ running = [w \in Workload |-> [n \in w.nodes |-> [rev |-> 0, ready |-> TRUE]]]
    /\ counts = [w \in Workload |-> [desired |-> Cardinality(w.nodes), updated |-> Cardinality(w.nodes),
                                     ready |-> Cardinality(w.nodes)]]
    /\ bumps = 0 /\ fails = 0
    /\ poll = Idle /\ components = <<>> /\ moved = FALSE

(* A chart is upgraded; for the sake of the run only charts of one kind in a *)
(* behaviour, the network's or the services'.                                *)
Bump(w) ==
    /\ bumps < MaxBump
    /\ \A x \in Workload : template[x] > 0 => (x.component = Nowhere) = (w.component = Nowhere)
    /\ bumps' = bumps + 1
    /\ template' = [template EXCEPT ![w] = @ + 1]
    /\ moved' = TRUE
    /\ UNCHANGED <<revision, running, counts, fails, poll, components>>

(* The controller catches up: it records the template as its newest revision *)
(* and counts its pods.                                                      *)
Observe(w) ==
    /\ revision[w] # template[w] \/ counts[w] # CountsNow(w)
    /\ revision' = [revision EXCEPT ![w] = template[w]]
    /\ counts' = [counts EXCEPT ![w] = CountsNow(w)]
    /\ moved' = TRUE
    /\ UNCHANGED <<template, running, bumps, fails, poll, components>>

Renew(w, n) ==
    /\ revision[w] = template[w] /\ Old(w, n)
    /\ running' = [running EXCEPT ![w][n] = [rev |-> template[w], ready |-> FALSE]]
    /\ moved' = TRUE
    /\ UNCHANGED <<template, revision, counts, bumps, fails, poll, components>>

(* A rolling workload is replaced pod by pod; one that is replaced on        *)
(* deletion waits for an operator to drain the node.                         *)
Replace(w, n) == ~w.manual /\ (\A m \in w.nodes : running[w][m].ready) /\ Renew(w, n)
Drain(w, n) == w.manual /\ Renew(w, n)

Starts(w, n) ==
    /\ ~running[w][n].ready
    /\ running' = [running EXCEPT ![w][n].ready = TRUE]
    /\ moved' = TRUE
    /\ UNCHANGED <<template, revision, counts, bumps, fails, poll, components>>

-------------------------------------------------------------------------------
(* The poll. *)

Fails == fails < MaxFail /\ fails' = fails + 1
Succeeds == UNCHANGED fails
OfKind(k) == {w \in Workload : w.kind = k /\ w.component = Nowhere}

Begin ==
    /\ poll.step = 0
    /\ poll' = [Idle EXCEPT !.step = 1]
    /\ moved' = FALSE
    /\ UNCHANGED <<clusterVars, bumps, fails, components>>

(* One kind is listed; a list that fails leaves its workloads out.  Those of *)
(* the last kind are gone through one by one.                                *)
ListKind ==
    /\ poll.step \in 1..3
    /\ \/ /\ Fails
          /\ poll' = [poll EXCEPT !.step = @ + 1]
       \/ /\ Succeeds
          /\ LET ws == SetToSeq(OfKind(Kinds[poll.step]))
             IN poll' = IF poll.step = 3
                        THEN [poll EXCEPT !.step = 4, !.listed = [i \in DOMAIN ws |-> <<ws[i], counts[ws[i]]>>]]
                        ELSE [poll EXCEPT !.step = @ + 1, !.acc = AddAll(@, ws)]
    /\ UNCHANGED <<clusterVars, bumps, components, moved>>

Added(nodes) ==
    LET item == Head(poll.listed) IN
    [poll EXCEPT !.listed = Tail(@), !.of = Nowhere,
                 !.acc = AddTo(@, item[1].family, [RolloutOf(item[1], item[2]) EXCEPT !.nodes = nodes])]

(* A DaemonSet that has converged is added as it is; of one that has not,    *)
(* currentRevision asks for the newest template ...                          *)
NextDaemonSet ==
    /\ poll.step = 4 /\ poll.listed # <<>> /\ poll.of = Nowhere
    /\ LET item == Head(poll.listed) IN
       IF Converged(RolloutOf(item[1], item[2]))
       THEN Succeeds /\ poll' = Added({})
       ELSE \/ Fails /\ poll' = Added({})
            \/ Succeeds /\ poll' = [poll EXCEPT !.of = item[1], !.current = revision[item[1]]]
    /\ UNCHANGED <<clusterVars, bumps, components, moved>>

(* ... and StaleNodes for the pods that are not of it. *)
StaleNodes ==
    /\ poll.step = 4 /\ poll.of # Nowhere
    /\ \/ Fails /\ poll' = Added({})
       \/ /\ Succeeds
          /\ poll' = Added({n \in poll.of.nodes : running[poll.of][n].rev # poll.current})
    /\ UNCHANGED <<clusterVars, bumps, components, moved>>

PublishComponents ==
    /\ poll.step = 4 /\ poll.listed = <<>>
    /\ components' = poll.acc
    /\ poll' = Idle
    /\ UNCHANGED <<clusterVars, bumps, fails, moved>>

Controllers == \E w \in Workload : Observe(w) \/ \E n \in w.nodes : Replace(w, n) \/ Starts(w, n)
Polling == Begin \/ ListKind \/ NextDaemonSet \/ StaleNodes \/ PublishComponents

RolloutsNext ==
    \/ \E w \in Workload : Bump(w) \/ Observe(w) \/ \E n \in w.nodes : Replace(w, n) \/ Drain(w, n) \/ Starts(w, n)
    \/ Polling

RolloutsFairness ==
    /\ \A w \in Workload : WF_rolloutVars(Observe(w)) /\ WF_rolloutVars(\E n \in w.nodes : Starts(w, n) \/ Replace(w, n))
    /\ WF_rolloutVars(Polling)
RolloutsSpec == RolloutsInit /\ [][RolloutsNext]_rolloutVars /\ RolloutsFairness

-------------------------------------------------------------------------------
RolloutsTypeOK ==
    /\ DOMAIN running = Workload /\ poll.step \in 0..4
    /\ DOMAIN components \subseteq Family
    /\ \A w \in Workload : revision[w] <= template[w] /\ counts[w].updated <= counts[w].desired

OldNodes(w) == {n \in w.nodes : Old(w, n)}
Caught(w) == revision[w] = template[w] /\ counts[w] = CountsNow(w)
Parts(f) == {w \in Workload : w.family = f /\ w.component = Nowhere}

(* The moment a poll is over during which nothing moved and no request       *)
(* failed, what it has of a component whose controllers had caught up is     *)
(* what is there: it has converged only if every pod runs the current        *)
(* template, and the nodes it names are those whose pods do not              *)
(* (pollComponents, StaleNodes, RolloutOf, Add).                             *)
NodesAreNamed ==
    poll.step = 4 /\ poll.listed = <<>> /\ ~moved /\ fails = 0 =>
        \A f \in DOMAIN poll.acc : (\A w \in Parts(f) : Caught(w)) =>
            /\ Converged(poll.acc[f]) <=> \A w \in Parts(f) : OldNodes(w) = {}
            /\ poll.acc[f].nodes = UNION {OldNodes(w) : w \in {x \in Parts(f) : x.kind = "DaemonSet"}}

(* "A rolling workload will be fine if left alone" (pkg/subsystem): once     *)
(* there are no new templates, a component shown as rolling and not as       *)
(* waiting for an operator is, in the end, not shown as behind.              *)
RollingIsFineAlone ==
    \A f \in Family :
        <>[](f \in DOMAIN components /\ ~components[f].manual => Converged(components[f]))

(* What a poll says of a component is so, and what it calls rolling needs    *)
(* nobody (pollComponents, RolloutOf).                                       *)
RolloutsAreTold == []NodesAreNamed /\ RollingIsFineAlone

===============================================================================
