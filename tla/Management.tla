------------------------------- MODULE Management -------------------------------
(***************************************************************************)
(* The fleet page's section on the management cluster itself               *)
(* (internal/fleet/management.go).                                         *)
(*                                                                         *)
(* Four goroutines: the probe, the watcher, the follower that tells the    *)
(* page, and the page that asks for the view.  The probe is made once.     *)
(* Nodes and pods are counts; a pod is well, or needs attention with some  *)
(* number of restarts.                                                     *)
(***************************************************************************)
EXTENDS Integers, Sequences, FiniteSets, FiniteSetsExt

CONSTANTS
    MaxNode,            \* nodes there may be
    ManagementPod,      \* name -> its restarts when it is unwell; names are numbers
    MaxManagementPods,  \* maxManagementPods
    Workload            \* workload the profile declares -> the pods that belong to it

ASSUME ManagementAssumption ==
    /\ MaxNode \in Nat /\ MaxManagementPods \in Nat \ {0}
    /\ DOMAIN ManagementPod \subseteq Nat /\ IsFiniteSet(DOMAIN ManagementPod)

VARIABLES
    management,     \* "off", "up" or "stopped"
    reachable,      \* what the probe said: "asked", "yes" or "no"
    kubeVersion,    \* whether the version is known
    watch,          \* "new", "running", "failed"
    nodesNow, podsNow,      \* the cluster: [total, ready], and the unwell pods
    nodes, pods,            \* what the two keys hold
    token, windowOpen,      \* the follower's subscription and its coalescing window
    told                    \* the page has been told and has not asked yet

managementVars == <<management, reachable, kubeVersion, watch, nodesNow, podsNow, nodes, pods,
                    token, windowOpen, told>>
managed == <<nodesNow, podsNow>>

NotYet == [key |-> "absent"]
Errored == [key |-> "error"]
Holds(items) == [key |-> "items", items |-> items]
Known(snapshot) == snapshot.key = "items"

NodeCounts == {[total |-> t, ready |-> r] : t \in 0 .. MaxNode, r \in 0 .. MaxNode}

ManagementInit ==
    /\ management = "off"
    /\ reachable = "asked" /\ kubeVersion = FALSE
    /\ watch = "new"
    /\ nodesNow = [total |-> MaxNode, ready |-> MaxNode] /\ podsNow = {}
    /\ nodes = NotYet /\ pods = NotYet
    /\ token = FALSE /\ windowOpen = FALSE
    /\ told = FALSE

-------------------------------------------------------------------------------
(* The view. *)

(* unhealthyPods: the most restarts first, and how many did not fit. *)
Before(a, b) ==
    \/ ManagementPod[a] > ManagementPod[b]
    \/ ManagementPod[a] = ManagementPod[b] /\ a < b
UnhealthyPods(unwell) ==
    LET total == Cardinality(unwell)
        sorted == [i \in 1 .. total |->
                     CHOOSE p \in unwell : Cardinality({q \in unwell : Before(q, p)}) = i - 1]
        n == Min({total, MaxManagementPods})
    IN [shown |-> SubSeq(sorted, 1, n), truncated |-> total - n]

(* buildControllerHealth: what the management workloads' pods come to, and   *)
(* the number of pods that need attention.                                   *)
BuildControllerHealth(unwell) ==
    [critical |-> [w \in DOMAIN Workload |-> Workload[w] \cap unwell = {}],
     unhealthy |-> Cardinality(unwell)]

(* Faulty variant: a list that failed is a list of nothing. *)
CellsOfAnything(n, p) ==
    <<[name |-> "Nodes", status |-> IF Known(n) /\ n.items.ready < n.items.total THEN "err" ELSE "ok"],
      [name |-> "Pods", status |-> IF Known(p) /\ p.items # {} THEN "warn" ELSE "ok"]>>

(* managementCells: a cell is loading until its list is there. *)
ManagementCells(n, p) ==
    <<[name |-> "Nodes", status |-> IF ~Known(n) THEN "loading"
                                    ELSE IF n.items.ready < n.items.total THEN "err" ELSE "ok"],
      [name |-> "Pods", status |-> IF ~Known(p) THEN "loading"
                                   ELSE IF p.items # {} THEN "warn" ELSE "ok"]>>

(* Worst: loading is the least of all. *)
Severity == <<"loading", "ok", "warn", "err">>
WorstOf(cells) ==
    Severity[Max({CHOOSE i \in DOMAIN Severity : Severity[i] = cells[c].status : c \in DOMAIN cells})]

(* Management: an error there was is shown before the lists are asked for;   *)
(* without an answer nothing else is.                                        *)
ManagementView ==
    LET blank == [version |-> kubeVersion, reachable |-> reachable = "yes",
                  error |-> IF reachable = "no" THEN "probe" ELSE IF watch = "failed" THEN "watch" ELSE "none",
                  nodes |-> [total |-> 0, ready |-> 0], nodesKnown |-> FALSE,
                  health |-> NotYet, pods |-> [shown |-> <<>>, truncated |-> 0],
                  cells |-> <<>>, status |-> "err"]
        cells == ManagementCells(nodes, pods)
    IN CASE management = "off" -> [blank EXCEPT !.error = "off", !.version = FALSE]
         [] management # "off" /\ reachable # "yes" -> blank
         [] OTHER ->
              [blank EXCEPT
                 !.nodes = IF Known(nodes) THEN nodes.items ELSE @,
                 !.nodesKnown = Known(nodes),
                 !.health = IF Known(pods) THEN Holds(BuildControllerHealth(pods.items)) ELSE @,
                 !.pods = IF Known(pods) THEN UnhealthyPods(pods.items) ELSE @,
                 !.cells = cells,
                 !.status = WorstOf(cells)]

-------------------------------------------------------------------------------
(* The goroutines. *)

StartManagement ==
    /\ management = "off"
    /\ management' = "up"
    /\ UNCHANGED <<reachable, kubeVersion, watch, managed, nodes, pods, token, windowOpen, told>>

(* probe, which needs no running watcher and is not stopped with it: it      *)
(* records, asks for the version when it was answered, then tells the page.  *)
ProbeManagement ==
    /\ management # "off" /\ reachable = "asked"
    /\ reachable' \in {"yes", "no"}
    /\ told' = (told \/ reachable' = "no")
    /\ UNCHANGED <<management, kubeVersion, watch, managed, nodes, pods, token, windowOpen>>

ServerVersion ==
    /\ reachable = "yes" /\ ~kubeVersion
    /\ kubeVersion' \in BOOLEAN
    /\ told' = TRUE
    /\ UNCHANGED <<management, reachable, watch, managed, nodes, pods, token, windowOpen>>

WatchManagement ==
    /\ management = "up" /\ watch = "new"
    /\ \/ watch' = "running" /\ UNCHANGED told
       \/ watch' = "failed" /\ told' = TRUE
    /\ UNCHANGED <<management, reachable, kubeVersion, managed, nodes, pods, token, windowOpen>>

(* A key is rebuilt, or the list behind it has failed. *)
ListManagement ==
    /\ watch = "running" /\ management = "up"
    /\ \/ nodes' \in {Holds(nodesNow), Errored} /\ UNCHANGED pods
       \/ pods' \in {Holds(podsNow), Errored} /\ UNCHANGED nodes
    /\ token' = TRUE
    /\ UNCHANGED <<management, reachable, kubeVersion, watch, managed, windowOpen, told>>

(* The follower: a change inside the window is dropped. *)
Follow ==
    /\ management = "up" /\ token
    /\ token' = FALSE
    /\ windowOpen' = TRUE
    /\ told' = (told \/ ~windowOpen)
    /\ UNCHANGED <<management, reachable, kubeVersion, watch, managed, nodes, pods>>

WindowCloses ==
    /\ windowOpen
    /\ windowOpen' = FALSE
    /\ UNCHANGED <<management, reachable, kubeVersion, watch, managed, nodes, pods, token, told>>

(* Run's end. *)
StopManagement ==
    /\ management = "up"
    /\ management' = "stopped"
    /\ UNCHANGED <<reachable, kubeVersion, watch, managed, nodes, pods, token, windowOpen, told>>

ManagementChanges ==
    /\ \/ nodesNow' \in {n \in NodeCounts : n.ready <= n.total} /\ UNCHANGED podsNow
       \/ podsNow' \in SUBSET DOMAIN ManagementPod /\ UNCHANGED nodesNow
    /\ UNCHANGED <<management, reachable, kubeVersion, watch, nodes, pods, token, windowOpen, told>>

(* The page asks for the view. *)
AskManagement ==
    /\ told
    /\ told' = FALSE
    /\ UNCHANGED <<management, reachable, kubeVersion, watch, managed, nodes, pods, token, windowOpen>>

ManagementNext ==
    \/ StartManagement \/ ProbeManagement \/ ServerVersion \/ WatchManagement \/ ListManagement
    \/ Follow \/ WindowCloses \/ StopManagement \/ ManagementChanges \/ AskManagement

ManagementSpec == ManagementInit /\ [][ManagementNext]_managementVars

-------------------------------------------------------------------------------
(* Properties. *)

(* The section is green only when the API answered and a list of nodes all   *)
(* ready, or of pods all well, was read; a list that failed colours nothing. *)
(* It is red without a reason in words only until the probe is back, or for  *)
(* a node that is not ready.  The pods it counts are the pods it names and   *)
(* those it says it left out (Fleet.Management).                             *)
ManagementIsEarned ==
    LET v == ManagementView
        Unready == Known(nodes) /\ nodes.items.ready < nodes.items.total
    IN /\ v.status = "ok" =>
            /\ reachable = "yes"
            /\ Known(nodes) \/ Known(pods)
            /\ ~Unready /\ (Known(pods) => pods.items = {})
       /\ v.status = "err" /\ v.error = "none" => reachable = "asked" \/ Unready
       /\ v.error = "probe" => v.cells = <<>> /\ ~v.nodesKnown
       /\ Known(v.health) =>
            /\ v.health.items.unhealthy = Len(v.pods.shown) + v.pods.truncated
            /\ (\E w \in DOMAIN Workload : ~v.health.items.critical[w]) => v.pods.shown # <<>>

===============================================================================
