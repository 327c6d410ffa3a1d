------------------------------ MODULE MCWatcher ------------------------------
(***************************************************************************)
(* Instances of Watcher and Store for TLC: the nodes-and-pods group of the *)
(* workload watcher, and the store its snapshots are put in.  Watcher      *)
(* tells what is put and when, Store when it is read; no step of one       *)
(* depends on the other's variables, so a behaviour is of one of them.     *)
(***************************************************************************)
EXTENDS Watcher, Store

CONSTANTS o1, absent, k1, k2, p1, p2, s1, data, other, failure, none

MCObject == {o1}

NodesAndPods == <<"nodes", "pods">>
PodsThenNodes == <<"pods", "nodes">>
FromNodesAndPods == [key \in {"pods", "nodes"} |->
                        IF key = "pods" THEN {"pods"} ELSE {"nodes", "pods"}]

MCKey == {k1, k2}
MCTyped == {data, other}
MCValue == {data, other, failure}
MCPublisher == {p1, p2}
MCSubscriber == {s1}

VARIABLE part

NoWatcher ==
    /\ cluster = Nothing /\ cache = Nothing /\ backlog = Nothing
    /\ up = FALSE
    /\ fill = [k \in Kind |-> "unlisted"]
    /\ queued = 0 /\ dirty = FALSE
    /\ step = [g \in Goroutine |-> 0]
    /\ held = [g \in Goroutine |-> Nothing]
    /\ initial = "over" /\ canceled = TRUE
    /\ shown = [key \in ShownKey |-> Absent]

WatcherInit ==
    /\ StoreInit
    /\ \/ part = "watcher" /\ Init
       \/ part = "store" /\ NoWatcher

WatcherNext ==
    /\ UNCHANGED part
    /\ \/ part = "watcher" /\ Next /\ UNCHANGED storeVars
       \/ part = "store" /\ StoreNext /\ UNCHANGED vars

WatcherSpec ==
    /\ WatcherInit
    /\ [][WatcherNext]_<<part, vars, storeVars>>
    /\ Fairness
    /\ StoreFairness

===============================================================================
