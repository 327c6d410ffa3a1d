-------------------------------- MODULE Cards ---------------------------------
(***************************************************************************)
(* The workload half of a cluster's card, read off its collector's store   *)
(* (view and readWorkload in internal/fleet/fleet.go), and what a row of   *)
(* the terminal's list and the built-in detail page make of it             *)
(* (internal/ui/fleet.go).  How the store came to hold what it holds is    *)
(* module ClusterCard.                                                     *)
(***************************************************************************)
EXTENDS Pages

CONSTANTS
    CardNode,       \* nodes: [name, role, ready, cordoned]; role NoText is unlabelled
    ExpectedCordon  \* the roles whose cordon is no news

ASSUME CardsAssumption ==
    /\ IsFiniteSet(CardNode)
    /\ \A n \in CardNode : n.ready \in BOOLEAN /\ n.cordoned \in BOOLEAN

VARIABLES
    faults,     \* what the collector could not do: "discovery", "watch", "server", "clouds"
    strip,      \* the worst status of the health cells
    list,       \* the nodes key: [is: "none", "failed", "ok", note, items]
    asked,      \* the probe: [done, err]
    aged,       \* whether the collector is older than workloadGrace
    loads       \* the workloads: [kind, name, ready, desired]

cardVars == <<faults, strip, list, asked, aged, loads>>

-------------------------------------------------------------------------------
(* Faulty variant: an empty list is a list like any other. *)
ReasonUnlessEmpty ==
    CASE list.is = "none" /\ asked.done /\ asked.err -> "probe"
      [] list.is = "none" /\ ~(asked.done /\ asked.err) -> IF aged THEN "silence" ELSE "not-yet"
      [] list.is = "failed" -> "error"
      [] OTHER -> NoText

(* Why there are no nodes to count, in the order the reasons are looked for. *)
Reason ==
    CASE list.is = "none" /\ asked.done /\ asked.err -> "probe"
      [] list.is = "none" /\ ~(asked.done /\ asked.err) -> IF aged THEN "silence" ELSE "not-yet"
      [] list.is = "failed" -> "error"
      [] list.is = "ok" /\ list.items = {} -> IF list.note THEN "note" ELSE "empty"
      [] OTHER -> NoText

(* Broken, as opposed to merely quiet. *)
IsBroken == Reason \in {"probe", "silence", "error", "empty"}

RoleOf(n) == IF n.role = NoText THEN "unlabelled" ELSE n.role
CordonIsNews(n) == n.cordoned /\ (~n.ready \/ n.role \notin ExpectedCordon)

(* readWorkload: the reason, or the counts. *)
ReadWorkload ==
    LET nodes == IF Reason = NoText THEN list.items ELSE {}
        Count(r) == [role |-> r, total |-> Cardinality({n \in nodes : RoleOf(n) = r}),
                     ready |-> Cardinality({n \in nodes : RoleOf(n) = r /\ n.ready})]
        Kind(k) == [kind |-> k, total |-> Cardinality({w \in loads : w.kind = k}),
                    ready |-> Cardinality({w \in loads : w.kind = k /\ w.ready >= w.desired})]
    IN [known |-> Reason = NoText,
        total |-> Cardinality(nodes), ready |-> Cardinality({n \in nodes : n.ready}),
        cordoned |-> Cardinality({n \in nodes : CordonIsNews(n)}),
        byRole |-> {Count(r) : r \in {RoleOf(n) : n \in nodes}},
        workloads |-> IF Reason = NoText THEN {Kind(k) : k \in {w.kind : w \in loads}} ELSE {},
        pods |-> IF Reason = NoText THEN Unhealthy(pods, CardPods) ELSE Unhealthy({}, CardPods)]

Problem ==
    CASE "discovery" \in faults -> "discovery"
      [] faults \cap {"discovery", "watch"} = {"watch"} -> "watch"
      [] faults \cap {"discovery", "watch", "server"} = {"server"} -> "server"
      [] OTHER -> NoText

Blanked == [known |-> FALSE, total |-> 0, ready |-> 0, cordoned |-> 0, byRole |-> {},
            workloads |-> {}, pods |-> Unhealthy({}, CardPods)]

(* view: a cluster with a problem of its own is not read any further. *)
View ==
    IF Problem # NoText
    THEN [problem |-> Problem, workloadProblem |-> NoText, clouds |-> FALSE, status |-> "err", counts |-> Blanked]
    ELSE [problem |-> NoText, workloadProblem |-> Reason, clouds |-> "clouds" \in faults,
          status |-> IF IsBroken /\ Rank[strip] < Rank["warn"] THEN "warn" ELSE strip,
          counts |-> ReadWorkload]

(* A row of fleetBody; what is not known is a question mark. *)
Row ==
    [status |-> View.status,
     known |-> View.counts.known, ready |-> View.counts.ready, total |-> View.counts.total,
     problem |-> IF View.problem # NoText THEN View.problem ELSE View.workloadProblem]

(* renderDetail: what the built-in page has lines about. *)
DetailPage ==
    {line \in {"status", "problem", "workload", "clouds", "nodes"} :
        CASE line = "problem" -> View.problem # NoText
          [] line = "workload" -> View.workloadProblem # NoText
          [] line = "clouds" -> View.clouds
          [] line = "nodes" -> View.counts.total > 0
          [] OTHER -> TRUE}

-------------------------------------------------------------------------------
(* The store is read, not stepped, as in Pages. *)
CardsDiffer ==
    /\ AtRest /\ NoPods /\ NoBatch
    /\ stores = [c \in Cluster |-> Bare] /\ troubled = {}
    /\ faults \in {{}, {"clouds"}, {"server"}, {"watch", "server"}, {"discovery", "clouds"}}
    /\ strip \in DOMAIN Rank
    /\ list \in {l \in [is : {"none", "failed", "ok"}, note : BOOLEAN, items : SUBSET CardNode] :
                    l.is # "ok" => l.items = {} /\ ~l.note}
    /\ asked \in {a \in [done : BOOLEAN, err : BOOLEAN] : a.err => a.done}
    /\ aged \in BOOLEAN
    /\ loads \in {{}, {[kind |-> "Deployment", name |-> 1, ready |-> 1, desired |-> 2],
                       [kind |-> "Deployment", name |-> 2, ready |-> 0, desired |-> 0]}}

(* No card is read. *)
NoCards ==
    /\ faults = {} /\ strip = "loading" /\ aged = FALSE /\ loads = {}
    /\ list = [is |-> "none", note |-> FALSE, items |-> {}] /\ asked = [done |-> FALSE, err |-> FALSE]

CardsInit ==
    \/ CardsDiffer
    \/ PagesInit /\ NoCards
CardsNext == UNCHANGED <<pageVars, cardVars>>
CardsSpec == CardsInit /\ [][CardsNext]_<<pageVars, cardVars>>

-------------------------------------------------------------------------------
(* A row without node counts always says why, and one with them counts at    *)
(* least one node, so that 0/0 is never what a healthy cluster looks like;   *)
(* what darkens it beyond the cells it was given has words beside it; the    *)
(* counts by role add up to those of the row; and the detail page has a line *)
(* for whatever the row says (view, readWorkload, fleetBody, renderDetail).  *)
RowTellsTheCard ==
    /\ ~Row.known <=> Row.problem # NoText
    /\ Row.known => Row.total > 0
    /\ View.status # strip => Row.problem \notin {NoText, "note", "not-yet"}
    /\ LET roles == SetToSeq(View.counts.byRole)
       IN /\ AddUp([i \in DOMAIN roles |-> roles[i].total]) = View.counts.total
          /\ AddUp([i \in DOMAIN roles |-> roles[i].ready]) = View.counts.ready
    /\ View.counts.cordoned <= View.counts.total
    /\ Row.problem # NoText => {"problem", "workload"} \cap DetailPage # {}

(* What is said of a cluster in short is what is said of it at length. *)
CardsTellThePages == CardTellsThePage /\ RowTellsTheCard

===============================================================================
