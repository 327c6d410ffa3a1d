------------------------------- MODULE Overview -------------------------------
(***************************************************************************)
(* The overview pane, the row of summary blocks above the grid             *)
(* (internal/core/panes/overview.go).                                      *)
(*                                                                         *)
(* A block is the sequence of its lines, a title among them; the pane      *)
(* composes itself anew from the store and from what the plugins           *)
(* contribute on every drawing, and asks the layout for as many rows as    *)
(* that takes.                                                             *)
(***************************************************************************)
EXTENDS Integers, Sequences, FiniteSets, SequencesExt, FiniteSetsExt, Functions

CONSTANTS
    MayHold,            \* key -> the sequences of items it may hold
    Contributions,      \* what plugins may contribute: sequences of line counts
    OverviewWidths,             \* the widths of the pane
    BlockColumnWidth,   \* blockColumnWidth
    FixedPaneVPad,      \* table.FixedPaneVPad
    CordonExpected,     \* roles whose nodes are cordoned by design
    LabelWidth          \* the widest pool's name

Keys == {"clusters", "kcps", "mds", "nodes", "workloads"}

ASSUME OverviewAssumption ==
    /\ BlockColumnWidth \in Nat \ {0} /\ FixedPaneVPad \in Nat
    /\ OverviewWidths \subseteq Nat /\ Contributions \subseteq Seq(Nat)
    /\ \A k \in Keys : \A items \in MayHold[k] : items \in Seq(ToSet(items))

VARIABLES
    summary,    \* key -> [is: "absent", "error" or "items", items]
    mode,       \* the rollout verdict: "steady", "detected" or "asserted"
    summaries,  \* the line counts of the plugins' blocks
    width

overviewVars == <<summary, mode, summaries, width>>

NoPhase == "no-phase"
NoItems == [is |-> "absent", items |-> <<>>]

OverviewInit ==
    /\ summary = [k \in Keys |-> NoItems]
    /\ mode = "steady"
    /\ summaries = <<>>
    /\ width \in OverviewWidths

Read(key) == summary[key].items
Readable(key) == summary[key].is = "items"
InRollout == mode # "steady"

Section(title, lines) == <<title>> \o lines

-------------------------------------------------------------------------------
(* The blocks. *)

(* clusterBlock: without Cluster API only a rollout is worth a line. *)
ClusterBlock ==
    CASE ~Readable("clusters") -> IF InRollout THEN <<"rolling">> ELSE <<>>
      [] Readable("clusters") /\ Read("clusters") = <<>> -> <<"none">>
      [] OTHER ->
           Section("Clusters",
             [i \in DOMAIN Read("clusters") |-> LET c == Read("clusters")[i]
                                                IN <<c.name, c.paused, ~c.available /\ c.phase # NoPhase>>]
             \o (CASE mode = "asserted" -> <<"target">>
                   [] mode = "detected" -> <<"updating">>
                   [] OTHER -> <<>>))

(* poolBlock: what is up to date while it rolls, with a bar when there is    *)
(* room for one, and what is ready at rest; control planes come first.       *)
PoolBlock ==
    LET pools == Read("kcps") \o Read("mds")
        bar == InRollout /\ width >= LabelWidth + 34
        Line(p) == [count |-> IF InRollout THEN <<p.upToDate, p.desired>> ELSE <<p.ready, p.desired>>,
                    bar |-> IF bar THEN Min({18, width - LabelWidth - 26}) ELSE 0,
                    paused |-> p.paused]
    IN IF pools = <<>> THEN <<>>
       ELSE Section(IF InRollout THEN "Progress" ELSE "Pools",
                    [i \in DOMAIN pools |-> Line(pools[i])])

(* nodeBlock: a line for each role, and one for the pressures there are. *)
NodeBlock ==
    LET nodes == Read("nodes")
        News(n) == n.cordoned /\ (n.role \notin CordonExpected \/ ~n.ready)
        Of(r) == {i \in DOMAIN nodes : nodes[i].role = r}
        Line(r) == [role |-> r,
                    total |-> Cardinality(Of(r)),
                    ready |-> Cardinality({i \in Of(r) : nodes[i].ready}),
                    cordoned |-> Cardinality({i \in Of(r) : News(nodes[i])})]
        roles == SetToSeq({n.role : n \in ToSet(nodes)})
        pressure == {p \in {"memory", "disk", "pid", "network"} : \E n \in ToSet(nodes) : p \in n.pressure}
    IN IF nodes = <<>> THEN <<>>
       ELSE Section("Nodes", [i \in DOMAIN roles |-> Line(roles[i])]
                             \o IF pressure = {} THEN <<>> ELSE <<pressure>>)

(* workloadBlock: a line for each kind. *)
WorkloadBlock ==
    LET loads == Read("workloads")
        kinds == SetToSeq({w.kind : w \in ToSet(loads)})
        Of(k) == {i \in DOMAIN loads : loads[i].kind = k}
        Line(k) == [kind |-> k,
                    total |-> Cardinality(Of(k)),
                    ready |-> Cardinality({i \in Of(k) : loads[i].ready >= loads[i].desired})]
    IN IF loads = <<>> THEN <<>> ELSE Section("Workloads", [i \in DOMAIN kinds |-> Line(kinds[i])])

-------------------------------------------------------------------------------
(* The pane. *)

BlockColumns == Max({width \div BlockColumnWidth, 1})
Tallest(blocks) == Max({Len(b) : b \in ToSet(blocks)} \cup {0})

(* Faulty variant: the title is not counted as a line. *)
TrimmedBelowTitle(n, tallest) == IF tallest >= 0 /\ n > tallest THEN tallest ELSE n

(* A contributed block keeps as many lines as the tallest core block leaves  *)
(* beside its title.                                                         *)
Trimmed(n, tallest) == IF tallest - 1 >= 0 /\ n > tallest - 1 THEN tallest - 1 ELSE n

(* contributed: a block is taken while a column is left for it. *)
Contributed(core) ==
    LET room == BlockColumns - Len(core)
    IN [i \in 1 .. Max({0, Min({room, Len(summaries)})}) |->
          Section("contributed", [l \in 1 .. Trimmed(summaries[i], Tallest(core)) |-> "line"])]

Shown(block) == IF block = <<>> THEN <<>> ELSE <<block>>
Core == Shown(ClusterBlock) \o Shown(PoolBlock) \o Shown(NodeBlock) \o Shown(WorkloadBlock)

(* arrangeBlocks: dealt out to as many columns as there is room for, one     *)
(* below the other with a blank line between; the height is the tallest's.   *)
ColumnHeight(blocks, cols, c) ==
    LET upTo[n \in 0 .. Len(blocks)] ==
          IF n = 0 THEN 0
          ELSE IF n % cols # c THEN upTo[n - 1]
          ELSE upTo[n - 1] + (IF upTo[n - 1] = 0 THEN 0 ELSE 1) + Len(blocks[n])
    IN upTo[Len(blocks)]
ArrangedHeight(blocks) ==
    LET cols == Min({BlockColumns, Len(blocks)})
    IN Max({ColumnHeight(blocks, cols, c) : c \in 0 .. cols - 1})

BodyHeight(blocks) == IF blocks = <<>> THEN 3 ELSE ArrangedHeight(blocks)

(* FixedHeight: what the layout gives the row. *)
FixedHeight == BodyHeight(Core \o Contributed(Core)) + FixedPaneVPad

-------------------------------------------------------------------------------
(* What changes it. *)

PutSummary(key) ==
    /\ summary' = [summary EXCEPT ![key] = [is |-> "items", items |-> <<>>]]
       \/ \E items \in MayHold[key] : summary' = [summary EXCEPT ![key] = [is |-> "items", items |-> items]]
       \/ summary' = [summary EXCEPT ![key] = [is |-> "error", items |-> <<>>]]
    /\ UNCHANGED <<mode, summaries, width>>

RolloutMoves ==
    /\ mode' \in {"steady", "detected", "asserted"}
    /\ UNCHANGED <<summary, summaries, width>>

Contribute ==
    /\ summaries' \in Contributions
    /\ UNCHANGED <<summary, mode, width>>

ResizeOverview ==
    /\ width' \in OverviewWidths
    /\ UNCHANGED <<summary, mode, summaries>>

OverviewNext ==
    \/ \E k \in Keys : PutSummary(k)
    \/ RolloutMoves \/ Contribute \/ ResizeOverview

OverviewSpec == OverviewInit /\ [][OverviewNext]_overviewVars

-------------------------------------------------------------------------------
(* Properties. *)

(* What the lines below a block's title count, the first m of them. *)
CountedBy(block, m) ==
    LET q == [i \in 1 .. m |-> block[i + 1].total]
        upTo[n \in 0 .. Len(q)] == IF n = 0 THEN 0 ELSE upTo[n - 1] + q[n]
    IN upTo[Len(q)]

(* Nothing a plugin has to say moves the grid: with a block of the core's    *)
(* own on the row, it is as tall as it would be without the plugins' blocks; *)
(* and every node and workload is counted on one line of its block           *)
(* (OverviewPane.contributed, arrangeBlocks).                                *)
PluginsNeverMoveTheGrid ==
    /\ Core # <<>> => BodyHeight(Core \o Contributed(Core)) = BodyHeight(Core)
    /\ NodeBlock # <<>> =>
         CountedBy(NodeBlock, Cardinality({n.role : n \in ToSet(Read("nodes"))})) = Len(Read("nodes"))
    /\ WorkloadBlock # <<>> => CountedBy(WorkloadBlock, Len(WorkloadBlock) - 1) = Len(Read("workloads"))

===============================================================================
