-------------------------------- MODULE MCScreen --------------------------------
(***************************************************************************)
(* Instances of Dashboard, Sections, Cards (with Pages), Overview, PodRows *)
(* and FleetList for TLC: where the panes of a screen go, what is drawn in *)
(* one, what the fleet's cards and pages say, the row of summaries, what a *)
(* pod's row says, and the terminal's list of clusters.  A behaviour is of *)
(* one of the six.                                                         *)
(***************************************************************************)
EXTENDS Dashboard, Sections, Cards, Overview, PodRows, FleetList

(* The panes of the program, with one plugin frame, and panes of every other *)
(* kind the grid knows.                                                      *)
PaneOf(id, priority, minW, weight, span, spanFloor, tall, fixedH, fixedW, under) ==
    [id |-> id, priority |-> priority, minW |-> minW, minH |-> 8, weight |-> weight, span |-> span,
     spanFloor |-> spanFloor, rows |-> tall, fixedH |-> fixedH, fixedW |-> fixedW, under |-> under, ratio |-> 20]

Program == <<
    PaneOf("overview", 0, 44, 1, 1, 0, 1, 9, 0, ""),
    PaneOf("machines", 0, 52, 4, 1, 0, 2, 0, 0, ""),
    PaneOf("nodes",    0, 46, 4, 1, 0, 2, 0, 0, ""),
    PaneOf("pods",     0, 46, 7, 2, 0, 1, 0, 0, ""),
    PaneOf("events",   1, 46, 7, 2, 0, 1, 0, 0, ""),
    PaneOf("platform", 2, 40, 6, 2, 4, 1, 0, 0, "") >>

Others == <<
    PaneOf("left",   0, 30, 1, 1, 0, 1, 5, 60, ""),
    PaneOf("wide",   2, 46, 3, 3, 0, 1, 0, 0, ""),
    PaneOf("right",  0, 30, 1, 1, 0, 1, 7, 60, ""),
    PaneOf("pods",   1, 46, 7, 2, 0, 2, 0, 0, ""),
    PaneOf("note",   1, 20, 1, 1, 0, 1, 0, 0, "pods"),
    PaneOf("gone",   1, 20, 1, 1, 0, 1, 0, 0, "nobody"),
    PaneOf("aside",  1, 20, 1, 1, 0, 1, 0, 0, "pods"),
    PaneOf("nodes",  2, 46, 4, 1, 0, 1, 0, 0, "") >>

MCCatalogs == {Program, Others}

MCSizes == {[w |-> 100, h |-> 24], [w |-> 190, h |-> 50], [w |-> 280, h |-> 50]}

MCContents(id) ==
    CASE id = "pods" -> {[w |-> 60, h |-> 12], [w |-> 62, h |-> 15], [w |-> 150, h |-> 12]}
      [] id = "nodes" -> {[w |-> 100, h |-> 6]}
      [] OTHER -> {}

(* Tables with and without a column that stretches, and one too wide. *)
ColumnOf(header, cell, stretch) == [header |-> header, cell |-> cell, stretch |-> stretch]
MCColumns ==
    {<<ColumnOf(4, 9, FALSE), ColumnOf(3, 6, TRUE)>>,
     <<ColumnOf(4, 2, FALSE), ColumnOf(7, 30, TRUE), ColumnOf(5, 5, FALSE)>>,
     <<ColumnOf(12, 20, FALSE), ColumnOf(9, 0, TRUE)>>}

(* The pages: two clusters of one namespace, one's name a prefix of the      *)
(* other's names, which hosts are claimed by either, or by neither.          *)
CA == [ns |-> "site", name |-> <<"a">>, at |-> 1]
CB == [ns |-> "site", name |-> <<"b", "cluster">>, at |-> 2]
MCCluster == {CA, CB}
MCMachine ==
    {[cluster |-> CA, name |-> <<"a", "cp", "1">>, infra |-> <<"m3", "1">>],
     [cluster |-> CA, name |-> <<"a", "md", "2">>, infra |-> <<"m3", "2">>],
     [cluster |-> CB, name |-> <<"b", "kcp", "1">>, infra |-> <<"m3", "3">>]}
HostOf(name, consumer, role, fsid) ==
    [ns |-> "site", name |-> <<name>>, consumer |-> consumer, role |-> role, fsid |-> fsid]
MCHost ==
    {HostOf("host1", <<"m3", "1">>, "controller", "a"), HostOf("host2", <<"m3", "3">>, "compute", "b"),
     HostOf("ceph1", <<>>, "cephmon", "fsid-1"), HostOf("ceph2", <<>>, "cephosd", "fsid-1")}
MCEvent ==
    {[ns |-> "site", object |-> o] : o \in {<<"a">>, <<"a", "cp">>, <<"m3", "2">>, <<"host2">>,
                                            <<"b", "kcp", "1", "xyz">>, <<"policy">>, <<"b", "cluster", "lb">>}}

(* The overview: lists of two, the second of which differs in every respect. *)
ClusterOf(name, how, available) == [name |-> name, phase |-> how, paused |-> ~available, available |-> available]
PoolOf(upToDate, ready) == [desired |-> 3, upToDate |-> upToDate, ready |-> ready, paused |-> FALSE]
NodeOf(role, ready, cordoned, pressure) ==
    [role |-> role, ready |-> ready, cordoned |-> cordoned, pressure |-> pressure]
MCMayHold ==
    [clusters |-> {<<ClusterOf("a", "Provisioned", TRUE), ClusterOf("b", "Failed", FALSE)>>},
     kcps |-> {<<PoolOf(3, 3)>>},
     mds |-> {<<PoolOf(1, 2), PoolOf(0, 0)>>},
     nodes |-> {<<NodeOf("worker", TRUE, FALSE, {})>>,
                <<NodeOf("worker", TRUE, TRUE, {}), NodeOf("gateway", TRUE, TRUE, {"disk"}),
                  NodeOf("gateway", FALSE, TRUE, {"memory"}), NodeOf("worker", FALSE, FALSE, {})>>},
     workloads |-> {<<[kind |-> "Deployment", ready |-> 1, desired |-> 2],
                      [kind |-> "DaemonSet", ready |-> 0, desired |-> 0]>>}]
MCContributions == {<<>>, <<6, 2>>, <<3, 4, 5>>}
MCOverviewWidths == {44, 160, 270}

(* A cluster of one node of each sort, one without a label. *)
CardNodeOf(name, role, ready, cordoned) == [name |-> name, role |-> role, ready |-> ready, cordoned |-> cordoned]
MCCardNode ==
    {CardNodeOf("n1", "worker", TRUE, TRUE), CardNodeOf("n2", "gateway", TRUE, TRUE),
     CardNodeOf("n3", "gateway", FALSE, TRUE), CardNodeOf("n4", NoText, TRUE, FALSE)}

(* A pod that is set up first, has a proxy beside it and two containers.     *)
MCInitContainers == <<"setup", "proxy">>
MCRegular == <<"main", "helper">>
MCRequests == [c \in {"setup", "proxy", "main", "helper"} |-> IF c = "setup" THEN 3 ELSE 1]

(* The list: names that contain one another. *)
MCNamed ==
    {[at |-> 1, name |-> <<"a">>], [at |-> 2, name |-> <<"a", "b">>], [at |-> 3, name |-> <<"b">>]}

VARIABLE part

NoOverview == summary = [k \in Keys |-> NoItems] /\ mode = "steady" /\ summaries = <<>> /\ width = 44

NoScreen ==
    /\ panes = Sorted(Program)
    /\ size = [w |-> 0, h |-> 0]
    /\ content = [id \in Ids |-> [w |-> 0, h |-> 0]]
    /\ focused = Head(panes).id /\ zoomed = FALSE /\ override = 0 /\ presses = 0
    /\ peak = [id \in Ids |-> [want |-> 0, age |-> PeakHold]]
    /\ settled = None /\ fresh = Blank /\ shown = Blank

NoPane == pane = [cols |-> <<>>, rows |-> 0, weights |-> <<>>, w |-> 0, h |-> 1]

(* No cluster can be read, and nothing is there to be shown. *)
NoPages ==
    /\ AtRest /\ NoPods /\ NoBatch
    /\ stores = [c \in Cluster |-> Bare] /\ troubled = Cluster

ScreenInit ==
    /\ part \in {"dashboard", "pane", "pages", "cards", "overview", "pod", "list"}
    /\ IF part = "pod" THEN PodInit ELSE PodInit /\ restartPolicy = CHOOSE p \in RestartPolicies : TRUE
    /\ ListInit
    /\ \/ part = "dashboard" /\ Init /\ NoPane /\ NoPages /\ NoCards /\ NoOverview
       \/ part = "pane" /\ PaneInit /\ NoScreen /\ NoPages /\ NoCards /\ NoOverview
       \/ part = "pages" /\ PagesInit /\ NoScreen /\ NoPane /\ NoCards /\ NoOverview
       \/ part = "cards" /\ CardsDiffer /\ NoScreen /\ NoPane /\ NoOverview
       \/ part = "overview" /\ OverviewInit /\ NoScreen /\ NoPane /\ NoPages /\ NoCards
       \/ part \in {"pod", "list"} /\ NoScreen /\ NoPane /\ NoPages /\ NoCards /\ NoOverview

ScreenNext ==
    /\ UNCHANGED part
    /\ UNCHANGED cardVars
    /\ \/ part = "dashboard" /\ Next /\ UNCHANGED <<pane, pageVars, overviewVars, podVars, listVars>>
       \/ part = "pane" /\ PaneNext /\ UNCHANGED <<vars, pageVars, overviewVars, podVars, listVars>>
       \/ part = "pages" /\ PagesNext /\ UNCHANGED <<vars, pane, overviewVars, podVars, listVars>>
       \/ part = "overview" /\ OverviewNext /\ UNCHANGED <<vars, pane, pageVars, podVars, listVars>>
       \/ part = "pod" /\ PodNext /\ UNCHANGED <<vars, pane, pageVars, overviewVars, listVars>>
       \/ part = "list" /\ ListNext /\ UNCHANGED <<vars, pane, pageVars, overviewVars, podVars>>

ScreenSpec == ScreenInit /\ [][ScreenNext]_<<part, vars, pane, pageVars, cardVars, overviewVars, podVars, listVars>>

===============================================================================
