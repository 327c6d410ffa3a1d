------------------------------ MODULE MCPlugins ------------------------------
(***************************************************************************)
(* Instances of ExecPlugin, OpenStackPoll, Payloads, Launch and Profiles   *)
(* for TLC: sextant against a kubeconfig, from its command line to its     *)
(* polls and what is made of their answers.                                *)
(* Each plugin polls in a goroutine of its own and they share nothing but  *)
(* the store, under different keys, so a behaviour is of one of them; the  *)
(* others were not detected, and nothing changes for them.  The start of   *)
(* the program and the loading of a profile come before any of it and      *)
(* touch no state of theirs.                                               *)
(***************************************************************************)
EXTENDS ExecPlugin, OpenStackPoll, Payloads, Launch, Profiles

CONSTANTS p1, p2, p3, h1, h2, s1

MCPod == <<p1, p2, p3>>
MCMembers == [d \in Databases |-> IF d = "nb" THEN {p1, p2} ELSE {p3}]
MCHost == <<h1, h2>>
MCServer == {s1}

(* Three contexts; two name one each, a typing error, two layers that differ. *)
MCSettings ==
    {Blank,
     [Blank EXCEPT !.management = 1],
     [Blank EXCEPT !.management = 2, !.workload = 1],
     [Blank EXCEPT !.workload = Missing, !.theme = "wrong"],
     [Blank EXCEPT !.server = "url"]}
MCKubeconfig ==
    {[known |-> {}, current |-> Missing],
     [known |-> {1, 2, 3}, current |-> 2],
     [known |-> {2, 3}, current |-> 1]}
NoSelector == Selector(NoContext, NoPattern)
MCSite ==
    {[management |-> NoSelector, workload |-> NoSelector],
     [management |-> Selector(NoContext, {1, 2}), workload |-> Selector(NoContext, {2, 3})],
     [management |-> Selector(2, NoPattern), workload |-> Selector(1, {3})]}
MCPlugin == <<"ceph", "ovn">>
MCPluginKeys == <<"ovn", "ceph">>
MCCoreKeys == <<"nodes">>

(* Each section left out, misshapen, and as it may be read. *)
OrNot(readings) == {LeftOut, Misshapen} \cup {Reading(v) : v \in readings}
OSDsOf(total, up, in) == [total |-> total, up |-> up, in |-> in]
MCCephDocuments ==
    [health |-> OrNot({"HEALTH_OK", "HEALTH_WARN", "HEALTH_ERR"}),
     monmap |-> OrNot({3}), quorum_names |-> OrNot({2, 3}), mgrmap |-> OrNot({TRUE}),
     osdmap |-> OrNot({OSDsOf(2, 2, 2), OSDsOf(2, 2, 1), OSDsOf(2, 1, 2), OSDsOf(0, 0, 0)}),
     pgmap |-> OrNot({<<1>>})]
TextOf(said, used, total) == [said |-> said, used |-> used, total |-> total]
FamilyOf(shape, pool, pools, count) == [shape |-> shape, pool |-> pool, pools |-> pools, count |-> count]
NoFamily == FamilyOf("none", NoAddresses, <<>>, 0)
MCIpam ==
    {[text |-> t, flat |-> f, family |-> a, allocations |-> n] :
        t \in {TextOf(FALSE, 0, 0), TextOf(TRUE, 3, 254), TextOf(TRUE, 9, 2)},
        f \in {NoAddresses},
        a \in {NoFamily, FamilyOf("object", Pool(1, 0), <<>>, 0),
               FamilyOf("object", NoAddresses, <<Pool(0, 4), Pool(1, 0)>>, 0),
               FamilyOf("pools", NoAddresses, <<Pool(2, 0)>>, 0), FamilyOf("addresses", NoAddresses, <<>>, 3)},
        n \in {0, 2}}
    \cup {[text |-> TextOf(TRUE, 9, 2), flat |-> Pool(2, 5), family |-> NoFamily, allocations |-> 0]}
MCCiliumDocuments ==
    ("cilium" :> OrNot({"Ok"})) @@
    [x \in {"kube-proxy-replacement", "encryption"} |-> {LeftOut, Reading("Disabled")}] @@
    ("ipam" :> OrNot(MCIpam)) @@
    ("hubble" :> OrNot({[state |-> "Ok", flows |-> 7], [state |-> "Disabled", flows |-> 0]})) @@
    ("controllers" :> OrNot({<<0, 2>>})) @@
    ("cluster-mesh" :> OrNot({<<TRUE>>}))

(* A file that names nothing, one of each field, one that extends its         *)
(* namesake, and one no profile may be.                                       *)
Bare == [Default EXCEPT !.name = "", !.namespaces = {}, !.row = <<>>, !.grid = <<>>]
Block(k, v) == [x \in {"ceph"} |-> [y \in {k} |-> v]]
MCDocument ==
    {[Bare EXCEPT !.extends = "a", !.context = "site", !.plugins = Block("namespace", "own")],
     [Bare EXCEPT !.extends = "b", !.all = TRUE, !.display = [k \in {"worker"} |-> "W"],
                  !.plugins = [x \in {"ceph"} |-> [y \in {"namespace", "pod"} |-> "base"]]],
     [Bare EXCEPT !.context = "base", !.namespaces = {"infra"}, !.grid = <<"nodes">>,
                  !.display = [k \in {"worker", "gateway"} |-> "base"], !.plugins = Block("pod", "root")],
     [Bare EXCEPT !.grid = <<"nodes", "nodes">>, !.stack = [k \in {"ceph"} |-> "osd"]]}
MCPlace == <<"user", "builtin">>
MCName == {"a", "b"}

VARIABLE part

NoExec ==
    /\ kind = "ceph"
    /\ status = [p \in Pods |-> "out"]
    /\ program = [p \in Pods |-> "broken"]
    /\ api = FALSE /\ permitted = FALSE
    /\ leader = [d \in Databases |-> Nobody]
    /\ changes = MaxChange
    /\ phase = "inactive"
    /\ tier = "absent"
    /\ query = NoQuery
    /\ rows = <<>>
    /\ published = NotPublished

NoCloud ==
    /\ failing = Service
    /\ host = [h \in Hosts |-> [up |-> FALSE, enabled |-> FALSE]]
    /\ server = [s \in Server |-> [on |-> h1, error |-> FALSE]]
    /\ migrations = {}
    /\ turns = MaxTurn
    /\ at = "off"
    /\ provider = FALSE
    /\ draft = NoDraft
    /\ polls = 0
    /\ state = Unpublished /\ moves = Unpublished /\ inventory = Unpublished

NoProfiles ==
    /\ files = [x \in Where \X Name |-> [is |-> "absent"]]
    /\ asked = "" /\ chain = <<>> /\ layers = <<>>
    /\ loading = "idle" /\ loaded = NoProfile /\ failure = ""

NoPayloads ==
    /\ kindOf = "ceph" /\ garbage = TRUE
    /\ document = [name \in DOMAIN CephDocuments |-> LeftOut]

(* The only member of the second database is ready at first; it may stop. *)
PluginsInit ==
    \/ part = "exec" /\ Init /\ status[p3] = "ready" /\ NoCloud /\ LaunchInit /\ NoProfiles /\ NoPayloads
    \/ part = "cloud" /\ CloudInit /\ NoExec /\ LaunchInit /\ NoProfiles /\ NoPayloads
    \/ part = "launch" /\ LaunchInit /\ NoExec /\ NoCloud /\ NoProfiles /\ NoPayloads
    \/ part = "profile" /\ ProfilesInit /\ NoExec /\ NoCloud /\ LaunchInit /\ NoPayloads
    \/ part = "payload" /\ PayloadsInit /\ NoExec /\ NoCloud /\ LaunchInit /\ NoProfiles

PluginsNext ==
    /\ UNCHANGED part
    /\ \/ part = "exec" /\ Next /\ UNCHANGED <<cloudVars, launchVars, profileVars, payloadVars>>
       \/ part = "cloud" /\ CloudNext /\ UNCHANGED <<vars, launchVars, profileVars, payloadVars>>
       \/ part = "launch" /\ LaunchNext /\ UNCHANGED <<vars, cloudVars, profileVars, payloadVars>>
       \/ part = "profile" /\ ProfilesNext /\ UNCHANGED <<vars, cloudVars, launchVars, payloadVars>>
       \/ part = "payload" /\ PayloadsNext /\ UNCHANGED <<vars, cloudVars, launchVars, profileVars>>

PluginsSpec ==
    /\ PluginsInit /\ [][PluginsNext]_<<part, vars, cloudVars, launchVars, profileVars, payloadVars>>
    /\ Fairness /\ CloudFairness

===============================================================================
