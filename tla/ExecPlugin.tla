------------------------------ MODULE ExecPlugin ------------------------------
(***************************************************************************)
(* A plugin that asks a program inside a pod: Ceph, Cilium or OVN          *)
(* (internal/plugin/ceph, cilium and ovn over internal/plugin/kube).  It   *)
(* is detected once, then polled on a ticker in a goroutine of its own: a  *)
(* poll asks the candidate pods of one query (of two for OVN, one per      *)
(* database), and publishes what it heard under the plugin's key.          *)
(*                                                                         *)
(* What a pod prints is abstracted to what the banner's cell tells apart.  *)
(* The pods, their programs, the permission to exec, the API server and    *)
(* the leader of a database change between any two calls of a poll.        *)
(***************************************************************************)
EXTENDS Naturals, Sequences, SequencesExt

CONSTANTS
    Pod,          \* the pods, in the order the API lists them: a sequence
    Members,      \* OVN: the pods of each database, [Databases -> sets of pods]
    MaxAttempts,  \* maxExecAttempts: pods asked by one ExecFirstOf (3 in the code)
    MaxChange,    \* bound: changes of the world
    Nobody        \* no pod

Pods == Range(Pod)
Databases == {"nb", "sb"}

ASSUME ExecPluginAssumption ==
    /\ Members \in [Databases -> SUBSET Pods]
    /\ Members["nb"] \cap Members["sb"] = {}
    /\ {MaxAttempts, MaxChange} \subseteq Nat
    /\ MaxAttempts > 0
    /\ Nobody \notin Pods

VARIABLES
    kind,       \* which plugin this is: "ceph", "cilium" or "ovn"
    status,     \* per pod "ready", "running" (and not ready) or "out" (or terminating)
    program,    \* per pod, whether its program "answers", fails ("broken") or "hangs"
    api,        \* whether the API server lists objects
    permitted,  \* whether pods/exec is allowed
    leader,     \* OVN: the leader of each database, or Nobody
    changes,    \* how often the world has changed
    phase,      \* "detect", "inactive", "idle", between two queries ("next"), or
                \* waiting for an exec: "ask", "mgr" or "leader"
    tier,       \* Plugin.tier: "absent", "informer" or "full"
    query,      \* the query under way: candidates not yet asked, the pod asked,
                \* how many were asked, what a follower has answered
    rows,       \* the answers of the poll's finished queries
    published   \* what the store holds under KeyState

world == <<status, program, api, permitted, leader, changes>>
vars == <<kind, world, phase, tier, query, rows, published>>

Queries == IF kind = "ovn" THEN <<"nb", "sb">> ELSE <<"main">>
Asks(q) == IF q \in Databases THEN Members[q] ELSE Pods

(* An answer to a query: the pod it is from, the error, what it says of     *)
(* health, whether it says it leads, whether it knows a leader, whether it  *)
(* reports a member that has gone quiet; gone is history: whether a member  *)
(* was gone then.                                                           *)
Row == [err : {"none", "failed", "denied", "unreadable"}, health : {"", "ok", "warn", "err"},
        leads : BOOLEAN, led : BOOLEAN, quiet : BOOLEAN, gone : BOOLEAN]

Failure(err) == [err |-> err, health |-> "", leads |-> FALSE, led |-> FALSE,
                 quiet |-> FALSE, gone |-> FALSE]

NoQuery == [left |-> <<>>, pod |-> Nobody, tried |-> 0, heard |-> Failure("none")]

(* A publish: the tier, State.Err, the rows, and whether Cilium's agents are *)
(* all ready.                                                                *)
NotPublished == [tier |-> "absent", err |-> FALSE, rows |-> <<>>, ready |-> FALSE]

TypeOK ==
    /\ kind \in {"ceph", "cilium", "ovn"}
    /\ status \in [Pods -> {"ready", "running", "out"}]
    /\ program \in [Pods -> {"answers", "broken", "hangs"}]
    /\ api \in BOOLEAN /\ permitted \in BOOLEAN
    /\ leader \in [Databases -> Pods \cup {Nobody}]
    /\ changes \in 0..MaxChange
    /\ phase \in {"detect", "inactive", "idle", "next", "ask", "mgr", "leader"}
    /\ tier \in {"absent", "informer", "full"}
    /\ query.left \in Seq(Pods) /\ query.tried \in 0..Len(Pod)
    /\ query.pod \in Pods \cup {Nobody} /\ query.heard \in Row
    /\ rows \in Seq(Row) /\ Len(rows) <= 2
    /\ published.tier \in {"absent", "informer", "full"}

Init ==
    /\ kind \in {"ceph", "cilium", "ovn"}
    /\ status \in [Pods -> {"ready", "out"}]
    /\ program = [p \in Pods |-> "answers"]
    /\ api = TRUE /\ permitted = TRUE
    /\ leader \in [Databases -> Pods \cup {Nobody}]
    /\ \A d \in Databases : leader[d] \in Members[d] \cup {Nobody}
    /\ kind # "ovn" => \A d \in Databases : leader[d] = Nobody
    /\ changes = 0
    /\ phase = "detect"
    /\ tier = "absent"
    /\ query = NoQuery
    /\ rows = <<>>
    /\ published = NotPublished

-------------------------------------------------------------------------------
(* The world.                                                              *)

PodChanges(p) ==
    /\ \/ \E s \in {"ready", "running", "out"} \ {status[p]} :
            status' = [status EXCEPT ![p] = s] /\ UNCHANGED program
       \/ \E c \in {"answers", "broken", "hangs"} \ {program[p]} :
            program' = [program EXCEPT ![p] = c] /\ UNCHANGED status
    /\ UNCHANGED <<api, permitted, leader>>

ClusterChanges ==
    \/ api' = ~api /\ UNCHANGED <<status, program, permitted, leader>>
    \/ permitted' = ~permitted /\ UNCHANGED <<status, program, api, leader>>
    \/ /\ kind = "ovn"
       /\ \E d \in Databases : \E p \in (Members[d] \cup {Nobody}) \ {leader[d]} :
            leader' = [leader EXCEPT ![d] = p]
       /\ UNCHANGED <<status, program, api, permitted>>

WorldChanges ==
    /\ changes < MaxChange
    /\ changes' = changes + 1
    /\ ClusterChanges \/ \E p \in Pods : PodChanges(p)
    /\ UNCHANGED <<kind, phase, tier, query, rows, published>>

-------------------------------------------------------------------------------
(* The calls to Kubernetes.                                                *)

(* PodCandidates: the pods of a query that run, the ready ones first; empty *)
(* when there is none and when the list fails, which are errors.            *)
PodCandidates(q) ==
    LET Running(s) == SelectSeq(Pod, LAMBDA p : p \in Asks(q) /\ status[p] = s)
    IN IF api THEN Running("ready") \o Running("running") ELSE <<>>

(* What an exec into pod p comes to at this moment; "hangs" is no outcome.  *)
Exec(p) ==
    CASE ~permitted -> "denied"
      [] permitted /\ (status[p] = "out" \/ program[p] = "broken") -> "failed"
      [] permitted /\ status[p] # "out" /\ program[p] = "answers" -> "answer"
      [] OTHER -> "hangs"

(* ExecProbe of the first candidate, under a time limit: the tier Detect    *)
(* starts with.  A plugin without a candidate is there, but has no detail.  *)
Probe(found) ==
    /\ phase' = "idle"
    /\ tier' = IF found # <<>> /\ Exec(Head(found)) = "answer" THEN "full" ELSE "informer"

Absent == phase' = "inactive" /\ tier' = "absent"

(* The tools Deployment gives Ceph away; a pinned namespace spares the list. *)
CephDetect ==
    /\ kind = "ceph" /\ phase = "detect"
    /\ \E pinned \in BOOLEAN : IF api \/ pinned THEN Probe(PodCandidates("main")) ELSE Absent
    /\ UNCHANGED <<kind, world, query, rows, published>>

(* Cilium's DaemonSet is asked for by name; an error is taken for absence. *)
CiliumDetect ==
    /\ kind = "cilium" /\ phase = "detect"
    /\ IF api THEN Probe(PodCandidates("main")) ELSE Absent
    /\ UNCHANGED <<kind, world, query, rows, published>>

(* OVN's StatefulSets are looked for in all namespaces unless one is pinned; *)
(* spread over several they are an error, which leaves the plugin inactive.  *)
OvnDetect ==
    /\ kind = "ovn" /\ phase = "detect"
    /\ \/ Probe(PodCandidates("nb") \o PodCandidates("sb")) /\ api
       \/ Probe(<<>>) /\ ~api
       \/ Absent
    /\ UNCHANGED <<kind, world, query, rows, published>>

Detect == CephDetect \/ CiliumDetect \/ OvnDetect

-------------------------------------------------------------------------------
(* A poll.                                                                 *)

Heard(found) == \E i \in DOMAIN found : found[i].err \in {"none", "unreadable"}

(* What Ceph's poll publishes: output that does not parse is State.Err. *)
CephState(found) ==
    [tier |-> IF Heard(found) THEN "full" ELSE "informer",
     err |-> found[1].err = "unreadable", rows |-> found, ready |-> TRUE]

(* What Cilium's poll publishes: output that does not parse costs it the tier. *)
CiliumState(found, ready) ==
    [tier |-> IF Heard(found) /\ found[1].err # "unreadable" THEN "full" ELSE "informer",
     err |-> FALSE, rows |-> found, ready |-> ready]

(* What OVN's poll publishes: one database that answered is detail enough. *)
OvnState(found) ==
    [tier |-> IF Heard(found) THEN "full" ELSE "informer",
     err |-> FALSE, rows |-> found, ready |-> TRUE]

(* The end of a poll: only a full tier is remembered. *)
Publish(new) ==
    /\ published' = new
    /\ tier' = IF Heard(new.rows) THEN "full" ELSE tier
    /\ phase' = "idle"
    /\ rows' = <<>>
    /\ query' = NoQuery

(* A tick of the poll ticker.  Cilium reads its DaemonSet first: when that  *)
(* fails it publishes the remembered tier with the error.                   *)
Tick ==
    /\ phase = "idle"
    /\ IF kind = "cilium" /\ ~api
       THEN /\ published' = [tier |-> tier, err |-> TRUE, rows |-> <<>>, ready |-> FALSE]
            /\ phase' = phase
       ELSE /\ phase' = "next"
            /\ published' = published
    /\ UNCHANGED <<kind, world, tier, query, rows>>

(* The next query of the poll begins with a list of its candidates, or the  *)
(* poll ends: Cilium's readiness is what the DaemonSet said as it began.    *)
NextQuery ==
    /\ phase = "next"
    /\ IF Len(rows) = Len(Queries)
       THEN \/ kind = "ceph" /\ Publish(CephState(rows))
            \/ kind = "cilium" /\ \E ready \in BOOLEAN : Publish(CiliumState(rows, ready))
            \/ kind = "ovn" /\ Publish(OvnState(rows))
       ELSE LET found == PodCandidates(Queries[Len(rows) + 1])
            IN IF found = <<>>
               THEN /\ rows' = Append(rows, Failure("failed"))
                    /\ UNCHANGED <<phase, tier, query, published>>
               ELSE /\ query' = [NoQuery EXCEPT !.pod = Head(found), !.left = Tail(found),
                                                !.tried = 1]
                    /\ phase' = "ask"
                    /\ UNCHANGED <<tier, rows, published>>
    /\ UNCHANGED <<kind, world>>

Done(row) ==
    /\ rows' = Append(rows, row)
    /\ query' = NoQuery
    /\ phase' = "next"

(* What pod p of query q may answer.  A leader knows who leads and which    *)
(* members are gone; a follower hears from its leader alone, so the others  *)
(* look quiet to it, and it may name a leader that no longer is one, or no  *)
(* leader.                                                                  *)
Answers(p, q) ==
    IF q \in Databases
    THEN LET gone == \E m \in Members[q] : status[m] = "out"
             Says(leads, led, quiet) ==
                 [err |-> "none", health |-> "ok", leads |-> leads, led |-> led,
                  quiet |-> quiet, gone |-> gone]
         IN IF leader[q] = p THEN {Says(TRUE, TRUE, gone)}
                             ELSE {Says(FALSE, led, TRUE) : led \in BOOLEAN}
    ELSE {[Failure("none") EXCEPT !.health = h] : h \in {"ok", "warn", "err"}}
         \cup {Failure("unreadable")}

GoesOn ==
    /\ query' = [query EXCEPT !.pod = Head(query.left), !.left = Tail(query.left),
                              !.tried = query.tried + 1]
    /\ UNCHANGED <<phase, rows>>

(* Faulty variant of TimeLimited: no attempt has a time limit. *)
NeverLimited == FALSE

(* execAttemptTimeout: a pod that hangs is given up. *)
TimeLimited == TRUE

(* ExecFirstOf, for Ceph and Cilium: the pods are asked in turn until one    *)
(* answers, up to maxExecAttempts of them, each under a time limit.          *)
(* Permission is not per pod, so a denial ends the query.  Ceph goes on to a *)
(* second command when the answer does not name the active manager.          *)
ExecFirstOf ==
    /\ phase = "ask" /\ kind # "ovn"
    /\ LET found == Exec(query.pod)
           last == query.left = <<>> \/ query.tried = MaxAttempts
       IN \/ found = "denied" /\ Done(Failure("denied"))
          \/ /\ found = "failed" \/ (found = "hangs" /\ TimeLimited)
             /\ IF last THEN Done(Failure("failed")) ELSE GoesOn
          \/ /\ found = "answer"
             /\ \E row \in Answers(query.pod, "main") :
                  \/ Done(row)
                  \/ /\ kind = "ceph" /\ row.err = "none"
                     /\ query' = [query EXCEPT !.heard = row]
                     /\ phase' = "mgr" /\ UNCHANGED rows
    /\ UNCHANGED <<kind, world, tier, published>>

(* queryDatabase, for OVN: every member is asked in turn until one answers,  *)
(* without a limit of time or number; a follower that names another pod as   *)
(* the leader has that one asked.                                            *)
QueryDatabase ==
    /\ phase = "ask" /\ kind = "ovn"
    /\ LET q == Queries[Len(rows) + 1]
           found == Exec(query.pod)
       IN \/ found = "denied" /\ Done(Failure("denied"))
          \/ /\ found = "failed"
             /\ IF query.left = <<>> THEN Done(Failure("failed")) ELSE GoesOn
          \/ /\ found = "answer"
             /\ \E row \in Answers(query.pod, q) :
                  \/ Done(row)
                  \/ /\ ~row.leads /\ row.led
                     /\ \E p \in Members[q] \ {query.pod} :
                          query' = [query EXCEPT !.heard = row, !.pod = p]
                     /\ phase' = "leader" /\ UNCHANGED rows
    /\ UNCHANGED <<kind, world, tier, published>>

(* activeMgrName, without a time limit: the status is kept whatever it says. *)
ActiveMgrName ==
    /\ phase = "mgr"
    /\ Exec(query.pod) # "hangs"
    /\ Done(query.heard)
    /\ UNCHANGED <<kind, world, tier, published>>

(* statusFrom the pod the follower named, without a time limit: it counts    *)
(* only if that pod leads, otherwise the follower's own answer is kept.      *)
AskLeader ==
    /\ phase = "leader"
    /\ \/ Exec(query.pod) \in {"failed", "denied"} /\ Done(query.heard)
       \/ /\ Exec(query.pod) = "answer"
          /\ \E row \in Answers(query.pod, Queries[Len(rows) + 1]) :
               Done(IF row.leads THEN row ELSE query.heard)
    /\ UNCHANGED <<kind, world, tier, published>>

Next == \/ WorldChanges \/ Detect \/ Tick \/ NextQuery
        \/ ExecFirstOf \/ QueryDatabase \/ ActiveMgrName \/ AskLeader

(* A goroutine that can go on does; the ticker ticks on.  Nothing is assumed *)
(* of the world.                                                             *)
Fairness == /\ WF_vars(Detect) /\ WF_vars(Tick) /\ WF_vars(NextQuery)
            /\ WF_vars(ExecFirstOf) /\ WF_vars(QueryDatabase)
            /\ WF_vars(ActiveMgrName) /\ WF_vars(AskLeader)

Spec == Init /\ [][Next]_vars /\ Fairness

-------------------------------------------------------------------------------
(* The cell of the banner.                                                 *)

(* Faulty variant of StaleServers: any member's view of the others counts. *)
StaleInAnyView(row) == row.quiet

(* StaleServers: only a leader hears from every member. *)
StaleServers(row) == row.leads /\ row.quiet

Some(p, P(_)) == \E i \in DOMAIN p.rows : P(p.rows[i])

Plain(color) == [color |-> color, stale |-> FALSE, unchecked |-> FALSE]

(* Ceph's cell: a read error, no detail, or what ceph -s says of health. *)
CephCell(p) ==
    Plain(IF p.err THEN "warn" ELSE IF p.tier # "full" THEN "loading" ELSE p.rows[1].health)

(* Cilium's cell, which does not look at the tier: the agents' readiness,   *)
(* then what an agent says of its controllers and addresses, if one did.    *)
CiliumCell(p) ==
    Plain(CASE p.err -> "warn"
            [] ~p.err /\ ~p.ready -> "err"
            [] ~p.err /\ p.ready /\ Some(p, LAMBDA r : r.health = "warn") -> "warn"
            [] OTHER -> "ok")

(* OVN's cell: no detail; then red without a leader, yellow for a database   *)
(* that could not be read or has members gone quiet; or OK, with a note when *)
(* a database was not read from its leader.                                  *)
OvnCell(p) ==
    LET stale == Some(p, LAMBDA r : r.err = "none" /\ r.led /\ StaleServers(r))
        color == IF Some(p, LAMBDA r : r.err = "none" /\ ~r.led) THEN "err"
                 ELSE IF stale \/ Some(p, LAMBDA r : r.err # "none") THEN "warn" ELSE "ok"
    IN IF p.tier # "full" THEN Plain("loading")
       ELSE [color |-> color, stale |-> stale,
             unchecked |-> color = "ok" /\ Some(p, LAMBDA r : r.err = "none" /\ ~r.leads)]

-------------------------------------------------------------------------------
(* Properties.                                                             *)

(* The banner never reports an OVN member as stale on the word of a member   *)
(* that does not lead: there was one gone when the leader was asked, whoever *)
(* was asked first and wherever the leadership moved between the two execs.  *)
AlarmIsTheLeaders ==
    (kind = "ovn" /\ OvnCell(published).stale) => Some(published, LAMBDA r : r.gone)

(* An OK without the "members unchecked" note means that every OVN database  *)
(* was read in that poll and had all its members when it was.                *)
OkWasChecked ==
    (kind = "ovn" /\ OvnCell(published).color = "ok" /\ ~OvnCell(published).unchecked) =>
        ~Some(published, LAMBDA r : r.err # "none" \/ r.gone)

(* No program that hangs from some time on, as Ceph and OVN need it: their   *)
(* execs without a time limit wait for ever on one that does.                *)
NothingHangs == kind = "cilium" \/ <>[](\A p \in Pods : program[p] # "hangs")

(* Every poll ends, so that the next tick finds the goroutine waiting for it. *)
PollsEnd == NothingHangs => []<>(phase \in {"idle", "inactive"})

(* Some pod that a query gets to ask would answer. *)
Answerable ==
    /\ api /\ permitted
    /\ \E i \in DOMAIN Queries :
         LET found == PodCandidates(Queries[i])
         IN \E j \in DOMAIN found :
              (kind = "ovn" \/ j <= MaxAttempts) /\ Exec(found[j]) = "answer"

(* Nothing a poll found is final: whatever Detect and earlier polls came to, *)
(* a plugin that was detected publishes the detail again once a pod it gets  *)
(* to ask answers and goes on answering.                                     *)
DetailReturns ==
    (NothingHangs /\ <>[]Answerable) =>
        <>[](\/ phase = "inactive"
             \/ published.tier = "full"
             \/ \E i \in DOMAIN published.rows : published.rows[i].err = "unreadable")

(* The verdicts are checked: neither alarm nor all-clear goes by what the    *)
(* poll did not see of the leaders (OvnCell, StaleServers).                  *)
VerdictIsChecked == AlarmIsTheLeaders /\ OkWasChecked

(* Polling goes on: every poll ends, and one finds what there is to find.    *)
PollingGoesOn == PollsEnd /\ DetailReturns

===============================================================================
