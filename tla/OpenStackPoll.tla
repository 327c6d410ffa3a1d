---------------------------- MODULE OpenStackPoll ----------------------------
(***************************************************************************)
(* The OpenStack plugin (internal/plugin/openstack): detected by its cloud *)
(* being named, then polled on a ticker.  A poll asks each service for its *)
(* agents and publishes them; asks Nova for the servers in ERROR, for the  *)
(* migrations and for the servers left on each host being drained, and     *)
(* publishes those; and, every few polls, counts what the cloud holds.     *)
(*                                                                         *)
(* The cloud goes on changing between the requests of a poll.  Hosts run   *)
(* nova-compute; the other services are "network" alone, whose agents are  *)
(* always up.  A migration keeps what decides whether it is shown: its     *)
(* number, its server, how it stands, and whether Nova last wrote it more  *)
(* than FailedWindow ago.                                                  *)
(***************************************************************************)
EXTENDS Naturals, FiniteSets, FiniteSetsExt, Sequences, SequencesExt

CONSTANTS
    Host,            \* the compute hosts, sorted by name: a sequence
    Server,          \* the servers
    MaxDrains,       \* maxDrains: hosts whose servers are counted in one poll (8)
    InventoryEvery,  \* inventoryEvery: polls from one inventory to the next (4)
    MaxMigration,    \* bound: migrations in all
    MaxTurn,         \* bound: changes of the cloud
    Unpublished      \* no value under a key

Hosts == Range(Host)
Service == {"identity", "compute", "network"}

ASSUME OpenStackAssumption ==
    /\ Hosts # {}
    /\ {MaxDrains, InventoryEvery} \subseteq Nat \ {0}
    /\ {MaxMigration, MaxTurn} \subseteq Nat

VARIABLES
    failing,     \* the services that do not answer
    host,        \* per host, whether its nova-compute is up, and enabled
    server,      \* per server, the host it is on, and whether it is in ERROR
    migrations,  \* the migrations Nova lists
    turns,       \* how often the cloud has changed
    at,          \* where the poll is: "off", "detect", "idle" or its next request
    provider,    \* whether Plugin.provider is authenticated
    draft,       \* what this poll has read so far
    polls,       \* polls % inventoryEvery
    state,       \* the store's KeyState
    moves,       \* the store's KeyMigrations
    inventory    \* the store's KeyInventory: the counts, or an error

cloud == <<failing, host, server, migrations, turns>>
keys == <<state, moves, inventory>>
cloudVars == <<cloud, at, provider, draft, polls, keys>>

Migration == [id : 1..MaxMigration, server : Server, status : {"active", "failed", "done"},
              old : BOOLEAN]

Agents == UNION {[hs -> [up : BOOLEAN, enabled : BOOLEAN]] : hs \in {Hosts, {}}}

NoDraft == [agents |-> <<>>, errs |-> {}, known |-> FALSE, broken |-> <<>>, items |-> {}]
Unreachable == [err |-> TRUE, agents |-> <<>>, errs |-> {}]

CloudTypeOK ==
    /\ failing \subseteq Service
    /\ host \in [Hosts -> [up : BOOLEAN, enabled : BOOLEAN]]
    /\ server \in [Server -> [on : Hosts, error : BOOLEAN]]
    /\ migrations \subseteq Migration
    /\ turns \in 0..MaxTurn
    /\ at \in {"off", "detect", "idle", "network", "put", "client", "broken", "list", "inventory"}
    /\ provider \in BOOLEAN
    /\ draft.agents \in Agents /\ draft.errs \subseteq Service /\ draft.items \subseteq Migration
    /\ polls \in 0..(InventoryEvery - 1)

CloudInit ==
    /\ failing \in {{}, {"identity"}}
    /\ host = [h \in Hosts |-> [up |-> TRUE, enabled |-> TRUE]]
    /\ server = [s \in Server |-> [on |-> Host[1], error |-> FALSE]]
    /\ migrations = {}
    /\ turns = 0
    /\ at = "detect"
    /\ provider = FALSE
    /\ draft = NoDraft
    /\ polls = 0
    /\ state = Unpublished /\ moves = Unpublished /\ inventory = Unpublished

-------------------------------------------------------------------------------
(* The cloud.                                                              *)

Turn(changed) ==
    /\ turns < MaxTurn
    /\ turns' = turns + 1
    /\ changed
    /\ UNCHANGED <<at, provider, draft, polls, keys>>

ServiceChanges == \E s \in Service :
    /\ failing' = IF s \in failing THEN failing \ {s} ELSE failing \cup {s}
    /\ UNCHANGED <<host, server, migrations>>

HostChanges == \E h \in Hosts :
    /\ \/ host' = [host EXCEPT ![h].up = ~@]
       \/ host' = [host EXCEPT ![h].enabled = ~@]
    /\ UNCHANGED <<failing, server, migrations>>

Migrate == \E s \in Server :
    /\ Cardinality(migrations) < MaxMigration
    /\ \A m \in migrations : m.server = s => m.status # "active"
    /\ migrations' = migrations \cup {[id |-> Cardinality(migrations) + 1, server |-> s,
                                       status |-> "active", old |-> FALSE]}
    /\ UNCHANGED <<failing, host, server>>

(* A migration ends: the server has moved; or it has not, and may be in     *)
(* ERROR on either host.                                                    *)
MigrationEnds == \E m \in migrations :
    /\ m.status = "active"
    /\ \E s \in {"done", "failed"}, h \in Hosts, e \in BOOLEAN :
         /\ s = "done" => ~e
         /\ migrations' = (migrations \ {m}) \cup {[m EXCEPT !.status = s]}
         /\ server' = [server EXCEPT ![m.server] = [on |-> h, error |-> e]]
    /\ UNCHANGED <<failing, host>>

(* Nova last wrote the record longer ago than the window; the order in      *)
(* which it writes records is not the order of their numbers.               *)
Ages == \E m \in migrations :
    /\ m.status # "active" /\ ~m.old
    /\ migrations' = (migrations \ {m}) \cup {[m EXCEPT !.old = TRUE]}
    /\ UNCHANGED <<failing, host, server>>

Repaired == \E s \in Server :
    /\ server[s].error
    /\ server' = [server EXCEPT ![s].error = FALSE]
    /\ UNCHANGED <<failing, host, migrations>>

CloudChanges == Turn(ServiceChanges \/ HostChanges \/ Migrate \/ MigrationEnds \/ Ages \/ Repaired)

-------------------------------------------------------------------------------
(* connect: authenticated now, or kept from an earlier time.  A clouds.yaml *)
(* that cannot be parsed fails the same way.                                *)
Connect == provider \/ "identity" \notin failing

(* Detect: a named cloud is wanted whether or not it can be reached.        *)
DetectCloud ==
    /\ at = "detect"
    /\ at' = "idle"
    /\ provider' = Connect
    /\ UNCHANGED <<cloud, draft, polls, keys>>

(* A tick, and poll as far as computeAgents. *)
ComputeAgents ==
    /\ at = "idle"
    /\ provider' = Connect
    /\ IF ~Connect
       THEN /\ draft' = NoDraft
            /\ at' = "put"
       ELSE /\ at' = "network"
            /\ draft' = IF "compute" \in failing THEN [NoDraft EXCEPT !.errs = {"compute"}]
                                                 ELSE [NoDraft EXCEPT !.agents = host]
    /\ UNCHANGED <<cloud, polls, keys>>

NetworkAgents ==
    /\ at = "network"
    /\ draft' = IF "network" \in failing THEN [draft EXCEPT !.errs = @ \cup {"network"}] ELSE draft
    /\ at' = "put"
    /\ UNCHANGED <<cloud, provider, polls, keys>>

(* s.Put(KeyState, state) *)
PutState ==
    /\ at = "put"
    /\ state' = IF provider THEN [err |-> FALSE, agents |-> draft.agents, errs |-> draft.errs]
                            ELSE Unreachable
    /\ at' = "client"
    /\ UNCHANGED <<cloud, provider, draft, polls, moves, inventory>>

(* DrainingHosts: those of the given state whose nova-compute is disabled. *)
DrainingHosts(s) == {h \in DOMAIN s.agents : ~s.agents[h].enabled}

AfterMigrations == IF polls = 0 THEN "inventory" ELSE "idle"

PutMoves(m) ==
    /\ moves' = m
    /\ at' = AfterMigrations
    /\ polls' = IF AfterMigrations = "idle" THEN (polls + 1) % InventoryEvery ELSE polls
    /\ draft' = NoDraft

(* pollMigrations that fails to connect or to list publishes the error; the *)
(* hosts being drained are those of the state just published.               *)
NoMoves == [err |-> TRUE, known |-> FALSE, broken |-> <<>>, items |-> {},
            draining |-> DrainingHosts(state), drains |-> <<>>]

MigrationsClient ==
    /\ at = "client"
    /\ provider' = Connect
    /\ IF Connect
       THEN at' = "broken" /\ UNCHANGED <<draft, polls, moves>>
       ELSE PutMoves(NoMoves)
    /\ UNCHANGED <<cloud, state, inventory>>

(* brokenServers: the servers in ERROR and where they are, or not known. *)
BrokenServers ==
    /\ at = "broken"
    /\ draft' = IF "compute" \in failing THEN draft
                ELSE [draft EXCEPT !.known = TRUE,
                        !.broken = [s \in {t \in Server : server[t].error} |-> server[s].on]]
    /\ at' = "list"
    /\ UNCHANGED <<cloud, provider, polls, keys>>

(* Faulty variant of LatestPerServer: the record Nova wrote last is the     *)
(* latest; of two written within the window, the first.                     *)
LatestWritten(items) ==
    {m \in items : \A n \in items : n.server = m.server =>
        \/ m.old = n.old /\ m.id <= n.id
        \/ ~m.old /\ n.old}

(* LatestPerServer: the attempt with the highest number. *)
LatestPerServer(items) ==
    {m \in items : \A n \in items : n.server = m.server => n.id <= m.id}

(* pollDrains: of the first hosts being drained, how many servers are on    *)
(* their way and how many are stuck.                                        *)
PollDrains(items, broken) ==
    LET sorted == SelectSeq(Host, LAMBDA h : h \in DrainingHosts(state))
        asked == {sorted[i] : i \in 1..(IF Len(sorted) < MaxDrains THEN Len(sorted) ELSE MaxDrains)}
        moving == Cardinality({m \in LatestPerServer(items) : m.status = "active"})
    IN [h \in asked |-> [moving |-> moving,
                         stuck |-> Cardinality({s \in DOMAIN broken : broken[s] = h})]]

(* The list of migrations and the counts of the drains, which one publish   *)
(* brings together.                                                         *)
ListMigrations ==
    /\ at = "list"
    /\ IF "compute" \in failing
       THEN PutMoves([NoMoves EXCEPT !.known = draft.known, !.broken = draft.broken])
       ELSE PutMoves([err |-> FALSE, known |-> draft.known, broken |-> draft.broken,
                      items |-> migrations, draining |-> DrainingHosts(state),
                      drains |-> PollDrains(migrations, draft.broken)])
    /\ UNCHANGED <<cloud, provider, state, inventory>>

(* The counters, each over its own service: what cannot be counted costs    *)
(* that count alone.                                                        *)
Counts ==
    [label \in {"Projects", "Servers", "Networks"} |->
        LET asked == CASE label = "Projects" -> "identity"
                       [] label = "Servers" -> "compute"
                       [] label = "Networks" -> "network"
        IN IF asked \in failing THEN "err" ELSE "count"]

(* pollInventory: an error for the whole only when there is no connection. *)
PollInventory ==
    /\ at = "inventory"
    /\ provider' = Connect
    /\ inventory' = [err |-> ~Connect, counts |-> IF Connect THEN Counts ELSE <<>>]
    /\ polls' = (polls + 1) % InventoryEvery
    /\ at' = "idle"
    /\ UNCHANGED <<cloud, draft, state, moves>>

CloudPoll == DetectCloud \/ ComputeAgents \/ NetworkAgents \/ PutState \/ MigrationsClient
             \/ BrokenServers \/ ListMigrations \/ PollInventory

CloudNext == CloudChanges \/ CloudPoll

(* The goroutine goes on and the ticker ticks: every request has an answer,  *)
(* the SDK's client giving up by itself. Nothing is assumed of the cloud.    *)
CloudFairness == WF_cloudVars(CloudPoll)

CloudSpec == CloudInit /\ [][CloudNext]_cloudVars /\ CloudFairness

-------------------------------------------------------------------------------
(* What is shown.                                                          *)

StillBroken(v, m) == v.known /\ m.server \in DOMAIN v.broken
Blocking(v, m) == StillBroken(v, m) /\ v.broken[m.server] \in v.draining

(* Relevant: the rows.  An old failure earns one while its server is in      *)
(* ERROR on a host being drained.                                            *)
Relevant(v) ==
    {m \in LatestPerServer(v.items) :
        \/ m.status = "active"
        \/ m.status = "failed" /\ (~m.old \/ Blocking(v, m))}

(* Cells, over the agents' summary: disabled is not down, and a host that is *)
(* both is not down either.                                                  *)
CloudCell(s) ==
    LET down == {h \in DOMAIN s.agents : ~s.agents[h].up /\ s.agents[h].enabled}
    IN CASE s.err -> "err"
         [] ~s.err /\ down # {} -> "err"
         [] ~s.err /\ down = {} /\ DrainingHosts(s) # {} -> "warn"
         [] OTHER -> "ok"

-------------------------------------------------------------------------------
(* Properties.                                                             *)

LastMove(s, result) ==
    \E m \in migrations :
        /\ m.server = s /\ m.status = result
        /\ \A n \in migrations : n.server = s => n.id <= m.id

Stuck(s) == server[s].error /\ ~host[server[s].on].enabled /\ LastMove(s, "failed")

(* A server that a failed migration left in ERROR on a host someone drains   *)
(* has a row, however old the failure and in whatever order the host was     *)
(* disabled, the server broke and Nova wrote its records: it does not expire.*)
StuckServerIsShown ==
    \A s \in Server :
        <>[](Stuck(s) /\ failing = {}) =>
            <>[](moves # Unpublished /\ \E m \in Relevant(moves) : m.server = s)

(* A server whose last attempt went through has no row for an earlier one    *)
(* for ever.                                                                 *)
SuccessClears ==
    \A s \in Server :
        <>[](failing = {} /\ LastMove(s, "done")) =>
            <>[](moves # Unpublished /\ \A m \in Relevant(moves) : m.server # s)

(* Between two polls the two keys agree: a row that is there because a host  *)
(* is being drained is of a host the agents' pane shows as disabled, so no   *)
(* row comes and goes on the seam between two polls.                         *)
KeysAgree ==
    (at \in {"idle", "inventory"} /\ moves # Unpublished) => moves.draining = DrainingHosts(state)

(* The migrations' rows follow the cloud both ways (Relevant,                *)
(* LatestPerServer): what failed is shown, what succeeded clears, and what   *)
(* is shown goes with the hosts shown beside it.                             *)
MigrationsFollow == []KeysAgree /\ StuckServerIsShown /\ SuccessClears

===============================================================================
