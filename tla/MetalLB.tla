------------------------------- MODULE MetalLB --------------------------------
(***************************************************************************)
(* The MetalLB plugin (internal/plugin/metallb, pkg/subsystem/metallb):    *)
(* one poll is five reads, one after the other, of a cluster that goes on  *)
(* allocating; what they found becomes one state and one cell.             *)
(***************************************************************************)
EXTENDS Integers, FiniteSets

CONSTANTS
    Pool,       \* [name, ns, size, counts: MetalLB publishes its counts]
    LbService,    \* the services of type LoadBalancer
    Pinned,     \* the namespace setting, or NoNamespace
    MaxMove, MaxMiss,   \* bounds: changes of the cluster, reads that fail
    NoNamespace, Waiting

ASSUME MetalLBAssumption ==
    /\ {MaxMove, MaxMiss} \subseteq Nat
    /\ IsFiniteSet(LbService) /\ Waiting \notin Pool
    /\ \A p \in Pool : p.size \in Nat /\ p.counts \in BOOLEAN

VARIABLES
    holds,      \* Service -> the pool its address is from, or Waiting
    adverts,    \* a set of [mode, pools]: no pools are all pools
    speakers,   \* [ready, desired]: the speakers of MetalLB's namespace
    allocations, misses,
    reading,    \* the poll under way
    finding,    \* the state last published, or what Run starts with: Waiting
    stirred     \* the cluster has changed since the poll began

lbVars == <<holds, adverts, speakers, allocations, misses, reading, finding, stirred>>
clusterNow == <<holds, adverts, speakers>>

Speakers == {s \in [ready : 0..1, desired : 0..1] : s.ready <= s.desired}

NoFindings == [pools |-> {}, services |-> {}, adverts |-> {}, speaker |-> [ready |-> 0, desired |-> 0], error |-> FALSE]
Resting == [step |-> 0, found |-> NoFindings]
Used(p) == Cardinality({s \in LbService : holds[s] = p})

-------------------------------------------------------------------------------
(* What is made of the reads. *)

(* poolUsage: the counts on the pool, if there are any. *)
PoolUsage(p) ==
    IF p.counts THEN [of |-> p, usage |-> "status", assigned |-> Used(p), available |-> p.size - Used(p)]
    ELSE [of |-> p, usage |-> "unknown", assigned |-> 0, available |-> 0]

(* namespaceFor: the pin, or the one namespace of the pools: none of no      *)
(* pools, and an error of several.                                           *)
Namespaces(pools) == IF Pinned # NoNamespace THEN {Pinned} ELSE {p.of.ns : p \in pools}

(* Faulty variant of Advertised: an advertisement is of every pool. *)
AdvertisedByAny(name, all) == all # {}

(* attributeAdvertisements. *)
Advertised(name, all) == \E a \in all : a.pools = {} \/ name \in a.pools

(* attributeServices: a pool without counts of its own has as many as there  *)
(* are services with an address from it.                                     *)
WithServices(p, services) ==
    LET n == Cardinality({s \in services : s.pool = p.of})
    IN IF p.usage = "status" \/ n = 0 THEN p ELSE [p EXCEPT !.assigned = n, !.usage = "annotations"]

Exhausted(p) == p.usage = "status" /\ p.available = 0 /\ p.assigned > 0

(* Cells: the first that applies. *)
Cell(f) ==
    CASE f.error -> "read error"
      [] f.speaker.desired > 0 /\ f.speaker.ready < f.speaker.desired -> "speaker"
      [] \E s \in f.services : s.pool = Waiting -> "pending"
      [] \E p \in f.pools : Exhausted(p) -> "full"
      [] \E p \in f.pools : ~Advertised(p.of.name, f.adverts) -> "unadvertised"
      [] OTHER -> "ok"

-------------------------------------------------------------------------------
(* The cluster. *)

LbInit ==
    /\ holds = [s \in LbService |-> Waiting]
    /\ adverts \in {{}, {[mode |-> "L2", pools |-> {}]}, {[mode |-> "BGP", pools |-> {p.name}] : p \in Pool},
                    {[mode |-> "BGP", pools |-> {(CHOOSE p \in Pool : TRUE).name}]}}
    /\ speakers \in Speakers
    /\ allocations = 0 /\ misses = 0
    /\ reading = Resting /\ finding = Waiting /\ stirred = FALSE

Moves ==
    /\ allocations < MaxMove /\ allocations' = allocations + 1
    /\ stirred' = TRUE
    /\ UNCHANGED <<misses, reading, finding>>

Allocate(s, p) ==
    /\ holds[s] = Waiting /\ Used(p) < p.size
    /\ holds' = [holds EXCEPT ![s] = p]
    /\ Moves /\ UNCHANGED <<adverts, speakers>>

Release(s) ==
    /\ holds[s] # Waiting
    /\ holds' = [holds EXCEPT ![s] = Waiting]
    /\ Moves /\ UNCHANGED <<adverts, speakers>>

Advertise(all) ==
    /\ all # adverts /\ adverts' = all
    /\ Moves /\ UNCHANGED <<holds, speakers>>

SpeakerMoves ==
    /\ speakers.desired > 0
    /\ speakers' = [speakers EXCEPT !.ready = speakers.desired - @]
    /\ Moves /\ UNCHANGED <<holds, adverts>>

-------------------------------------------------------------------------------
(* The poll. *)

Reads(found) == reading' = [step |-> reading.step + 1, found |-> found] /\ UNCHANGED misses
Misses(found) ==
    /\ misses < MaxMiss /\ misses' = misses + 1
    /\ reading' = [step |-> reading.step + 1, found |-> found]
Noted == [reading.found EXCEPT !.error = TRUE]

Poll ==
    /\ reading.step = 0
    /\ reading' = [Resting EXCEPT !.step = 1]
    /\ stirred' = FALSE
    /\ UNCHANGED <<clusterNow, allocations, misses, finding>>

ListPools ==
    /\ reading.step = 1
    /\ Reads([reading.found EXCEPT !.pools = {PoolUsage(p) : p \in Pool}]) \/ Misses(Noted)
    /\ UNCHANGED <<clusterNow, allocations, finding, stirred>>

ListServices ==
    /\ reading.step = 2
    /\ Reads([reading.found EXCEPT !.services = {[of |-> s, pool |-> holds[s]] : s \in LbService}]) \/ Misses(Noted)
    /\ UNCHANGED <<clusterNow, allocations, finding, stirred>>

(* listAdvertisements: one mode, then the other; one that cannot be listed   *)
(* has none.                                                                 *)
ListAdvertisements ==
    /\ reading.step \in {3, 4}
    /\ LET mode == IF reading.step = 3 THEN "L2" ELSE "BGP"
       IN \/ Reads([reading.found EXCEPT !.adverts = @ \cup {a \in adverts : a.mode = mode}])
          \/ Misses(reading.found)
    /\ UNCHANGED <<clusterNow, allocations, finding, stirred>>

(* speaker: the DaemonSet of MetalLB's namespace, if that is known. *)
Speaker ==
    /\ reading.step = 5
    /\ LET ns == Namespaces(reading.found.pools)
       IN \/ ns = {} /\ Reads(reading.found)
          \/ Cardinality(ns) > 1 /\ Reads(Noted)
          \/ Cardinality(ns) = 1 /\ (Reads([reading.found EXCEPT !.speaker = speakers]) \/ Misses(Noted))
    /\ UNCHANGED <<clusterNow, allocations, finding, stirred>>

PublishFindings ==
    /\ reading.step = 6
    /\ finding' = [reading.found EXCEPT !.pools = {WithServices(p, reading.found.services) : p \in @}]
    /\ reading' = Resting
    /\ UNCHANGED <<clusterNow, allocations, misses, stirred>>

Reading == Poll \/ ListPools \/ ListServices \/ ListAdvertisements \/ Speaker \/ PublishFindings

LbNext ==
    \/ \E s \in LbService : Release(s) \/ \E p \in Pool : Allocate(s, p)
    \/ \E all \in {{}, {[mode |-> "L2", pools |-> {}]}} : Advertise(all)
    \/ SpeakerMoves
    \/ Reading

LbSpec == LbInit /\ [][LbNext]_lbVars

-------------------------------------------------------------------------------
IsFinding(f) ==
    /\ f = [pools |-> f.pools, services |-> f.services, adverts |-> f.adverts, speaker |-> f.speaker, error |-> f.error]
    /\ f.error \in BOOLEAN

LbTypeOK ==
    /\ holds \in [LbService -> Pool \cup {Waiting}]
    /\ speakers \in Speakers
    /\ reading = [step |-> reading.step, found |-> reading.found]
    /\ reading.step \in 0..6 /\ IsFinding(reading.found)
    /\ stirred \in BOOLEAN

(* OK is earned: of a cluster that held still while it was read, whatever    *)
(* could not be read of it, the cell says OK only if every service has its   *)
(* address, no pool that says so is full, every pool is announced and every  *)
(* speaker is ready (poll, Cells, attributeAdvertisements).                  *)
OkIsEarned ==
    finding # Waiting /\ reading.step = 0 /\ ~stirred /\ Cell(finding) = "ok" =>
        /\ \A s \in LbService : holds[s] # Waiting
        /\ \A p \in Pool : p.counts => Used(p) < p.size \/ p.size = 0
        /\ \A p \in Pool : \E a \in adverts : a.pools = {} \/ p.name \in a.pools
        /\ speakers.ready = speakers.desired

===============================================================================
