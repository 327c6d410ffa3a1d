----------------------------- MODULE ClusterCard -----------------------------
(***************************************************************************)
(* The workload half of a cluster's card: the nodes-and-pods group of the  *)
(* workload watcher (module Watcher), the probe that asks the workload API *)
(* server once, the grace period, and the verdict readWorkload reaches     *)
(* from them (internal/fleet/fleet.go).                                    *)
(***************************************************************************)
EXTENDS Watcher

ASSUME CardAssumption ==
    /\ "nodes" \in Kind
    /\ "nodes" \in ShownKey
    /\ "nodes" \in From["nodes"]

VARIABLES
    probe,   \* "asking", then what it found: "ok" or "failed"
    old      \* whether the collector is older than workloadGrace

cardVars == <<probe, old>>
allVars == <<vars, cardVars>>

CardTypeOK ==
    /\ TypeOK
    /\ probe \in {"asking", "ok", "failed"}
    /\ old \in BOOLEAN

CardInit ==
    /\ Init
    /\ probe = "asking"
    /\ old = FALSE

-------------------------------------------------------------------------------
(* probe: one request, whose answer is kept for good. *)
Probe ==
    /\ probe = "asking"
    /\ probe' = IF up THEN "ok" ELSE "failed"
    /\ UNCHANGED <<vars, old>>

GraceEnds ==
    /\ ~old
    /\ old' = TRUE
    /\ UNCHANGED <<vars, probe>>

CardNext ==
    \/ Probe \/ GraceEnds
    \/ Next /\ UNCHANGED cardVars

(* As in Watcher; besides, the probe ends and time passes. *)
CardFairness == Fairness /\ WF_allVars(Probe) /\ WF_allVars(GraceEnds)

CardSafeSpec == CardInit /\ [][CardNext]_allVars
CardSpec == CardSafeSpec /\ CardFairness

-------------------------------------------------------------------------------
(* Faulty variant of Broken: the probe's verdict outlives the first nodes. *)
BrokenByProbe ==
    \/ probe = "failed"
    \/ shown["nodes"] = Absent /\ old
    \/ shown["nodes"] # Absent /\ shown["nodes"]["nodes"] = {}

(* readWorkload: whether the workload side darkens the card. *)
Broken ==
    \/ shown["nodes"] = Absent /\ probe = "failed"
    \/ shown["nodes"] = Absent /\ old
    \/ shown["nodes"] # Absent /\ shown["nodes"]["nodes"] = {}

(* A workload cluster that was never reachable ends up as broken and stays   *)
(* so, whether or not the probe got to ask it.                               *)
SilenceIsReported == [](~up) => <>[]Broken

(* One that is reachable and has a node from some time on ends up as not     *)
(* broken, whatever the probe found and whatever half-filled caches were     *)
(* published meanwhile.                                                      *)
RecoveryClears == <>[](up /\ cluster["nodes"] # {} /\ ~canceled) => <>[](~Broken)

(* The verdict follows the cluster, for better and for worse: neither the    *)
(* probe, asked once, nor the grace period nor a half-filled cache decides   *)
(* for good (readWorkload, probe, workloadGrace).                            *)
VerdictFollows == SilenceIsReported /\ RecoveryClears

===============================================================================
