------------------------------- MODULE PodRows --------------------------------
(***************************************************************************)
(* A pod as the kubelet runs it, and the row the workload watcher makes of *)
(* it (internal/core/workload/project.go): its status, its readiness,      *)
(* whether it is healthy, and what it adds to the requests of its node.    *)
(*                                                                         *)
(* The pod has init containers, which run one after the other before the   *)
(* others, some of them sidecars, which stay; and regular containers.      *)
(* What Kubernetes does is external; every state of it is projected.       *)
(***************************************************************************)
EXTENDS Integers, Sequences, FiniteSets, SequencesExt, FiniteSetsExt

CONSTANTS
    InitContainers, \* the sequence of init containers
    Regular,        \* the sequence of the others
    Sidecars,       \* the init containers that restart always
    Requests,       \* container -> what it requests of a node
    RestartPolicies \* some of "Always", "OnFailure", "Never"

ASSUME PodAssumption ==
    /\ ToSet(InitContainers) \cap ToSet(Regular) = {}
    /\ Sidecars \subseteq ToSet(InitContainers)
    /\ Regular # <<>>
    /\ Requests \in [ToSet(InitContainers) \cup ToSet(Regular) -> Nat]
    /\ {InitContainers, Regular} \subseteq Seq(DOMAIN Requests)
    /\ \A i, j \in DOMAIN InitContainers : InitContainers[i] = InitContainers[j] => i = j

VARIABLES
    container,  \* container -> [is, reason, ready, restarts]
    restartPolicy,
    deleting    \* DeletionTimestamp is set

podVars == <<container, restartPolicy, deleting>>

Containers == ToSet(InitContainers) \cup ToSet(Regular)

Waits(reason) == [is |-> "waiting", reason |-> reason, ready |-> FALSE, restarted |-> FALSE]

PodTypeOK ==
    /\ container \in [Containers -> [is : {"waiting", "running", "done", "failed"},
                                     reason : {"none", "PodInitializing", "CrashLoopBackOff", "Completed", "Error"},
                                     ready : BOOLEAN, restarted : BOOLEAN]]
    /\ restartPolicy \in RestartPolicies
    /\ deleting \in BOOLEAN

PodInit ==
    /\ container = [c \in Containers |-> Waits("PodInitializing")]
    /\ restartPolicy \in RestartPolicies
    /\ deleting = FALSE

-------------------------------------------------------------------------------
(* Kubernetes. *)

Over(c) ==
    \/ container[c].is = "done"
    \/ c \in Sidecars /\ container[c].is = "running"

(* Init containers start in their order, the regular ones after them. *)
MayStart(c) ==
    \A i \in DOMAIN InitContainers :
        Over(InitContainers[i]) \/ \E j \in 1 .. i : InitContainers[j] = c

(* What the container's restart policy says of one that has stopped. *)
Restarts(c) ==
    \/ c \in Sidecars
    \/ restartPolicy = "Always" /\ (c \in ToSet(Regular) \/ container[c].is = "failed")
    \/ restartPolicy = "OnFailure" /\ container[c].is = "failed"

Stopped(c) == container[c].is \in {"done", "failed"} /\ ~Restarts(c)

Phase ==
    IF \E c \in ToSet(InitContainers) \ Sidecars : container[c].is = "failed" /\ Stopped(c) THEN "Failed"
    ELSE IF \A c \in ToSet(Regular) : Stopped(c)
         THEN IF \A c \in ToSet(Regular) : container[c].is = "done" THEN "Succeeded" ELSE "Failed"
    ELSE IF \A c \in ToSet(Regular) : container[c].is = "waiting" /\ ~container[c].restarted THEN "Pending"
    ELSE "Running"

Finished == Phase \in {"Succeeded", "Failed"}

SetContainer(c, is, reason, ready) ==
    /\ container' = [container EXCEPT ![c].is = is, ![c].reason = reason, ![c].ready = ready]
    /\ UNCHANGED <<restartPolicy, deleting>>

StartContainer(c) ==
    /\ container[c].is = "waiting" /\ ~Finished /\ MayStart(c)
    /\ SetContainer(c, "running", "none", FALSE)

BecomeReady(c) ==
    /\ container[c].is = "running" /\ ~container[c].ready
    /\ SetContainer(c, "running", "none", TRUE)

Exit(c) ==
    /\ container[c].is = "running"
    /\ \/ SetContainer(c, "done", "Completed", c \notin Sidecars /\ c \in ToSet(InitContainers))
       \/ SetContainer(c, "failed", "Error", FALSE)

(* Stopped again and again, it is started later and later. *)
BackOff(c) ==
    /\ container[c].is \in {"done", "failed"} /\ Restarts(c) /\ ~Finished
    /\ container' = [container EXCEPT ![c] = [Waits("CrashLoopBackOff") EXCEPT !.restarted = TRUE]]
    /\ UNCHANGED <<restartPolicy, deleting>>

Delete == ~deleting /\ deleting' = TRUE /\ UNCHANGED <<container, restartPolicy>>

PodNext ==
    \/ \E c \in Containers : StartContainer(c) \/ BecomeReady(c) \/ Exit(c) \/ BackOff(c)
    \/ Delete

PodSpec == PodInit /\ [][PodNext]_podVars

-------------------------------------------------------------------------------
(* The projections. *)

(* terminatingReason, and the container states of podStatus: the first that  *)
(* gives a reason; running gives none.                                       *)
FirstReason ==
    LET said == {i \in DOMAIN Regular : container[Regular[i]].reason # "none"}
    IN IF said = {} THEN "none" ELSE container[Regular[Min(said)]].reason

(* Faulty variant: a sidecar is waited for like any init container. *)
PassedWhenDone(c) == container[c].is = "done"

(* An init container that is no longer in the way. *)
Passed(c) ==
    \/ container[c].is = "done"
    \/ c \in Sidecars /\ container[c].is = "running"

(* "Init:" and its reason, or else how many have passed. *)
InitStatus(c) ==
    CASE container[c].reason = "CrashLoopBackOff" -> "Init:CrashLoopBackOff"
      [] container[c].reason = "Completed" -> "Init:Completed"
      [] container[c].reason = "Error" -> "Init:Error"
      [] OTHER -> "Init:n/m"

(* podStatus: deletion, then init containers, then the others, then the      *)
(* phase.                                                                    *)
PodStatus ==
    LET pending == {i \in DOMAIN InitContainers : ~Passed(InitContainers[i])}
    IN IF deleting THEN IF FirstReason # "none" THEN FirstReason ELSE "Terminating"
       ELSE IF pending # {} THEN InitStatus(InitContainers[Min(pending)])
       ELSE IF FirstReason # "none" THEN FirstReason
       ELSE IF Phase = "Succeeded" THEN "Completed"
       ELSE IF Phase = "Failed" THEN "Error" ELSE Phase

(* ProjectPod: sidecars count as containers. *)
PodRow ==
    LET counted == ToSet(Regular) \cup Sidecars
        ready == Cardinality({c \in counted : container[c].ready})
        total == Cardinality(counted)
    IN [status |-> PodStatus, ready |-> ready, total |-> total,
        restarted |-> \E c \in counted : container[c].restarted,
        healthy |-> (PodStatus = "Running" /\ ready = total) \/ PodStatus = "Completed"]

(* What those of a list that are in cs request together. *)
Asked(list, cs) ==
    LET upTo[n \in 0 .. Len(list)] ==
          IF n = 0 THEN 0 ELSE upTo[n - 1] + (IF list[n] \in cs THEN Requests[list[n]] ELSE 0)
    IN upTo[Len(list)]

(* podResourceUsageByNode: a finished pod asks for nothing; the others ask   *)
(* for it together, an init container only where it asks for more than they  *)
(* and the init containers before it.                                        *)
Claim ==
    LET upTo[n \in 0 .. Len(InitContainers)] ==
          IF n = 0 THEN Asked(Regular, ToSet(Regular))
          ELSE Max({upTo[n - 1], Requests[InitContainers[n]]})
    IN IF Finished THEN 0 ELSE upTo[Len(InitContainers)]

-------------------------------------------------------------------------------
Serving == \A c \in ToSet(Regular) \cup Sidecars : container[c].is = "running" /\ container[c].ready
Up == {c \in Containers \ Sidecars : container[c].is = "running"}
InUse == Asked(Regular, Up) + Asked(InitContainers, Up)

(* A pod all of whose containers and sidecars are up and ready is healthy,   *)
(* whatever sidecars it has and however it got there; one whose regular      *)
(* containers may run is past its init containers; one that waits for a      *)
(* container to be restarted never reads as running; and its node is never   *)
(* said to have less requested than what the pod's running containers, side- *)
(* cars aside, have asked for, nor anything once it is finished (ProjectPod, *)
(* podStatus, podResourceUsageByNode).                                       *)
PodRowsAreRight ==
    /\ Serving /\ ~deleting /\ (\A c \in ToSet(InitContainers) : Over(c)) => PodRow.healthy
    /\ (\A c \in ToSet(InitContainers) : Over(c)) =>
          \A c \in ToSet(InitContainers) : PodRow.status # InitStatus(c)
    /\ (\E c \in Containers : container[c].reason = "CrashLoopBackOff") => PodRow.status # "Running"
    /\ ~Finished => Claim >= InUse
    /\ Finished => Claim = 0

(* "IsHealthy is true when every container is ready, or the pod ran to       *)
(* completion" (pkg/model/model.go).                                         *)
HealthyIsReady == PodRow.healthy => Serving \/ Phase = "Succeeded"

===============================================================================
