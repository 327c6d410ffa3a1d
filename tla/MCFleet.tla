------------------------------- MODULE MCFleet -------------------------------
(***************************************************************************)
(* Instances of Fleet and Management for TLC.  Run starts both; the        *)
(* section on the management cluster has a store of its own and shares     *)
(* nothing with the collectors but the notification, so a behaviour is of  *)
(* one of them.                                                            *)
(***************************************************************************)
EXTENDS Fleet, Management

CONSTANTS c1, k1, absent

MCCluster == {c1}
MCCredential == {k1}
MCManagementPod == <<3, 7, 3>>
MCWorkload == [w \in {"controller"} |-> {1, 2}]

VARIABLE part

NoFleet ==
    /\ held = [c \in Cluster |-> Absent]
    /\ up = FALSE
    /\ canceled = TRUE
    /\ pc = "over"
    /\ settled = FALSE
    /\ found = [c \in Cluster |-> Absent] /\ todo = {} /\ gone = {}
    /\ call = NoCall
    /\ clusters = [c \in Cluster |-> Nobody]
    /\ started = 0
    /\ tracked = <<>>
    /\ files = [c \in Cluster |-> Absent]

FleetInit ==
    \/ part = "fleet" /\ Init /\ ManagementInit
    \/ part = "management" /\ ManagementInit /\ NoFleet

FleetNext ==
    /\ UNCHANGED part
    /\ \/ part = "fleet" /\ Next /\ UNCHANGED managementVars
       \/ part = "management" /\ ManagementNext /\ UNCHANGED vars

FleetSpec == FleetInit /\ [][FleetNext]_<<part, vars, managementVars>> /\ Fairness

===============================================================================
