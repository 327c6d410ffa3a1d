------------------------------- MODULE Payloads -------------------------------
(***************************************************************************)
(* What is made of the status documents the execs bring back               *)
(* (internal/plugin/ceph/parse.go, internal/plugin/cilium/parse.go).       *)
(*                                                                         *)
(* The formats drift between releases, so every section is decoded on its  *)
(* own: it may be left out, be of a shape the parser does not know, or be  *)
(* readable.                                                               *)
(***************************************************************************)
EXTENDS Integers, Sequences, FiniteSets, SequencesExt, FiniteSetsExt, Functions

CONSTANTS
    CephDocuments,      \* section -> what it may be, for each section of Ceph's document
    CiliumDocuments     \* the same, for Cilium's

LeftOut == [is |-> "left out"]
Misshapen == [is |-> "misshapen"]
Reading(v) == [is |-> "readable", v |-> v]

CephSections == {"health", "monmap", "quorum_names", "mgrmap", "osdmap", "pgmap"}
CiliumSections == {"cilium", "kube-proxy-replacement", "encryption", "ipam", "hubble", "controllers", "cluster-mesh"}

Pool(used, available) == [used |-> used, available |-> available]
PoolType == [used : Nat, available : Nat]

(* What can be read of Cilium's addresses. *)
IpamReading ==
    [text : [said : BOOLEAN, used : Nat, total : Nat], flat : PoolType,
     family : [shape : {"none", "object", "pools", "addresses"}, pool : PoolType, pools : Seq(PoolType), count : Nat],
     allocations : Nat]

(* What is counted is never negative, and a document may be of any shape. *)
ASSUME PayloadsAssumption ==
    /\ DOMAIN CephDocuments = CephSections /\ DOMAIN CiliumDocuments = CiliumSections
    /\ \A name \in CephSections : \A d \in CephDocuments[name] : d.is = "misshapen" => d = Misshapen
    /\ \A name \in CiliumSections : \A d \in CiliumDocuments[name] : d.is = "misshapen" => d = Misshapen
    /\ \A d \in CiliumDocuments["ipam"] : d.is = "readable" => d.v \in IpamReading

VARIABLES
    kindOf,     \* whose document it is: "ceph" or "cilium"
    document,   \* section -> what it is
    garbage     \* whether it is no document at all

payloadVars == <<kindOf, document, garbage>>

Documents(of) == IF of = "ceph" THEN CephDocuments ELSE CiliumDocuments

PayloadsInit ==
    /\ kindOf \in {"ceph", "cilium"}
    /\ document = [name \in DOMAIN Documents(kindOf) |-> LeftOut]
    /\ garbage \in BOOLEAN

(* section, and what its apply leaves when it is not reached. *)
SectionOf(sections, name, zero) == IF sections[name].is = "readable" THEN sections[name].v ELSE zero

Unreadable(sections) == {name \in DOMAIN sections : sections[name] = Misshapen}

-------------------------------------------------------------------------------
(* Ceph: ParseStatus. *)

NoOSDs == [total |-> 0, up |-> 0, in |-> 0]

ParseCeph(s) ==
    [of |-> "ceph",
     health |-> SectionOf(s, "health", ""),
     mons |-> SectionOf(s, "monmap", 0),
     inQuorum |-> SectionOf(s, "quorum_names", 0),
     mgr |-> SectionOf(s, "mgrmap", FALSE),
     osds |-> SectionOf(s, "osdmap", NoOSDs),
     pgs |-> SectionOf(s, "pgmap", <<>>),
     unreadable |-> Unreadable(s)]

(* HealthOK and OSDs.Healthy, which the cell is green by. *)
CephHealthy(st) ==
    /\ st.health = "HEALTH_OK"
    /\ st.osds.total > 0 /\ st.osds.up = st.osds.total /\ st.osds.in = st.osds.total

-------------------------------------------------------------------------------
(* Cilium: ParseStatus. *)

NoAddresses == [used |-> 0, available |-> 0]
Counted(pool) == pool.used > 0 \/ pool.available > 0

(* sumAllocated. *)
SumAllocated(pools) ==
    LET upTo[i \in 0 .. Len(pools)] ==
            IF i = 0 THEN NoAddresses
            ELSE Pool(upTo[i - 1].used + pools[i].used, upTo[i - 1].available + pools[i].available)
    IN upTo[Len(pools)]

Consistent(text) == text.said /\ text.total >= text.used

(* Faulty variant: a family that is there decides, whatever it counts. *)
IpamByFamily(r) ==
    IF Consistent(r.text) THEN Pool(r.text.used, r.text.total - r.text.used)
    ELSE IF Counted(r.flat) THEN r.flat
    ELSE IF r.family.shape # "none" THEN r.family.pool
    ELSE Pool(r.allocations, 0)

(* ipamFrom: the line for people, the counts beside it, the object of a       *)
(* family, its pools, a list of pools, a list of addresses, the allocations;  *)
(* the first of these that says anything is taken.                            *)
IpamFrom(r) ==
    IF Consistent(r.text) THEN Pool(r.text.used, r.text.total - r.text.used)
    ELSE IF Counted(r.flat) THEN r.flat
    ELSE IF r.family.shape = "object" /\ Counted(r.family.pool) THEN r.family.pool
    ELSE IF r.family.shape \in {"object", "pools"} /\ Counted(SumAllocated(r.family.pools))
         THEN SumAllocated(r.family.pools)
    ELSE IF r.family.shape = "addresses" /\ r.family.count > 0 THEN Pool(r.family.count, 0)
    ELSE Pool(r.allocations, 0)

NoHubble == [enabled |-> FALSE, flows |-> 0]
NoControllers == [total |-> 0, failing |-> 0]

ParseCilium(s) ==
    [of |-> "cilium",
     state |-> SectionOf(s, "cilium", ""),
     kubeProxy |-> SectionOf(s, "kube-proxy-replacement", ""),
     encryption |-> SectionOf(s, "encryption", ""),
     ipam |-> IF s["ipam"].is = "readable" THEN IpamFrom(s["ipam"].v) ELSE NoAddresses,
     hubble |-> IF s["hubble"].is = "readable"
                THEN [enabled |-> s["hubble"].v.state \notin {"", "Disabled"}, flows |-> s["hubble"].v.flows]
                ELSE NoHubble,
     controllers |-> IF s["controllers"].is = "readable"
                     THEN [total |-> Len(s["controllers"].v),
                           failing |-> Len(SelectSeq(s["controllers"].v, LAMBDA fails : fails > 0))]
                     ELSE NoControllers,
     mesh |-> SectionOf(s, "cluster-mesh", <<>>),
     unreadable |-> Unreadable(s)]

-------------------------------------------------------------------------------
(* The next answer differs in one section, or is not a document. *)

Serve(name) ==
    /\ \E what \in Documents(kindOf)[name] : document' = [document EXCEPT ![name] = what]
    /\ UNCHANGED <<kindOf, garbage>>

ServeGarbage ==
    /\ garbage' = ~garbage
    /\ UNCHANGED <<kindOf, document>>

PayloadsNext == (\E name \in DOMAIN document : Serve(name)) \/ ServeGarbage

PayloadsSpec == PayloadsInit /\ [][PayloadsNext]_payloadVars

(* ParseStatus: only what is no document at all is an error. *)
ParseStatus ==
    IF garbage THEN [of |-> "error"] ELSE IF kindOf = "ceph" THEN ParseCeph(document) ELSE ParseCilium(document)

-------------------------------------------------------------------------------
(* Properties. *)

(* Whether any form a release may use says that there are addresses. *)
SaysAddresses(r) ==
    \/ Counted(r.flat)
    \/ r.family.shape = "object" /\ Counted(r.family.pool)
    \/ r.family.shape \in {"object", "pools"} /\ \E i \in DOMAIN r.family.pools : Counted(r.family.pools[i])
    \/ r.family.shape = "addresses" /\ r.family.count > 0
    \/ r.allocations > 0

(* A section that could not be read is named, costs no other section its     *)
(* reading, and is never taken for good news: Ceph is healthy only by a      *)
(* health and an OSD section that were read.  Addresses in use are never     *)
(* lost for a form that counts none (ParseStatus, ipamFrom).                 *)
NothingIsReadIntoIt ==
    LET st == ParseStatus
    IN ~garbage =>
         /\ st.unreadable = {name \in DOMAIN document : document[name].is = "misshapen"}
         /\ kindOf = "ceph" /\ CephHealthy(st) =>
              \A name \in {"health", "osdmap"} : document[name].is = "readable"
         /\ kindOf = "cilium" /\ document["ipam"].is = "readable" =>
              LET r == document["ipam"].v
              IN IF Consistent(r.text)
                 THEN st.ipam = Pool(r.text.used, r.text.total - r.text.used)
                 ELSE SaysAddresses(r) <=> Counted(st.ipam)
         /\ kindOf = "cilium" /\ "controllers" \in st.unreadable => st.controllers = NoControllers

===============================================================================
