------------------------------- MODULE Profiles -------------------------------
(***************************************************************************)
(* A site profile, found by name and layered over the profiles it extends  *)
(* (pkg/profile/load.go).                                                  *)
(*                                                                         *)
(* A document stands for one field of each kind a profile has: a scalar,   *)
(* a list, a switch, a map, a map of settings blocks, and the layout and   *)
(* patterns its validation looks at.  Files are looked up in the user's    *)
(* directories in order and then in the set built into the binary.         *)
(***************************************************************************)
EXTENDS Integers, Sequences, FiniteSets, SequencesExt, FiniteSetsExt, Functions

CONSTANTS
    Name,           \* profile names
    Place,          \* the sequence of the user's directories, then "builtin"
    Document,       \* the documents a file may hold: records with the fields of Default
    MaxExtendsDepth \* how many profiles one chain may read

(* A text that is not set. *)
Empty == ""
EmptyMap == [k \in {} |-> Empty]

(* The zero-config profile, which depends on no file. *)
Default ==
    [name |-> "metal3", extends |-> Empty, context |-> Empty, namespaces |-> {"kube-system"},
     all |-> FALSE, display |-> EmptyMap, plugins |-> EmptyMap, pattern |-> Empty,
     workloads |-> {}, row |-> <<"overview">>, grid |-> <<"machines", "pods">>, stack |-> EmptyMap]

(* A document has every field, set or not. *)
ASSUME ProfilesAssumption ==
    /\ MaxExtendsDepth \in Nat \ {0}
    /\ Place \in Seq(ToSet(Place))
    /\ \A d \in Document :
         DOMAIN d = DOMAIN Default /\ d.extends \in Name \cup {Empty} /\ d.all \in BOOLEAN

VARIABLES
    files,      \* Place and name -> [is: "file", doc], or [is: "absent", "unreadable", "malformed"]
    asked,      \* the name --profile gives; Empty when none
    chain,      \* the names visited, the child first
    layers,     \* what was parsed from them
    loading,    \* "idle", "reading", "merging", "done"
    loaded,     \* the profile layered so far
    failure     \* why there is none; Empty when nothing failed

profileVars == <<files, asked, chain, layers, loading, loaded, failure>>

NoProfile == [none |-> TRUE]
Where == {Place[i] : i \in DOMAIN Place}

-------------------------------------------------------------------------------
(* Layering. *)

Over(child, parent, unset) == IF child # unset THEN child ELSE parent

(* mergeStringMap and its kin: key by key, the child's value first. *)
MergeMap(parent, child) ==
    [k \in DOMAIN parent \cup DOMAIN child |-> IF k \in DOMAIN child THEN child[k] ELSE parent[k]]

(* Faulty variant: a child's settings block replaces its parent's. *)
MergeSettingsWhole(parent, child) == MergeMap(parent, child)

(* mergeSettings: a block both have is itself merged key by key. *)
MergeSettings(parent, child) ==
    [k \in DOMAIN parent \cup DOMAIN child |->
        IF k \in DOMAIN parent \cap DOMAIN child THEN MergeMap(parent[k], child[k])
        ELSE IF k \in DOMAIN child THEN child[k] ELSE parent[k]]

(* Merge: scalars override when set, lists replace, maps merge; a switch an  *)
(* ancestor turned on cannot be turned off.                                  *)
Merge(parent, child) ==
    [name |-> child.name,
     extends |-> child.extends,
     context |-> Over(child.context, parent.context, Empty),
     pattern |-> Over(child.pattern, parent.pattern, Empty),
     namespaces |-> Over(child.namespaces, parent.namespaces, {}),
     workloads |-> Over(child.workloads, parent.workloads, {}),
     all |-> parent.all \/ child.all,
     display |-> MergeMap(parent.display, child.display),
     plugins |-> MergeSettings(parent.plugins, child.plugins),
     row |-> Over(child.row, parent.row, <<>>),
     grid |-> Over(child.grid, parent.grid, <<>>),
     stack |-> MergeMap(parent.stack, child.stack)]

-------------------------------------------------------------------------------
(* Validation: every problem at once. *)

(* validateLayout: a pane placed twice, or stacked on nothing, on itself, or *)
(* on a pane the layout does not place.                                      *)
LayoutProblems(p) ==
    LET panes == p.row \o p.grid
    IN {<<"twice", panes[i]>> : i \in {i \in DOMAIN panes : \E j \in 1 .. i - 1 : panes[j] = panes[i]}}
       \cup {<<"stack", k>> : k \in {k \in DOMAIN p.stack :
                p.stack[k] \in {Empty, k} \/ p.stack[k] \notin ToSet(panes)}}

Problems(p) ==
    (IF p.name = Empty THEN {<<"name">>} ELSE {})
    \cup (IF Empty \in p.namespaces THEN {<<"prefix">>} ELSE {})
    \cup {<<"workload", w>> : w \in {w \in p.workloads : w = Empty}}
    \cup (IF p.pattern = "(" THEN {<<"pattern">>} ELSE {})
    \cup LayoutProblems(p)

-------------------------------------------------------------------------------
(* Finding. *)

(* read: the first place that has the file; one that is there and cannot be *)
(* read is an error, never passed over.                                      *)
Found(name) ==
    LET there == {i \in DOMAIN Place : files[<<Place[i], name>>].is # "absent"}
    IN IF there = {} THEN [is |-> "unknown"] ELSE files[<<Place[Min(there)], name>>]

(* Available: what can be named, a shadowed built-in once. *)
Available == {n \in Name : \E w \in Where : files[<<w, n>>].is # "absent"}

ProfilesInit ==
    /\ files \in [Where \X Name -> [is : {"file"}, doc : Document]
                                  \cup [is : {"absent", "unreadable", "malformed"}]]
    /\ asked \in Name \cup {Empty}
    /\ chain = <<>> /\ layers = <<>>
    /\ loading = "idle"
    /\ loaded = NoProfile
    /\ failure = Empty

Fail(why) ==
    /\ failure' = why
    /\ loading' = "done"
    /\ UNCHANGED <<files, asked, chain, layers, loaded>>

(* Load: no name needs no file. *)
Load ==
    /\ loading = "idle"
    /\ IF asked = Empty
       THEN /\ loaded' = Default
            /\ loading' = "done"
            /\ UNCHANGED <<files, asked, chain, layers, failure>>
       ELSE /\ loading' = "reading"
            /\ chain' = <<asked>>
            /\ UNCHANGED <<files, asked, layers, loaded, failure>>

(* load: one profile of the chain is read and parsed; what it extends is     *)
(* visited next, unless the chain has been there or is too long.             *)
Visit ==
    /\ loading = "reading"
    /\ LET name == Last(chain)
           found == Found(name)
       IN IF name \in ToSet(Front(chain)) \/ Len(chain) > MaxExtendsDepth
          THEN Fail("cycle")
          ELSE IF found.is # "file" THEN Fail(found.is)
          ELSE LET child == [found.doc EXCEPT !.name = IF @ = Empty THEN name ELSE @]
               IN /\ layers' = Append(layers, child)
                  /\ IF child.extends = Empty
                     THEN loading' = "merging" /\ loaded' = child /\ UNCHANGED chain
                     ELSE chain' = Append(chain, child.extends) /\ UNCHANGED <<loading, loaded>>
                  /\ UNCHANGED <<files, asked, failure>>

(* The chain returns: each child is merged over what came back from below;  *)
(* the profile asked for is then validated, its ancestors are not.           *)
Unwind ==
    /\ loading = "merging"
    /\ LET rest == Len(layers) - 1
       IN IF rest = 0
          THEN IF Problems(loaded) # {}
               THEN /\ failure' = "invalid" /\ loading' = "done" /\ loaded' = NoProfile
                    /\ UNCHANGED <<files, asked, chain, layers>>
               ELSE /\ loading' = "done"
                    /\ UNCHANGED <<files, asked, chain, layers, loaded, failure>>
          ELSE /\ loaded' = Merge(loaded, layers[rest])
               /\ layers' = SubSeq(layers, 1, rest)
               /\ UNCHANGED <<files, asked, chain, loading, failure>>

ProfilesNext == Load \/ Visit \/ Unwind

ProfilesSpec == ProfilesInit /\ [][ProfilesNext]_profileVars

-------------------------------------------------------------------------------
(* Properties. *)

(* The documents of the chain, the child first, whatever layering does. *)
Read == [i \in DOMAIN chain |-> Found(chain[i]).doc]

SetBy(value(_), unset, got) ==
    LET setting == {i \in DOMAIN chain : value(Read[i]) # unset}
    IN got = IF setting = {} THEN unset ELSE value(Read[Min(setting)])

KeyByKey(map(_), got) ==
    /\ DOMAIN got = UNION {DOMAIN map(Read[i]) : i \in DOMAIN chain}
    /\ \A k \in DOMAIN got :
         got[k] = map(Read[Min({i \in DOMAIN chain : k \in DOMAIN map(Read[i])})])[k]

(* A profile that loads takes every field from the nearest profile of its    *)
(* chain that sets it, each key of a map and each setting of a block on its  *)
(* own; it is usable as a whole; and no file of the chain that could not be  *)
(* read is hidden by another copy or an ancestor (Loader.Load, Merge).       *)
ProfileIsLayered ==
    loading = "done" /\ failure = Empty /\ asked # Empty =>
        /\ \A i \in DOMAIN chain : Found(chain[i]).is = "file"
        /\ IsInjective(chain)
        /\ SetBy(LAMBDA d : d.context, Empty, loaded.context)
        /\ SetBy(LAMBDA d : d.namespaces, {}, loaded.namespaces)
        /\ SetBy(LAMBDA d : d.grid, <<>>, loaded.grid)
        /\ KeyByKey(LAMBDA d : d.display, loaded.display)
        /\ \A b \in UNION {DOMAIN Read[i].plugins : i \in DOMAIN chain} :
             /\ b \in DOMAIN loaded.plugins
             /\ KeyByKey(LAMBDA d : IF b \in DOMAIN d.plugins THEN d.plugins[b] ELSE EmptyMap,
                         loaded.plugins[b])
        /\ loaded.all <=> \E i \in DOMAIN chain : Read[i].all
        /\ Problems(loaded) = {}

(* A name --list-profiles shows is never unknown when it is asked for. *)
ListedIsKnown == failure = "unknown" => Last(chain) \notin Available

===============================================================================
