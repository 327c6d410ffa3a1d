----------------------------- MODULE PluginProofs -----------------------------
(***************************************************************************)
(* Proofs about the modules of sextant against a kubeconfig: the verdicts  *)
(* of the plugins that exec, for every set of pods, databases and bounds,  *)
(* and the start, for every kubeconfig, profile and registry of plugins;   *)
(* and the two keys of the poll of the cloud, which agree.                 *)
(***************************************************************************)
EXTENDS ExecPlugin, Launch, Payloads, Profiles, OpenStackPoll, Counting

-------------------------------------------------------------------------------
(* Numbers and sequences.  A recursive function is reasoned about by         *)
(* induction, with the numbers a formula holds of put together as a set.     *)

(* The second of two sequences put together. *)
LEMMA Suffix ==
    ASSUME NEW S, NEW s \in Seq(S), NEW t \in Seq(S)
    PROVE  SubSeq(s \o t, Len(s) + 1, Len(s \o t)) = t /\ Len(s \o t) - Len(s) = Len(t)
<1>1. /\ Len(s) \in Nat /\ Len(t) \in Nat /\ Len(s \o t) = Len(s) + Len(t)
      /\ \A i \in 1 .. Len(t) : (s \o t)[Len(s) + i] = t[i]
  OBVIOUS
<1>2. SubSeq(s \o t, Len(s) + 1, Len(s \o t)) = [i \in 1 .. Len(t) |-> (s \o t)[Len(s) + 1 + i - 1]]
  BY <1>1
<1>3. \A i \in 1 .. Len(t) : Len(s) + 1 + i - 1 = Len(s) + i
  BY <1>1
<1>4. t = [i \in 1 .. Len(t) |-> t[i]]
  OBVIOUS
<1> QED BY <1>1, <1>2, <1>3, <1>4

(* An element of two sequences put together is one of theirs. *)
LEMMA InEitherPart ==
    ASSUME NEW S, NEW s \in Seq(S), NEW t \in Seq(S), NEW i \in DOMAIN (s \o t)
    PROVE  \/ i \in DOMAIN s /\ (s \o t)[i] = s[i]
           \/ i - Len(s) \in DOMAIN t /\ (s \o t)[i] = t[i - Len(s)]
OBVIOUS

(* Two sequences put together hold what each of them holds. *)
LEMMA EachPartIsIn ==
    ASSUME NEW S, NEW s \in Seq(S), NEW t \in Seq(S)
    PROVE  ToSet(s \o t) = ToSet(s) \cup ToSet(t)
<1>1. \A i \in DOMAIN s : i \in DOMAIN (s \o t) /\ (s \o t)[i] = s[i]
  OBVIOUS
<1>2. \A i \in DOMAIN t : Len(s) + i \in DOMAIN (s \o t) /\ (s \o t)[Len(s) + i] = t[i]
  OBVIOUS
<1>3. \A i \in DOMAIN (s \o t) : (s \o t)[i] \in ToSet(s) \cup ToSet(t)
  BY InEitherPart DEF ToSet
<1> HIDE DEF ToSet
<1>4. ToSet(s) \subseteq ToSet(s \o t)
  BY <1>1 DEF ToSet
<1>5. ToSet(t) \subseteq ToSet(s \o t)
  BY <1>2 DEF ToSet
<1>6. ToSet(s \o t) \subseteq ToSet(s) \cup ToSet(t)
  BY <1>3 DEF ToSet
<1> QED BY <1>4, <1>5, <1>6

(* Rows with distinct keys are as many as their sequence is long. *)
LEMMA CountedOnce ==
    ASSUME NEW S, NEW s \in Seq(S), \A i, j \in DOMAIN s : s[i].key = s[j].key => i = j
    PROVE  Cardinality(ToSet(s)) = Len(s)
<1>1. Len(s) \in Nat /\ DOMAIN s = 1 .. Len(s)
  OBVIOUS
<1>2. s \in Bijection(1 .. Len(s), ToSet(s))
  BY <1>1 DEF Bijection, Injection, Surjection, IsInjective, ToSet
<1> QED BY <1>1, <1>2, FS_CountingElements DEF ExistsBijection

-------------------------------------------------------------------------------
(* ExecPlugin: the verdicts on OVN.                                        *)

(* A row whose pod leads is about members that were gone, and it knows of    *)
(* itself as the leader.                                                     *)
LeaderKnows(row) == row.leads => row.led /\ row.quiet = row.gone

SoundRow == {row \in Row : LeaderKnows(row)}

(* What is kept of an answer, in the query under way, in the poll under way  *)
(* and in the store, is sound; and a published state has a poll's shape.     *)
RowsAreSound ==
    /\ query = [left |-> query.left, pod |-> query.pod, tried |-> query.tried, heard |-> query.heard]
    /\ query.heard \in SoundRow
    /\ rows \in Seq(SoundRow)
    /\ published.rows \in Seq(SoundRow)

(* A query that failed claims nothing of its leader.                         *)
LEMMA FailuresAreSound ==
    ASSUME NEW err \in {"none", "failed", "denied", "unreadable"}
    PROVE  Failure(err) \in SoundRow
BY DEF Failure, SoundRow, Row, LeaderKnows

(* Whatever pod is asked, and whoever leads then, what it says is sound. *)
LEMMA AnswersAreSound == ASSUME NEW p, NEW q PROVE Answers(p, q) \subseteq SoundRow
<1>1. CASE q \in Databases
  <2> DEFINE gone == \E m \in Members[q] : status[m] = "out"
             Says(leads, led, quiet) ==
                 [err |-> "none", health |-> "ok", leads |-> leads, led |-> led,
                  quiet |-> quiet, gone |-> gone]
  <2>1. gone \in BOOLEAN
    OBVIOUS
  <2> HIDE DEF gone
  <2>2. Says(TRUE, TRUE, gone) \in SoundRow
    BY <2>1 DEF SoundRow, Row, LeaderKnows
  <2>3. \A led \in BOOLEAN : Says(FALSE, led, TRUE) \in SoundRow
    BY <2>1 DEF SoundRow, Row, LeaderKnows
  <2>4. Answers(p, q) = IF leader[q] = p THEN {Says(TRUE, TRUE, gone)}
                                        ELSE {Says(FALSE, led, TRUE) : led \in BOOLEAN}
    BY <1>1 DEF Answers, gone
  <2> HIDE DEF Says
  <2> QED BY <2>2, <2>3, <2>4
<1>2. CASE q \notin Databases
  <2>1. \A h \in {"ok", "warn", "err"} : [Failure("none") EXCEPT !.health = h] \in SoundRow
    BY DEF Failure, SoundRow, Row, LeaderKnows
  <2> QED BY <1>2, <2>1, FailuresAreSound DEF Answers
<1> QED BY <1>1, <1>2

(* A poll that ends with a sound row has only sound rows.                    *)
LEMMA DoneIsSound ==
    ASSUME RowsAreSound, NEW row \in SoundRow, Done(row), UNCHANGED published
    PROVE  RowsAreSound'
BY FailuresAreSound DEF RowsAreSound, Done, NoQuery

(* Every step keeps the rows sound.                                          *)
LEMMA RowsAreSoundStep == RowsAreSound /\ [Next]_vars => RowsAreSound'
<1> SUFFICES ASSUME RowsAreSound, [Next]_vars
             PROVE  RowsAreSound'
  OBVIOUS
<1>1. CASE WorldChanges
  BY <1>1 DEF WorldChanges, RowsAreSound
<1>2. CASE Detect
  BY <1>2 DEF Detect, CephDetect, CiliumDetect, OvnDetect, RowsAreSound
<1>3. CASE Tick
  <2>1. published'.rows = <<>> \/ published' = published
    BY <1>3 DEF Tick
  <2>2. <<>> \in Seq(SoundRow)
    OBVIOUS
  <2>3. published'.rows \in Seq(SoundRow)
    BY <2>1, <2>2 DEF RowsAreSound
  <2> QED BY <1>3, <2>3 DEF Tick, RowsAreSound
<1>4. CASE NextQuery
  <2>1. ASSUME NEW new, new.rows \in Seq(SoundRow), Publish(new)
        PROVE  RowsAreSound'
    BY <2>1, FailuresAreSound DEF RowsAreSound, Publish, NoQuery
  <2>2. ASSUME NEW ready PROVE /\ CephState(rows).rows = rows
                               /\ CiliumState(rows, ready).rows = rows
                               /\ OvnState(rows).rows = rows
    BY DEF CephState, CiliumState, OvnState
  <2>3. CASE Len(rows) = Len(Queries)
    BY <1>4, <2>1, <2>2, <2>3 DEF NextQuery, RowsAreSound
  <2>4. CASE Len(rows) # Len(Queries)
    <3> DEFINE found == PodCandidates(Queries[Len(rows) + 1])
    <3>1. CASE found = <<>>
      <4>1. rows' = Append(rows, Failure("failed")) /\ UNCHANGED <<query, published>>
        BY <1>4, <2>4, <3>1 DEF NextQuery
      <4> QED BY <4>1, FailuresAreSound DEF RowsAreSound
    <3>2. CASE found # <<>>
      <4>1. /\ query' = [NoQuery EXCEPT !.pod = Head(found), !.left = Tail(found), !.tried = 1]
            /\ UNCHANGED <<rows, published>>
        BY <1>4, <2>4, <3>2 DEF NextQuery
      <4> HIDE DEF found
      <4> QED BY <4>1, FailuresAreSound DEF RowsAreSound, NoQuery
    <3> QED BY <3>1, <3>2
  <2> QED BY <2>3, <2>4
<1>5. CASE ExecFirstOf
  <2>1. CASE Done(Failure("denied")) \/ Done(Failure("failed"))
    BY <1>5, <2>1, FailuresAreSound, DoneIsSound DEF ExecFirstOf
  <2>2. CASE GoesOn
    BY <1>5, <2>2 DEF ExecFirstOf, GoesOn, RowsAreSound
  <2>3. ASSUME NEW row \in Answers(query.pod, "main"), Done(row)
        PROVE  RowsAreSound'
    BY <1>5, <2>3, AnswersAreSound, DoneIsSound DEF ExecFirstOf
  <2>4. ASSUME NEW row \in Answers(query.pod, "main"),
               query' = [query EXCEPT !.heard = row], UNCHANGED rows
        PROVE  RowsAreSound'
    BY <1>5, <2>4, AnswersAreSound DEF ExecFirstOf, RowsAreSound
  <2> QED BY <1>5, <2>1, <2>2, <2>3, <2>4 DEF ExecFirstOf
<1>6. CASE QueryDatabase
  <2> DEFINE q == Queries[Len(rows) + 1]
  <2>1. CASE Done(Failure("denied")) \/ Done(Failure("failed"))
    BY <1>6, <2>1, FailuresAreSound, DoneIsSound DEF QueryDatabase
  <2>2. CASE GoesOn
    BY <1>6, <2>2 DEF QueryDatabase, GoesOn, RowsAreSound
  <2>3. ASSUME NEW row \in Answers(query.pod, q), Done(row)
        PROVE  RowsAreSound'
    BY <1>6, <2>3, AnswersAreSound, DoneIsSound DEF QueryDatabase
  <2>4. ASSUME NEW row \in Answers(query.pod, q), NEW p,
               query' = [query EXCEPT !.heard = row, !.pod = p], UNCHANGED rows
        PROVE  RowsAreSound'
    BY <1>6, <2>4, AnswersAreSound DEF QueryDatabase, RowsAreSound
  <2> QED BY <1>6, <2>1, <2>2, <2>3, <2>4 DEF QueryDatabase
<1>7. CASE ActiveMgrName
  BY <1>7, DoneIsSound DEF ActiveMgrName, RowsAreSound
<1>8. CASE AskLeader
  <2>1. CASE Done(query.heard)
    BY <1>8, <2>1, DoneIsSound DEF AskLeader, RowsAreSound
  <2>2. ASSUME NEW row \in Answers(query.pod, Queries[Len(rows) + 1]), row.leads, Done(row)
        PROVE  RowsAreSound'
    BY <1>8, <2>2, AnswersAreSound, DoneIsSound DEF AskLeader
  <2> QED BY <1>8, <2>1, <2>2 DEF AskLeader
<1>9. CASE UNCHANGED vars
  BY <1>9 DEF vars, world, RowsAreSound
<1> QED BY <1>1, <1>2, <1>3, <1>4, <1>5, <1>6, <1>7, <1>8, <1>9 DEF Next

(* Of sound rows the banner raises no false alarm and gives no false         *)
(* all-clear.                                                                *)
LEMMA SoundVerdict == RowsAreSound => VerdictIsChecked
<1> SUFFICES ASSUME RowsAreSound, kind = "ovn"
             PROVE  VerdictIsChecked
  BY DEF VerdictIsChecked, AlarmIsTheLeaders, OkWasChecked
<1>1. \A i \in DOMAIN published.rows : LeaderKnows(published.rows[i]) /\ published.rows[i] \in Row
  BY DEF RowsAreSound, SoundRow
<1>2. AlarmIsTheLeaders
  BY <1>1 DEF AlarmIsTheLeaders, OvnCell, Some, StaleServers, Plain, LeaderKnows
<1>3. OkWasChecked
  BY <1>1 DEF OkWasChecked, OvnCell, Some, StaleServers, Plain, LeaderKnows, Row
<1> QED BY <1>2, <1>3 DEF VerdictIsChecked

(* No OVN member is called stale on a follower's word, and no OK goes without *)
(* its note unless each database was read whole from its leader, for any     *)
(* pods, members of the databases and bounds (OvnCell, StaleServers).        *)
THEOREM ChecksItsVerdicts == Spec => []VerdictIsChecked
<1>1. Init => RowsAreSound
  BY FailuresAreSound DEF Init, RowsAreSound, NoQuery, NotPublished
<1> QED BY <1>1, RowsAreSoundStep, SoundVerdict, PTL DEF Spec

-------------------------------------------------------------------------------
(* Launch: what sextant starts with. *)

(* PluginRows is what its recursive definition says: each plugin's row is    *)
(* added to the rows before it.                                              *)
LEMMA PluginRowsAre ==
    ASSUME NEW held
    PROVE  \E f : /\ f[0] = <<>>
                  /\ \A n \in Nat : n + 1 <= Len(PluginKeys) =>
                       f[n + 1] = IF held[PluginKeys[n + 1]] = "nothing" THEN f[n]
                                  ELSE Append(f[n], PluginRow(PluginKeys[n + 1], held))
                  /\ PluginRows(held) = f[Len(PluginKeys)]
<1> DEFINE Step(i, prev) ==
             IF i = 0 THEN <<>>
             ELSE IF held[PluginKeys[i]] = "nothing" THEN prev
             ELSE Append(prev, PluginRow(PluginKeys[i], held))
           N == Len(PluginKeys)
           S == {n \in Nat : \E f : f = [i \in 0 .. n |-> Step(i, f[i - 1])]}
<1>0. N \in Nat
  BY LaunchAssumption
<1>1. 0 \in S
  <2>1. [i \in 0 .. 0 |-> <<>>] = [i \in 0 .. 0 |-> Step(i, [j \in 0 .. 0 |-> <<>>][i - 1])]
    OBVIOUS
  <2> QED BY <2>1
<1>2. ASSUME NEW n \in S PROVE n + 1 \in S
  <2> HIDE DEF Step
  <2>1. PICK f : f = [i \in 0 .. n |-> Step(i, f[i - 1])]
    BY <1>2
  <2> DEFINE g == [i \in 0 .. n + 1 |-> IF i = n + 1 THEN Step(n + 1, f[n]) ELSE f[i]]
  <2>2. \A i \in 0 .. n + 1 : i - 1 \in 0 .. n => g[i - 1] = f[i - 1]
    OBVIOUS
  <2>3. \A x, y : Step(0, x) = Step(0, y)
    BY DEF Step
  <2>4. ASSUME NEW i \in 0 .. n + 1 PROVE g[i] = Step(i, g[i - 1])
    <3>1. CASE i = n + 1
      BY <3>1, <2>2
    <3>2. CASE i = 0
      BY <3>2, <2>1, <2>3
    <3>3. CASE i \in 1 .. n
      BY <3>3, <2>1, <2>2
    <3> QED BY <3>1, <3>2, <3>3
  <2>5. g = [i \in 0 .. n + 1 |-> Step(i, g[i - 1])]
    BY <2>4
  <2>6. \E h : h = [i \in 0 .. n + 1 |-> Step(i, h[i - 1])]
    <3> HIDE DEF g
    <3> QED BY <2>5
  <2> QED BY <2>6
<1>3. N \in S
  <2> HIDE DEF S, N
  <2> QED BY <1>0, <1>1, <1>2, Induct DEF S
<1> DEFINE upTo[i \in 0 .. Len(PluginKeys)] ==
             IF i = 0 THEN <<>>
             ELSE IF held[PluginKeys[i]] = "nothing" THEN upTo[i - 1]
             ELSE Append(upTo[i - 1], PluginRow(PluginKeys[i], held))
<1>4. upTo = [i \in 0 .. N |-> Step(i, upTo[i - 1])]
  BY <1>3
<1>5. PluginRows(held) = upTo[N]
  BY DEF PluginRows
<1> HIDE DEF upTo
<1>8. \A i \in 0 .. N : upTo[i] = Step(i, upTo[i - 1])
  <2> HIDE DEF Step, N
  <2> QED BY <1>4
<1>6. upTo[0] = <<>>
  BY <1>0, <1>4
<1>7. ASSUME NEW n \in Nat, n + 1 <= N
      PROVE  upTo[n + 1] = IF held[PluginKeys[n + 1]] = "nothing" THEN upTo[n]
                           ELSE Append(upTo[n], PluginRow(PluginKeys[n + 1], held))
  <2>1. n + 1 \in 0 .. N /\ n + 1 # 0 /\ n + 1 - 1 = n
    BY <1>0, <1>7
  <2>2. upTo[n + 1] = Step(n + 1, upTo[n + 1 - 1])
    BY <1>8, <2>1
  <2> QED BY <2>1, <2>2
<1> QED BY <1>5, <1>6, <1>7

(* Any set of contexts can be put in order of their names. *)
LEMMA ByNameWorks ==
    ASSUME NEW found \in SUBSET Context
    PROVE  ByName(found) \in [1 .. Cardinality(found) -> found] /\ Cardinality(found) \in Nat
<1> DEFINE N == Cardinality(found)
           rank == [c \in found |-> Cardinality({d \in found : d <= c})]
<1>1. IsFiniteSet(found) /\ N \in Nat /\ found \subseteq Nat
  BY LaunchAssumption, FS_Subset, FS_CardinalityType
<1>2. ASSUME NEW c \in found
      PROVE  /\ IsFiniteSet({d \in found : d <= c})
             /\ rank[c] \in 1 .. N
  <2>1. /\ IsFiniteSet({d \in found : d <= c})
        /\ Cardinality({d \in found : d <= c}) \in Nat
        /\ Cardinality({d \in found : d <= c}) <= N
    BY <1>1, FS_Subset, FS_CardinalityType
  <2>2. c \in {d \in found : d <= c}
    BY <1>1
  <2>3. Cardinality({d \in found : d <= c}) # 0
    BY <2>1, <2>2, FS_EmptySet
  <2> QED BY <2>1, <2>3
<1>3. ASSUME NEW b \in found, NEW c \in found, b < c
      PROVE  rank[b] < rank[c]
  <2>1. /\ {d \in found : d <= b} \subseteq {d \in found : d <= c}
        /\ c \in {d \in found : d <= c} /\ c \notin {d \in found : d <= b}
    <3>1. b \in Nat /\ c \in Nat /\ \A d \in found : d \in Nat
      BY <1>1
    <3>2. \A d \in found : d <= b => d <= c
      BY <3>1, <1>3
    <3>3. c <= c /\ ~(c <= b)
      BY <3>1, <1>3
    <3> QED BY <3>2, <3>3
  <2>2. /\ Cardinality({d \in found : d <= b}) <= Cardinality({d \in found : d <= c})
        /\ Cardinality({d \in found : d <= b}) # Cardinality({d \in found : d <= c})
    BY <1>2, <2>1, FS_Subset
  <2> QED BY <1>2, <2>2
<1> HIDE DEF rank, N
<1>4. rank \in Injection(found, 1 .. N)
  <2>1. rank \in [found -> 1 .. N]
    BY <1>2 DEF rank
  <2>2. \A b, c \in found : rank[b] = rank[c] => b = c
    <3> SUFFICES ASSUME NEW b \in found, NEW c \in found, rank[b] = rank[c], b # c PROVE FALSE
      OBVIOUS
    <3>1. b < c \/ c < b
      BY <1>1
    <3>2. rank[b] < rank[c] \/ rank[c] < rank[b]
      BY <1>3, <3>1
    <3>3. rank[b] \in 1 .. N /\ rank[c] \in 1 .. N
      BY <1>2
    <3> QED BY <1>1, <3>2, <3>3
  <2> QED BY <2>1, <2>2 DEF Injection, IsInjective
<1>5. rank \in Surjection(found, 1 .. N)
  <2>1. IsFiniteSet(1 .. N) /\ Cardinality(1 .. N) = N
    BY <1>1, FS_Interval
  <2> QED BY <1>4, <2>1, FS_Injection DEF N
<1> DEFINE sorted == [i \in 1 .. N |-> CHOOSE c \in found : rank[c] = i]
<1>6. \A i \in 1 .. N : sorted[i] \in found /\ rank[sorted[i]] = i
  BY <1>5 DEF Surjection
<1> HIDE DEF sorted
<1>7. sorted \in [1 .. N -> found]
  BY <1>6 DEF sorted
<1>8. \A i, j \in DOMAIN sorted : i < j => sorted[i] < sorted[j]
  <2> SUFFICES ASSUME NEW i \in 1 .. N, NEW j \in 1 .. N, i < j, ~(sorted[i] < sorted[j])
               PROVE  FALSE
    BY <1>7
  <2>1. sorted[i] \in Nat /\ sorted[j] \in Nat
    BY <1>1, <1>6
  <2>2. sorted[i] = sorted[j] \/ sorted[j] < sorted[i]
    BY <2>1
  <2>3. sorted[j] < sorted[i] => rank[sorted[j]] < rank[sorted[i]]
    BY <1>3, <1>6
  <2>4. i \in Nat /\ j \in Nat
    BY <1>1
  <2> QED BY <1>6, <2>2, <2>3, <2>4
<1> QED BY <1>1, <1>7, <1>8 DEF ByName, N

Probed == [probed : {TRUE}, active : BOOLEAN, err : BOOLEAN]
Roles == {"management", "workload"}
Started == {"watch", "detect", "warming", "up"}
Resolving == {"management", "workload", "asking"} \cup Started

(* What is known of the start before it has contexts. *)
Prepared ==
    /\ stage = "layer" => flags \in Settings
    /\ (stage \in {"load"} \cup Resolving \/ humans # {}) =>
         /\ \A k \in DOMAIN Blank : config[k] = Given(k)
         /\ mode \in {"server", "dashboard", "snapshot", "dry-run"}
         /\ mode # "server" => config["server"] = ""
    /\ (stage \in Resolving \/ humans # {}) => config.theme # "wrong" /\ site # BadSite
    /\ stage \in {"parse", "layer", "theme", "load"} => humans = {}
    /\ stage \in Resolving /\ mode = "server" => stage = "up"
    /\ stage \in Resolving /\ mode # "server" => kube \in Kubeconfig
    /\ "prompt" \in humans => mode # "server"

ChosenWell(role) == choice[role] \in kube.known \cap Wanted(role)

Offered(role) == \A i \in DOMAIN question.among : question.among[i] \in kube.known \cap Wanted(role)

(* Roles are given contexts in their order, each one that was wanted. *)
ContextsChosen ==
    /\ DOMAIN choice = Roles
    /\ mode # "server" =>
         /\ stage \in {"workload"} \cup Started => ChosenWell("management")
         /\ stage \in Started => ChosenWell("workload")
    /\ stage = "asking" =>
         /\ question.role \in Roles
         /\ question.role = "workload" => ChosenWell("management")
         /\ \A role \in Roles : question.role = role => Offered(role)
         /\ question = [role |-> question.role, among |-> question.among, left |-> question.left]
         /\ question.among \in Seq(Nat)

(* What runs goes with the stage and with what detection recorded. *)
RunningFollows ==
    /\ answers \in [Plugins -> {Unprobed} \cup Probed]
    /\ registry \in [Plugins -> {Unprobed} \cup Probed]
    /\ \A p \in Plugins : registry[p].probed => registry[p] = answers[p]
    /\ stage \notin {"detect", "warming", "up"} => running = {}
    /\ stage \in {"detect", "warming"} => mode \in {"dashboard", "snapshot"}
    /\ stage = "detect" => running = Roles
    /\ stage = "up" /\ mode = "server" => running = {"fleet"}
    /\ stage \in {"warming", "up"} /\ mode # "server" =>
         /\ mode \in {"dashboard", "snapshot"}
         /\ \A p \in Plugins : registry[p].probed
         /\ running = Roles \cup Active
    /\ outcome # "" => stage = "ended"

(* The report has been written, or there is none. *)
Reported == (report # <<>> => stage = "ended") /\ ReportTellsAll

LaunchInv == Prepared /\ ContextsChosen /\ RunningFollows /\ Reported

(* The rows s are those of the first n keys that hold something. *)
RowsTell(s, n, held) ==
    /\ s \in Seq({PluginRow(k, held) : k \in Plugins})
    /\ \A m \in DOMAIN s : \E i \in 1 .. n :
          held[PluginKeys[i]] # "nothing" /\ s[m] = PluginRow(PluginKeys[i], held)
    /\ \A i \in 1 .. n : held[PluginKeys[i]] # "nothing" =>
          \E m \in DOMAIN s : s[m] = PluginRow(PluginKeys[i], held)
    /\ \A l, m \in DOMAIN s : s[l].key = s[m].key => l = m

(* Every plugin has one part of pluginRows, and a row has its key. *)
LEMMA KeysAreDistinct ==
    /\ Len(PluginKeys) \in Nat /\ DOMAIN PluginKeys = 1 .. Len(PluginKeys)
    /\ \A i \in 1 .. Len(PluginKeys) : PluginKeys[i] \in Plugins
    /\ \A i, j \in 1 .. Len(PluginKeys) : PluginKeys[i] = PluginKeys[j] => i = j
    /\ \A k \in Plugins : \E i \in 1 .. Len(PluginKeys) : PluginKeys[i] = k
    /\ \A k, held : PluginRow(k, held).key = k
<1>1. PluginKeys \in Seq(Plugins)
  BY LaunchAssumption
<1>2. Plugins = {PluginKeys[i] : i \in DOMAIN PluginKeys}
  BY LaunchAssumption DEF ToSet
<1>3. \A i, j \in DOMAIN PluginKeys : PluginKeys[i] = PluginKeys[j] => i = j
  BY LaunchAssumption DEF IsInjective
<1>4. \A k, held : PluginRow(k, held).key = k
  BY DEF PluginRow
<1>5. Len(PluginKeys) \in Nat /\ DOMAIN PluginKeys = 1 .. Len(PluginKeys)
  BY <1>1
<1> QED BY <1>1, <1>2, <1>3, <1>4, <1>5

(* One more part of pluginRows keeps the rows those of the keys so far. *)
LEMMA NextRowTells ==
    ASSUME NEW held, NEW n \in Nat, n + 1 <= Len(PluginKeys), NEW s, RowsTell(s, n, held)
    PROVE  RowsTell(IF held[PluginKeys[n + 1]] = "nothing" THEN s
                    ELSE Append(s, PluginRow(PluginKeys[n + 1], held)), n + 1, held)
<1> DEFINE key == PluginKeys[n + 1]
           row == PluginRow(key, held)
           t == Append(s, row)
           R == {PluginRow(k, held) : k \in Plugins}
<1>1. /\ 1 .. n + 1 = (1 .. n) \cup {n + 1} /\ n + 1 \in 1 .. Len(PluginKeys)
      /\ \A i \in 1 .. n : i \in 1 .. Len(PluginKeys) /\ i # n + 1
  BY KeysAreDistinct
<1>2. CASE held[key] = "nothing"
  BY <1>1, <1>2 DEF RowsTell
<1>3. CASE held[key] # "nothing"
  <2>1. s \in Seq(R) /\ row \in R
    BY <1>1, KeysAreDistinct DEF RowsTell
  <2> HIDE DEF R, row
  <2>2. /\ t \in Seq(R) /\ Len(s) \in Nat
        /\ DOMAIN s = 1 .. Len(s) /\ DOMAIN t = DOMAIN s \cup {Len(s) + 1}
        /\ \A m \in DOMAIN s : t[m] = s[m]
        /\ t[Len(s) + 1] = row
    BY <2>1
  <2> HIDE DEF t, key
  <2>3. row.key = key
    BY KeysAreDistinct DEF row
  <2>4. \A m \in DOMAIN s : s[m].key # key
    BY <1>1, KeysAreDistinct DEF RowsTell, key
  <2>5. \A m \in DOMAIN t : \E i \in 1 .. n + 1 :
           held[PluginKeys[i]] # "nothing" /\ t[m] = PluginRow(PluginKeys[i], held)
    BY <1>1, <1>3, <2>2 DEF RowsTell, row, key
  <2>6. \A i \in 1 .. n + 1 : held[PluginKeys[i]] # "nothing" =>
           \E m \in DOMAIN t : t[m] = PluginRow(PluginKeys[i], held)
    BY <1>1, <2>2 DEF RowsTell, row, key
  <2>7. \A l, m \in DOMAIN t : t[l].key = t[m].key => l = m
    BY <2>2, <2>3, <2>4 DEF RowsTell
  <2>8. RowsTell(t, n + 1, held)
    BY <2>2, <2>5, <2>6, <2>7 DEF RowsTell, R
  <2> QED BY <1>3, <2>8 DEF t, row, key
<1> QED BY <1>2, <1>3

(* pluginRows has a row for every plugin that has published, and no other. *)
LEMMA PluginRowsTell == ASSUME NEW held PROVE RowsTell(PluginRows(held), Len(PluginKeys), held)
<1> DEFINE N == Len(PluginKeys)
<1>1. PICK f : /\ f[0] = <<>>
               /\ \A n \in Nat : n + 1 <= N =>
                    f[n + 1] = IF held[PluginKeys[n + 1]] = "nothing" THEN f[n]
                               ELSE Append(f[n], PluginRow(PluginKeys[n + 1], held))
               /\ PluginRows(held) = f[N]
  BY PluginRowsAre
<1> DEFINE S == {n \in Nat : n <= N => RowsTell(f[n], n, held)}
<1>2. N \in Nat
  BY KeysAreDistinct
<1>3. 0 \in S
  <2>1. RowsTell(<<>>, 0, held)
    BY DEF RowsTell
  <2> QED BY <1>1, <2>1
<1>4. ASSUME NEW n \in S PROVE n + 1 \in S
  <2> SUFFICES ASSUME n + 1 <= N PROVE RowsTell(f[n + 1], n + 1, held)
    OBVIOUS
  <2>1. n \in Nat /\ n <= N
    BY <1>2
  <2>2. f[n + 1] = IF held[PluginKeys[n + 1]] = "nothing" THEN f[n]
                   ELSE Append(f[n], PluginRow(PluginKeys[n + 1], held))
    BY <1>1, <2>1
  <2>3. RowsTell(f[n], n, held)
    BY <2>1
  <2> QED BY <2>1, <2>2, <2>3, NextRowTells
<1>5. S = Nat
  <2>1. S \in SUBSET Nat
    OBVIOUS
  <2> HIDE DEF S
  <2> QED BY <1>3, <1>4, <2>1, Induct
<1>6. RowsTell(f[N], N, held)
  <2>1. N \in S
    BY <1>2, <1>5
  <2> QED BY <1>2, <2>1
<1> QED BY <1>1, <1>6

(* A row that failed says so, and no other does. *)
RowTells(r, held) == held[r.key] \in {"error", "untyped error"} <=> r.says \in {"error", "unavailable"}

(* Every core source has a row that tells whether it failed. *)
LEMMA CoreRowsTell ==
    ASSUME NEW held
    PROVE  LET core == [i \in DOMAIN CoreKeys |-> CoreRow(CoreKeys[i], held)]
           IN /\ core \in Seq({CoreRow(k, held) : k \in ToSet(CoreKeys)})
              /\ {r.key : r \in ToSet(core)} = ToSet(CoreKeys)
              /\ \A r \in ToSet(core) : RowTells(r, held)
              /\ \A i, j \in DOMAIN core : core[i].key = core[j].key => i = j
<1> DEFINE core == [i \in DOMAIN CoreKeys |-> CoreRow(CoreKeys[i], held)]
           C == {CoreRow(k, held) : k \in ToSet(CoreKeys)}
<1>1. CoreKeys \in Seq(ToSet(CoreKeys)) /\ \A i, j \in DOMAIN CoreKeys : CoreKeys[i] = CoreKeys[j] => i = j
  BY LaunchAssumption DEF IsInjective
<1>2. \A k : CoreRow(k, held).key = k /\ RowTells(CoreRow(k, held), held)
  BY DEF CoreRow, RowTells
<1>3. \A i \in DOMAIN CoreKeys : CoreKeys[i] \in ToSet(CoreKeys) /\ CoreRow(CoreKeys[i], held) \in C
  BY DEF ToSet
<1>4. core \in Seq(C)
  <2> HIDE DEF C
  <2> QED BY <1>1, <1>3
<1>5. \A i \in DOMAIN core : core[i] = CoreRow(CoreKeys[i], held) /\ core[i].key = CoreKeys[i]
  BY <1>2
<1>6. DOMAIN core = DOMAIN CoreKeys
  OBVIOUS
<1> HIDE DEF core
<1>7. \A i, j \in DOMAIN core : core[i].key = core[j].key => i = j
  BY <1>1, <1>5, <1>6
<1>8. {r.key : r \in ToSet(core)} = ToSet(CoreKeys)
  BY <1>5, <1>6 DEF ToSet
<1>9. \A r \in ToSet(core) : RowTells(r, held)
  BY <1>2, <1>5 DEF ToSet
<1> QED BY <1>4, <1>7, <1>8, <1>9 DEF core

(* So has every plugin that has published something. *)
LEMMA PluginRowsTellAll ==
    ASSUME NEW held, \A p \in Plugins : held[p] # "untyped error"
    PROVE  LET plugins == PluginRows(held)
           IN /\ plugins \in Seq({PluginRow(k, held) : k \in Plugins})
              /\ {r.key : r \in ToSet(plugins)} = {p \in Plugins : held[p] # "nothing"}
              /\ \A r \in ToSet(plugins) : RowTells(r, held)
              /\ \A i, j \in DOMAIN plugins : plugins[i].key = plugins[j].key => i = j
<1> DEFINE plugins == PluginRows(held)
<1>1. RowsTell(plugins, Len(PluginKeys), held)
  BY PluginRowsTell
<1>2. \A k \in Plugins : PluginRow(k, held).key = k /\ RowTells(PluginRow(k, held), held)
  BY DEF PluginRow, RowTells
<1> HIDE DEF plugins
<1>3. \A m \in DOMAIN plugins :
         \E k \in Plugins : k = plugins[m].key /\ held[k] # "nothing" /\ RowTells(plugins[m], held)
  <2> SUFFICES ASSUME NEW m \in DOMAIN plugins
               PROVE  \E k \in Plugins : k = plugins[m].key /\ held[k] # "nothing" /\ RowTells(plugins[m], held)
    OBVIOUS
  <2>1. PICK i \in 1 .. Len(PluginKeys) :
           held[PluginKeys[i]] # "nothing" /\ plugins[m] = PluginRow(PluginKeys[i], held)
    BY <1>1 DEF RowsTell
  <2>2. PluginKeys[i] \in Plugins
    BY KeysAreDistinct
  <2> QED BY <1>2, <2>1, <2>2
<1>4. \A k \in Plugins : held[k] # "nothing" => \E m \in DOMAIN plugins : plugins[m].key = k
  <2> SUFFICES ASSUME NEW k \in Plugins, held[k] # "nothing"
               PROVE  \E m \in DOMAIN plugins : plugins[m].key = k
    OBVIOUS
  <2>1. PICK i \in 1 .. Len(PluginKeys) : PluginKeys[i] = k
    BY KeysAreDistinct
  <2>2. PICK m \in DOMAIN plugins : plugins[m] = PluginRow(k, held)
    BY <1>1, <2>1 DEF RowsTell
  <2> QED BY <1>2, <2>2
<1>5. {r.key : r \in ToSet(plugins)} = {p \in Plugins : held[p] # "nothing"}
  <2>1. \A r \in ToSet(plugins) : r.key \in {p \in Plugins : held[p] # "nothing"}
    BY <1>3 DEF ToSet
  <2>2. \A k \in {p \in Plugins : held[p] # "nothing"} : \E r \in ToSet(plugins) : r.key = k
    BY <1>4 DEF ToSet
  <2> QED BY <2>1, <2>2
<1>6. \A r \in ToSet(plugins) : RowTells(r, held)
  BY <1>3 DEF ToSet
<1> QED BY <1>1, <1>5, <1>6 DEF RowsTell, plugins

(* A report written of what the store holds tells all of it. *)
LEMMA ReportTells ==
    ASSUME NEW detected \in [DOMAIN Plugin -> {DetectLine(p) : p \in Plugins}],
           NEW held \in Holdings, NEW written, written = detected \o ReportRows(held)
    PROVE  LET told == ToSet(SubSeq(written, Len(Plugin) + 1, Len(written)))
           IN /\ {r.key : r \in told} = ToSet(CoreKeys) \cup {p \in Plugins : held[p] # "nothing"}
              /\ Cardinality(told) = Len(written) - Len(Plugin)
              /\ \A r \in told : RowTells(r, held)
<1> DEFINE core == [i \in DOMAIN CoreKeys |-> CoreRow(CoreKeys[i], held)]
           plugins == PluginRows(held)
           D == {DetectLine(p) : p \in Plugins}
           C == {CoreRow(k, held) : k \in ToSet(CoreKeys)}
           P == {PluginRow(k, held) : k \in Plugins}
           S == D \cup C \cup P
<1>1. /\ core \in Seq(C)
      /\ {r.key : r \in ToSet(core)} = ToSet(CoreKeys)
      /\ \A r \in ToSet(core) : RowTells(r, held)
      /\ \A i, j \in DOMAIN core : core[i].key = core[j].key => i = j
  BY CoreRowsTell
<1>2. /\ plugins \in Seq(P)
      /\ {r.key : r \in ToSet(plugins)} = {p \in Plugins : held[p] # "nothing"}
      /\ \A r \in ToSet(plugins) : RowTells(r, held)
      /\ \A i, j \in DOMAIN plugins : plugins[i].key = plugins[j].key => i = j
  <2>1. \A p \in Plugins : held[p] # "untyped error"
    BY DEF Holdings
  <2> QED BY <2>1, PluginRowsTellAll
<1>3. ToSet(CoreKeys) \cap Plugins = {}
  BY LaunchAssumption
<1>4. detected \in Seq(D) /\ Len(detected) = Len(Plugin)
  <2>1. Plugin \in Seq(Plugins)
    BY LaunchAssumption
  <2>2. DOMAIN Plugin = 1 .. Len(Plugin) /\ Len(Plugin) \in Nat
    BY <2>1
  <2> HIDE DEF D
  <2>3. detected \in [1 .. Len(Plugin) -> D]
    BY <2>2 DEF D
  <2> QED BY <2>2, <2>3
<1>5. written = detected \o (core \o plugins)
  BY DEF ReportRows
<1> HIDE DEF core, plugins, D, C, P
<1>6. core \in Seq(S) /\ plugins \in Seq(S) /\ core \o plugins \in Seq(S) /\ detected \in Seq(S)
  BY <1>1, <1>2, <1>4
<1> HIDE DEF S
<1>7. /\ SubSeq(written, Len(Plugin) + 1, Len(written)) = core \o plugins
      /\ Len(written) - Len(Plugin) = Len(core \o plugins)
  <2> DEFINE all == core \o plugins
  <2>1. all \in Seq(S)
    BY <1>6
  <2> HIDE DEF all
  <2>2. /\ SubSeq(detected \o all, Len(detected) + 1, Len(detected \o all)) = all
        /\ Len(detected \o all) - Len(detected) = Len(all)
    BY <1>6, <2>1, Suffix
  <2>3. written = detected \o all
    BY <1>5 DEF all
  <2>4. SubSeq(written, Len(Plugin) + 1, Len(written)) = all /\ Len(written) - Len(Plugin) = Len(all)
    BY <1>4, <2>2, <2>3
  <2> QED BY <2>4 DEF all
<1>8. \A i, j \in DOMAIN (core \o plugins) : (core \o plugins)[i].key = (core \o plugins)[j].key => i = j
  <2>1. \A i \in DOMAIN core : core[i].key \in ToSet(CoreKeys)
    BY <1>1 DEF ToSet
  <2>2. \A i \in DOMAIN plugins : plugins[i].key \in Plugins
    BY <1>2 DEF ToSet
  <2> DEFINE all == core \o plugins
  <2>3. \A i \in DOMAIN all :
           \/ i \in DOMAIN core /\ all[i] = core[i]
           \/ i - Len(core) \in DOMAIN plugins /\ all[i] = plugins[i - Len(core)]
    BY <1>6, InEitherPart
  <2>4. Len(core) \in Nat /\ DOMAIN all = 1 .. Len(all) /\ Len(all) \in Nat
    BY <1>6
  <2> HIDE DEF all
  <2> SUFFICES ASSUME NEW i \in DOMAIN all, NEW j \in DOMAIN all, all[i].key = all[j].key
               PROVE  i = j
    BY DEF all
  <2>5. CASE i \in DOMAIN core /\ all[i] = core[i]
    BY <1>1, <1>3, <2>1, <2>2, <2>3, <2>5
  <2>6. CASE i - Len(core) \in DOMAIN plugins /\ all[i] = plugins[i - Len(core)]
    <3>1. j - Len(core) \in DOMAIN plugins /\ all[j] = plugins[j - Len(core)]
      BY <1>3, <2>1, <2>2, <2>3, <2>6
    <3>2. i - Len(core) = j - Len(core)
      BY <1>2, <2>6, <3>1
    <3> QED BY <2>4, <3>2
  <2> QED BY <2>3, <2>5, <2>6
<1>9. Cardinality(ToSet(core \o plugins)) = Len(core \o plugins)
  BY <1>6, <1>8, CountedOnce
<1>10. ToSet(core \o plugins) = ToSet(core) \cup ToSet(plugins)
  BY <1>6, EachPartIsIn
<1>11. /\ {r.key : r \in ToSet(core \o plugins)} = ToSet(CoreKeys) \cup {p \in Plugins : held[p] # "nothing"}
       /\ \A r \in ToSet(core \o plugins) : RowTells(r, held)
  BY <1>1, <1>2, <1>10
<1> QED BY <1>7, <1>9, <1>11

(* Filling in from the environment and then from the file gives each setting *)
(* its nearest value.                                                        *)
LEMMA Layers ==
    ASSUME NEW e \in Settings, NEW f \in Settings, flags \in Settings, env' = e, file' = f, flags' = flags,
           NEW k \in DOMAIN Blank
    PROVE  FillUnset(FillUnset(flags, e), f)[k] = Given(k)'
<1>1. DOMAIN flags = DOMAIN Blank /\ DOMAIN e = DOMAIN Blank /\ DOMAIN f = DOMAIN Blank
  BY LaunchAssumption
<1>2. FillUnset(flags, e)[k] = (IF flags[k] = Blank[k] THEN e[k] ELSE flags[k]) /\ DOMAIN FillUnset(flags, e) = DOMAIN Blank
  BY <1>1 DEF FillUnset
<1>3. FillUnset(FillUnset(flags, e), f)[k] =
         IF FillUnset(flags, e)[k] = Blank[k] THEN f[k] ELSE FillUnset(flags, e)[k]
  BY <1>2 DEF FillUnset
<1> QED BY <1>2, <1>3 DEF Given

(* What a role's selector finds was wanted, and the kubeconfig has it. *)
LEMMA FoundIsWanted ==
    ASSUME Prepared, NEW role \in Roles, stage \in Resolving, mode # "server",
           role = "workload" => ~NoPreference(SelectorFor("workload"))
    PROVE  Find(SelectorFor(role)) \subseteq kube.known \cap Wanted(role) /\ kube.known \subseteq Context
<1>1. config[role] = Given(role) /\ kube \in Kubeconfig
  BY DEF Prepared, Roles, Blank
<1>2. kube.known \subseteq Context
  BY <1>1, LaunchAssumption
<1>3. Find(SelectorFor(role)) \subseteq kube.known \cap Wanted(role)
  BY <1>1 DEF Find, SelectorFor, Selector, Wanted, Roles, NoPreference
<1> QED BY <1>2, <1>3

(* What is wanted for a role depends on nothing that choosing changes. *)
LEMMA WantedStays ==
    ASSUME NEW role, UNCHANGED <<flags, env, file, site, kube>>,
           role = "workload" => choice'.management = choice.management
    PROVE  Wanted(role)' = Wanted(role)
BY DEF Wanted, Given

(* Whatever ends the start keeps what does not depend on its way there. *)
LEMMA EndKeeps ==
    ASSUME LaunchInv, NEW why, End(why), UNCHANGED <<answers, registry, report, stored, choice>>
    PROVE  ContextsChosen' /\ RunningFollows' /\ Reported'
<1>1. ContextsChosen'
  BY DEF LaunchInv, ContextsChosen, End, Started
<1>2. RunningFollows'
  BY DEF LaunchInv, RunningFollows, End
<1>3. Reported'
  BY DEF LaunchInv, Reported, End, ReportTellsAll
<1> QED BY <1>1, <1>2, <1>3

(* An end on the way asks nothing any more. *)
LEMMA EndPrepared ==
    ASSUME Prepared, NEW why, End(why), UNCHANGED <<flags, env, file, config, site, mode, humans>>
    PROVE  Prepared'
BY DEF Prepared, End, Resolving, Started, Given

(* Each action keeps the invariant. *)
LEMMA ParseKeeps == ASSUME LaunchInv, Parse PROVE LaunchInv'
<1>1. PICK opts \in SUBSET Option, f \in Settings :
         /\ flags' = f
         /\ IF Early(opts) # ""
            THEN mode' = Early(opts) /\ End("done")
            ELSE /\ stage' = "layer"
                 /\ UNCHANGED <<mode, outcome, running>>
  BY DEF Parse
<1>2. /\ stage = "parse" /\ humans = {} /\ humans' = {} /\ stage' \in {"layer", "ended"}
      /\ UNCHANGED <<answers, registry, report, stored, choice>>
  BY <1>1 DEF Parse, LaunchInv, Prepared, End
<1>3. Prepared'
  BY <1>1, <1>2 DEF Prepared, Resolving, Started
<1>4. CASE End("done")
  BY <1>2, <1>3, <1>4, EndKeeps DEF LaunchInv
<1>5. CASE stage' = "layer" /\ UNCHANGED <<mode, outcome, running>>
  <2>1. ContextsChosen'
    BY <1>2, <1>5 DEF LaunchInv, ContextsChosen, Started
  <2>2. RunningFollows'
    BY <1>2, <1>5 DEF LaunchInv, RunningFollows
  <2>3. Reported'
    BY <1>2, <1>5 DEF LaunchInv, Reported, ReportTellsAll
  <2> QED BY <1>3, <2>1, <2>2, <2>3 DEF LaunchInv
<1> QED BY <1>1, <1>4, <1>5

(* The settings are layered: flags over the environment over the file.       *)
LEMMA LayerKeeps == ASSUME LaunchInv, Layer PROVE LaunchInv'
<1> DEFINE c(e, f) == FillUnset(FillUnset(flags, e), f)
           m(e, f) == ModeOf(options, c(e, f).server)
<1>1. PICK e \in Settings, f \in Settings :
         /\ env' = e /\ file' = f
         /\ \/ End("config") /\ UNCHANGED <<config, mode>>
            \/ /\ config' = c(e, f)
               /\ mode' = m(e, f)
               /\ IF m(e, f) \in {"themes", "profiles", "contexts", "sign-out"} THEN End("done")
                  ELSE IF m(e, f) = "refused" THEN End("refused")
                  ELSE /\ stage' = IF m(e, f) \in {"demo", "demo-fleet"} THEN "theme" ELSE "load"
                       /\ UNCHANGED <<outcome, running>>
  BY DEF Layer
<1>2. /\ stage = "layer" /\ humans = {} /\ humans' = {} /\ flags \in Settings /\ flags' = flags
      /\ UNCHANGED <<answers, registry, report, stored, choice>>
  BY DEF Layer, LaunchInv, Prepared
<1>3. ASSUME NEW why, End(why) PROVE LaunchInv'
  <2>1. Prepared'
    BY <1>2, <1>3 DEF Prepared, Resolving, Started, End
  <2> QED BY <1>2, <1>3, <2>1, EndKeeps DEF LaunchInv
<1>4. CASE /\ config' = c(e, f) /\ mode' = m(e, f)
           /\ m(e, f) \notin {"themes", "profiles", "contexts", "sign-out", "refused"}
           /\ stage' = IF m(e, f) \in {"demo", "demo-fleet"} THEN "theme" ELSE "load"
           /\ UNCHANGED <<outcome, running>>
  <2>1. \A k \in DOMAIN Blank : config'[k] = Given(k)'
    BY <1>1, <1>2, <1>4, Layers
  <2>2. ASSUME stage' = "load"
        PROVE  /\ mode' \in {"server", "dashboard", "snapshot", "dry-run"}
               /\ mode' # "server" => config'["server"] = ""
    <3>1. m(e, f) \notin {"themes", "profiles", "contexts", "sign-out", "refused", "demo", "demo-fleet"}
      BY <1>4, <2>2
    <3>2. PICK where : m(e, f) = ModeOf(options, where) /\ config'["server"] = where
      BY <1>4
    <3> HIDE DEF c, m
    <3>3. ModeOf(options, where) \notin {"themes", "profiles", "contexts", "sign-out", "refused", "demo", "demo-fleet"}
      BY <3>1, <3>2
    <3>4. /\ ModeOf(options, where) \in {"server", "dashboard", "snapshot", "dry-run"}
          /\ ModeOf(options, where) # "server" => where = ""
      <4>1. CASE where = ""
        BY <3>3, <4>1 DEF ModeOf
      <4>2. CASE where # ""
        BY <3>3, <4>2 DEF ModeOf
      <4> QED BY <4>1, <4>2
    <3> QED BY <1>4, <3>2, <3>4
  <2>3. stage' \in {"theme", "load"}
    BY <1>4
  <2> HIDE DEF c, m
  <2>4. Prepared'
    BY <1>2, <2>1, <2>2, <2>3 DEF Prepared, Resolving, Started
  <2>5. ContextsChosen'
    BY <1>2, <2>3 DEF LaunchInv, ContextsChosen, Started
  <2>6. RunningFollows'
    BY <1>2, <1>4, <2>3 DEF LaunchInv, RunningFollows
  <2>7. Reported'
    BY <1>2, <2>3 DEF LaunchInv, Reported, ReportTellsAll
  <2> QED BY <2>4, <2>5, <2>6, <2>7 DEF LaunchInv
<1> HIDE DEF c, m
<1> QED BY <1>1, <1>3, <1>4

(* The demo and the screens that answer at once end the start.               *)
LEMMA ShowDemoKeeps == ASSUME LaunchInv, ShowDemo PROVE LaunchInv'
<1>1. PICK why : End(why)
  BY DEF ShowDemo
<1>2. UNCHANGED <<flags, env, file, config, site, mode, humans, answers, registry, report, stored, choice>>
  BY DEF ShowDemo, given
<1>3. Prepared'
  BY <1>1, <1>2, EndPrepared DEF LaunchInv
<1> QED BY <1>1, <1>2, <1>3, EndKeeps DEF LaunchInv

(* The site profile and the kubeconfig are read.                             *)
LEMMA PrepareKeeps == ASSUME LaunchInv, Prepare PROVE LaunchInv'
<1>1. PICK s \in Site \cup {BadSite}, k \in Kubeconfig \cup {Unset} :
         /\ k = Unset => mode = "server" \/ s = BadSite
         /\ kube' = k /\ site' = s
         /\ \/ End("profile") /\ UNCHANGED humans
            \/ End("theme") /\ UNCHANGED humans
            \/ /\ s # BadSite /\ config.theme # "wrong" /\ mode = "server"
               /\ humans' = {"sign-in"} /\ stage' = "up" /\ running' = {"fleet"} /\ UNCHANGED outcome
            \/ /\ s # BadSite /\ config.theme # "wrong" /\ mode # "server"
               /\ stage' = "management" /\ UNCHANGED <<humans, running, outcome>>
  BY DEF Prepare
<1>2. /\ stage = "load" /\ humans = {}
      /\ UNCHANGED <<flags, env, file, config, mode, answers, registry, report, stored, choice>>
      /\ \A x \in DOMAIN Blank : config[x] = Given(x)
      /\ mode \in {"server", "dashboard", "snapshot", "dry-run"}
      /\ mode # "server" => config["server"] = ""
  BY DEF Prepare, LaunchInv, Prepared
<1>3. \A x \in DOMAIN Blank : config'[x] = Given(x)'
  BY <1>2 DEF Given
<1>4. ASSUME NEW why, End(why), UNCHANGED humans PROVE LaunchInv'
  <2>1. Prepared'
    BY <1>2, <1>4 DEF Prepared, Resolving, Started, End
  <2> QED BY <1>2, <1>4, <2>1, EndKeeps DEF LaunchInv
<1>5. CASE /\ s # BadSite /\ config.theme # "wrong" /\ mode = "server"
           /\ humans' = {"sign-in"} /\ stage' = "up" /\ running' = {"fleet"} /\ UNCHANGED outcome
  <2>1. Prepared'
    BY <1>1, <1>2, <1>3, <1>5 DEF Prepared, Resolving, Started
  <2>2. ContextsChosen'
    BY <1>2, <1>5 DEF LaunchInv, ContextsChosen
  <2>3. RunningFollows'
    BY <1>2, <1>5 DEF LaunchInv, RunningFollows
  <2>4. Reported'
    BY <1>2, <1>5 DEF LaunchInv, Reported, ReportTellsAll
  <2> QED BY <2>1, <2>2, <2>3, <2>4 DEF LaunchInv
<1>6. CASE /\ s # BadSite /\ config.theme # "wrong" /\ mode # "server"
           /\ stage' = "management" /\ UNCHANGED <<humans, running, outcome>>
  <2>1. Prepared'
    BY <1>1, <1>2, <1>3, <1>6 DEF Prepared, Resolving, Started
  <2>2. ContextsChosen'
    BY <1>2, <1>6 DEF LaunchInv, ContextsChosen, Started
  <2>3. RunningFollows'
    BY <1>2, <1>6 DEF LaunchInv, RunningFollows
  <2>4. Reported'
    BY <1>2, <1>6 DEF LaunchInv, Reported, ReportTellsAll
  <2> QED BY <2>1, <2>2, <2>3, <2>4 DEF LaunchInv
<1> QED BY <1>1, <1>4, <1>5, <1>6

(* An answer at the prompt picks among what was shown, whatever it is. *)
LEMMA MatchIsAmong ==
    ASSUME NEW answer \in Answer, NEW among \in Seq(Nat)
    PROVE  Match(answer, among) \subseteq {among[i] : i \in DOMAIN among}
<1>1. answer.number > 0 /\ answer.number <= Len(among) => answer.number \in DOMAIN among
  <2>1. IsFiniteSet(Context) /\ Cardinality(Context) \in Nat
    BY LaunchAssumption, FS_CardinalityType
  <2>2. answer.number \in Nat
    BY <2>1 DEF Answer
  <2> QED BY <2>2
<1>2. ToSet(among) = {among[i] : i \in DOMAIN among}
  BY DEF ToSet
<1> QED BY <1>1, <1>2 DEF Match

(* A role given a context it wanted goes to the next role, or to the watch.  *)
LEMMA ChosenKeeps ==
    ASSUME LaunchInv, stage \in {"management", "workload", "asking"}, NEW role \in Roles, NEW c,
           stage = "asking" => role = question.role,
           stage # "asking" => role = stage,
           Chosen(role, c), c \in kube.known \cap Wanted(role),
           UNCHANGED <<given, config, site, mode, answers, registry, stored, report, humans, running, outcome>>
    PROVE  LaunchInv'
<1>1. /\ UNCHANGED <<flags, env, file, kube, site, config, mode, humans, running, outcome>>
      /\ choice' = [choice EXCEPT ![role] = c] /\ stage' = After(role)
      /\ UNCHANGED <<answers, registry, stored, report>>
  BY DEF given, Chosen
<1>2. /\ DOMAIN choice = Roles /\ mode # "server" /\ stage \in Resolving
      /\ role = "workload" => ChosenWell("management")
  BY DEF LaunchInv, ContextsChosen, Prepared, Resolving, Roles, Started
<1>3. stage' \in {"workload", "watch"} /\ (stage' = "workload" <=> role = "management")
  BY <1>1 DEF After, Roles
<1>4. DOMAIN choice' = Roles /\ choice'[role] = c /\ (role = "workload" => choice'.management = choice.management)
  BY <1>1, <1>2 DEF Roles
<1>5. \A r \in Roles : Given(r)' = Given(r)
  BY <1>1 DEF Given
<1>6. Wanted("management")' = Wanted("management")
  BY <1>1, WantedStays
<1>7. role = "workload" => Wanted("workload")' = Wanted("workload")
  BY <1>1, <1>4, WantedStays
<1>8. ChosenWell("management")'
  BY <1>1, <1>2, <1>4, <1>6 DEF ChosenWell, Roles
<1>9. role = "workload" => ChosenWell("workload")'
  BY <1>1, <1>4, <1>7 DEF ChosenWell
<1>10. ContextsChosen'
  BY <1>1, <1>3, <1>4, <1>8, <1>9 DEF ContextsChosen, Started, Roles
<1>11. Prepared'
  BY <1>1, <1>2, <1>3 DEF LaunchInv, Prepared, Resolving, Started, Given
<1>12. RunningFollows'
  BY <1>1, <1>2, <1>3 DEF LaunchInv, RunningFollows
<1>13. Reported'
  BY <1>1, <1>2 DEF LaunchInv, Reported, ReportTellsAll, Resolving, Started
<1> QED BY <1>10, <1>11, <1>12, <1>13 DEF LaunchInv

(* A start that ends on the way there, with what it has chosen left alone. *)
LEMMA EndsThere ==
    ASSUME LaunchInv, NEW why, End(why),
           UNCHANGED <<given, config, site, mode, humans, answers, registry, stored, report, choice>>
    PROVE  LaunchInv'
<1>1. UNCHANGED <<flags, env, file, kube>>
  BY DEF given
<1> QED BY <1>1, EndKeeps, EndPrepared DEF LaunchInv

(* A role's context is found by its selector, or asked for.                  *)
LEMMA ResolveKeeps == ASSUME LaunchInv, Resolve PROVE LaunchInv'
<1>1. /\ stage \in {"management", "workload"}
      /\ UNCHANGED <<given, config, site, mode, answers, registry, stored, report>>
      /\ UNCHANGED <<flags, env, file, kube>>
  BY DEF Resolve, given
<1>2. /\ mode # "server" /\ stage \in Resolving /\ stage \in Roles
      /\ kube \in Kubeconfig
      /\ config["workload"] = Given("workload")
      /\ stage = "workload" => ChosenWell("management")
      /\ DOMAIN choice = Roles
  BY <1>1 DEF LaunchInv, Prepared, ContextsChosen, Resolving, Started, Roles, Blank
<1>3. CASE stage = "workload" /\ NoPreference(SelectorFor("workload"))
  <2>1. Chosen("workload", choice.management) /\ UNCHANGED <<humans, running, outcome>>
    BY <1>3 DEF Resolve
  <2>2. Wanted("workload") = {choice.management}
    BY <1>2, <1>3 DEF NoPreference, SelectorFor, Selector, Wanted
  <2>3. choice.management \in kube.known \cap Wanted("workload")
    BY <1>2, <1>3, <2>2 DEF ChosenWell
  <2> QED BY <1>1, <1>2, <1>3, <2>1, <2>3, ChosenKeeps DEF Roles
<1>4. CASE ~(stage = "workload" /\ NoPreference(SelectorFor("workload")))
  <2>1. PICK someone \in BOOLEAN : ResolveContext(stage, someone)
    BY <1>4 DEF Resolve
  <2> DEFINE found == Find(SelectorFor(stage))
  <2>2. found \subseteq kube.known \cap Wanted(stage) /\ kube.known \subseteq Context
    BY <1>2, <1>4, FoundIsWanted DEF LaunchInv
  <2>3. IsFiniteSet(found) /\ Cardinality(found) \in Nat /\ (Cardinality(found) = 0 <=> found = {})
    <3>1. IsFiniteSet(Context)
      BY LaunchAssumption
    <3>2. IsFiniteSet(found)
      BY <2>2, <3>1, FS_Subset
    <3> HIDE DEF found
    <3> QED BY <3>2, FS_CardinalityType, FS_EmptySet
  <2> HIDE DEF found
  <2>4. \/ \E why : End(why) /\ UNCHANGED <<choice, question, humans>>
        \/ /\ Cardinality(found) = 1
           /\ Chosen(stage, CHOOSE c \in found : TRUE) /\ UNCHANGED <<humans, running, outcome>>
        \/ /\ question' = [role |-> stage, among |-> ByName(found), left |-> Attempts]
           /\ humans' = humans \cup {"prompt"}
           /\ stage' = "asking"
           /\ UNCHANGED <<choice, running, outcome>>
    <3>1. CASE found = {}
      BY <2>1, <2>3, <3>1 DEF ResolveContext, found
    <3>2. CASE Cardinality(found) = 1
      BY <2>1, <2>3, <3>2 DEF ResolveContext, found
    <3>3. CASE Cardinality(found) > 1 /\ ~someone
      BY <2>1, <2>3, <3>3 DEF ResolveContext, found
    <3>4. CASE Cardinality(found) > 1 /\ someone
      BY <2>1, <2>3, <3>4 DEF ResolveContext, found
    <3> QED BY <2>3, <3>1, <3>2, <3>3, <3>4
  <2>5. CASE \E why : End(why) /\ UNCHANGED <<choice, question, humans>>
    BY <1>1, <2>5, EndsThere
  <2>6. CASE /\ Cardinality(found) = 1
             /\ Chosen(stage, CHOOSE c \in found : TRUE) /\ UNCHANGED <<humans, running, outcome>>
    <3>1. (CHOOSE c \in found : TRUE) \in found
      BY <2>3, <2>6
    <3>2. (CHOOSE c \in found : TRUE) \in kube.known \cap Wanted(stage)
      BY <2>2, <3>1
    <3>3. stage # "asking"
      BY <1>1
    <3> QED BY <1>1, <1>2, <2>6, <3>2, <3>3, ChosenKeeps
  <2>7. CASE /\ question' = [role |-> stage, among |-> ByName(found), left |-> Attempts]
             /\ humans' = humans \cup {"prompt"}
             /\ stage' = "asking"
             /\ UNCHANGED <<choice, running, outcome>>
    <3>1. \A r : Wanted(r)' = Wanted(r)
      BY <1>1, <2>7 DEF Wanted, Given
    <3>2. found \in SUBSET Context
      BY <2>2
    <3>3. ByName(found) \in [1 .. Cardinality(found) -> found] /\ Cardinality(found) \in Nat
      BY <3>2, ByNameWorks
    <3>4. found \subseteq Nat
      BY <3>2, LaunchAssumption
    <3> DEFINE names == ByName(found)
    <3> HIDE DEF names
    <3>5. names \in Seq(Nat) /\ \A i \in DOMAIN names : names[i] \in found
      <4>1. names \in [1 .. Cardinality(found) -> Nat] /\ \A i \in DOMAIN names : names[i] \in found
        BY <3>3, <3>4 DEF names
      <4> QED BY <3>3, <4>1
    <3>6. question'.role = stage /\ question'.among = names /\ question' = [role |-> stage, among |-> names, left |-> Attempts]
      BY <2>7 DEF names
    <3>7. \A i \in DOMAIN names : names[i] \in kube.known \cap Wanted(stage)
      BY <2>2, <3>5
    <3>8. ChosenWell("management")' <=> ChosenWell("management")
      BY <1>1, <2>7, <3>1 DEF ChosenWell
    <3>9. ContextsChosen'
      <4>1. \A role \in Roles : question'.role = role => Offered(role)'
        BY <1>1, <3>1, <3>6, <3>7 DEF Offered
      <4>2. question'.role = "workload" => ChosenWell("management")'
        BY <1>2, <3>6, <3>8
      <4> QED BY <1>2, <2>7, <3>5, <3>6, <4>1, <4>2 DEF ContextsChosen, Started
    <3>10. Prepared'
      BY <1>1, <1>2, <2>7 DEF LaunchInv, Prepared, Resolving, Started, Given
    <3>11. RunningFollows'
      BY <1>1, <1>2, <2>7 DEF LaunchInv, RunningFollows
    <3>12. Reported'
      BY <1>1, <2>7 DEF LaunchInv, Reported, ReportTellsAll
    <3> QED BY <3>9, <3>10, <3>11, <3>12 DEF LaunchInv
  <2> QED BY <2>4, <2>5, <2>6, <2>7
<1> QED BY <1>3, <1>4

(* The user's answer picks one of those that were offered.                   *)
LEMMA AskKeeps == ASSUME LaunchInv, Ask PROVE LaunchInv'
<1>1. /\ stage = "asking"
      /\ UNCHANGED <<given, config, site, mode, humans, answers, registry, stored, report>>
      /\ UNCHANGED <<flags, env, file, kube>>
  BY DEF Ask, given
<1>2. /\ mode # "server" /\ question.role \in Roles /\ question.among \in Seq(Nat)
      /\ \A i \in DOMAIN question.among : question.among[i] \in kube.known \cap Wanted(question.role)
      /\ question = [role |-> question.role, among |-> question.among, left |-> question.left]
  BY <1>1 DEF LaunchInv, ContextsChosen, Prepared, Resolving, Started, Offered
<1>3. \/ End("declined") /\ UNCHANGED choice
      \/ \E answer \in Answer : LET m == Match(answer, question.among)
           IN m # {} /\ Chosen(question.role, CHOOSE c \in m : TRUE) /\ UNCHANGED <<running, outcome>>
      \/ question' = [question EXCEPT !.left = @ - 1] /\ UNCHANGED <<choice, stage, running, outcome>>
  BY DEF Ask
<1>4. CASE End("declined") /\ UNCHANGED choice
  BY <1>1, <1>4, EndsThere
<1>5. CASE \E answer \in Answer : LET m == Match(answer, question.among)
           IN m # {} /\ Chosen(question.role, CHOOSE c \in m : TRUE) /\ UNCHANGED <<running, outcome>>
  <2>1. PICK answer \in Answer : LET m == Match(answer, question.among)
           IN m # {} /\ Chosen(question.role, CHOOSE c \in m : TRUE) /\ UNCHANGED <<running, outcome>>
    BY <1>5
  <2> DEFINE m == Match(answer, question.among)
  <2>2. m \subseteq {question.among[i] : i \in DOMAIN question.among}
    BY <1>2, MatchIsAmong
  <2>3. m \subseteq kube.known \cap Wanted(question.role)
    BY <1>2, <2>2
  <2>4. m # {} /\ Chosen(question.role, CHOOSE c \in m : TRUE) /\ UNCHANGED <<running, outcome>>
    BY <2>1
  <2> HIDE DEF m
  <2>5. (CHOOSE c \in m : TRUE) \in kube.known \cap Wanted(question.role)
    BY <2>3, <2>4
  <2> QED BY <1>1, <1>2, <2>4, <2>5, ChosenKeeps
<1>6. CASE question' = [question EXCEPT !.left = @ - 1] /\ UNCHANGED <<choice, stage, running, outcome>>
  <2>1. /\ question'.role = question.role /\ question'.among = question.among
        /\ question' = [role |-> question'.role, among |-> question'.among, left |-> question'.left]
    BY <1>2, <1>6
  <2>2. \A r : Wanted(r)' = Wanted(r)
    BY <1>1, <1>6 DEF Wanted, Given
  <2>3. \A role \in Roles : question'.role = role => Offered(role)'
    BY <1>1, <1>2, <2>1, <2>2 DEF Offered
  <2>4. ChosenWell("management")' <=> ChosenWell("management")
    BY <1>1, <1>6, <2>2 DEF ChosenWell
  <2>5. ContextsChosen'
    BY <1>1, <1>2, <1>6, <2>1, <2>3, <2>4 DEF LaunchInv, ContextsChosen, Started
  <2>6. Prepared'
    BY <1>1, <1>6 DEF LaunchInv, Prepared, Resolving, Started, Given
  <2>7. RunningFollows'
    BY <1>1, <1>6 DEF LaunchInv, RunningFollows
  <2>8. Reported'
    BY <1>1, <1>6 DEF LaunchInv, Reported, ReportTellsAll
  <2> QED BY <2>5, <2>6, <2>7, <2>8 DEF LaunchInv
<1> QED BY <1>3, <1>4, <1>5, <1>6

(* A step from one of the last stages to another keeps what was chosen.      *)
LEMMA LaterStages ==
    ASSUME LaunchInv, stage \in Started, stage' \in Started, mode # "server",
           UNCHANGED <<given, config, site, mode, choice, question, humans>>
    PROVE  Prepared' /\ ContextsChosen'
<1>1. UNCHANGED <<flags, env, file, kube>>
  BY DEF given
<1>2. \A r : ChosenWell(r)' <=> ChosenWell(r)
  BY <1>1 DEF ChosenWell, Wanted, Given
<1>3. stage \in Resolving /\ stage' \in Resolving /\ stage' \notin {"load", "layer", "asking", "parse", "theme"}
  BY DEF Started, Resolving
<1>4. Prepared'
  BY <1>1, <1>3 DEF LaunchInv, Prepared, Given
<1>5. ContextsChosen'
  BY <1>2, <1>3 DEF LaunchInv, ContextsChosen
<1> QED BY <1>4, <1>5

(* The watchers of the contexts that were chosen start.                      *)
LEMMA StartWatchersKeeps == ASSUME LaunchInv, StartWatchers PROVE LaunchInv'
<1>1. /\ stage = "watch" /\ mode # "server" /\ mode \in {"dashboard", "snapshot", "dry-run"}
      /\ UNCHANGED <<given, config, site, mode, choice, question, humans, answers, registry, stored, report>>
  BY DEF StartWatchers, LaunchInv, Prepared, Resolving, Started
<1>2. \/ \E why : End(why)
      \/ /\ mode # "dry-run" /\ running' = {"management", "workload"}
         /\ stage' = "detect" /\ outcome' = outcome
  BY DEF StartWatchers
<1>3. CASE \E why : End(why)
  BY <1>1, <1>3, EndsThere
<1>4. CASE /\ mode # "dry-run" /\ running' = {"management", "workload"}
           /\ stage' = "detect" /\ outcome' = outcome
  <2>1. Prepared' /\ ContextsChosen'
    BY <1>1, <1>4, LaterStages DEF Started
  <2>2. RunningFollows'
    BY <1>1, <1>4 DEF LaunchInv, RunningFollows, Roles
  <2>3. Reported'
    BY <1>1, <1>4 DEF LaunchInv, Reported, ReportTellsAll
  <2> QED BY <2>1, <2>2, <2>3 DEF LaunchInv
<1> QED BY <1>2, <1>3, <1>4

(* Detection keeps all of it as long as the registry holds what probes said. *)
LEMMA DetectKeeps ==
    ASSUME LaunchInv, stage = "detect",
           UNCHANGED <<given, config, site, stage, mode, choice, question, humans, running, stored, report, outcome>>,
           answers' \in [Plugins -> {Unprobed} \cup Probed], registry' \in [Plugins -> {Unprobed} \cup Probed],
           \A p \in Plugins : registry'[p].probed => registry'[p] = answers'[p]
    PROVE  LaunchInv'
<1>1. mode # "server"
  BY DEF LaunchInv, RunningFollows
<1>2. Prepared' /\ ContextsChosen'
  BY <1>1, LaterStages DEF Started
<1>3. RunningFollows'
  BY DEF LaunchInv, RunningFollows
<1>4. Reported'
  BY DEF LaunchInv, Reported, ReportTellsAll
<1> QED BY <1>2, <1>3, <1>4 DEF LaunchInv

(* A plugin's detection ends.                                                *)
LEMMA ProbePluginKeeps == ASSUME LaunchInv, NEW p \in Plugins, ProbePlugin(p) PROVE LaunchInv'
<1>1. /\ stage = "detect" /\ ~answers[p].probed
      /\ UNCHANGED <<given, config, site, stage, mode, choice, question, humans, registry, running, stored, report, outcome>>
  BY DEF ProbePlugin
<1>2. PICK active \in BOOLEAN, failed \in BOOLEAN :
         answers' = [answers EXCEPT ![p] = [probed |-> TRUE, active |-> active, err |-> failed]]
  BY DEF ProbePlugin
<1>3. /\ answers \in [Plugins -> {Unprobed} \cup Probed] /\ registry \in [Plugins -> {Unprobed} \cup Probed]
      /\ \A q \in Plugins : registry[q].probed => registry[q] = answers[q]
  BY DEF LaunchInv, RunningFollows
<1>4. [probed |-> TRUE, active |-> active, err |-> failed] \in Probed
  BY DEF Probed
<1>5. answers' \in [Plugins -> {Unprobed} \cup Probed]
  BY <1>2, <1>3, <1>4
<1>6. \A q \in Plugins : registry'[q].probed => registry'[q] = answers'[q]
  BY <1>1, <1>2, <1>3
<1> QED BY <1>1, <1>3, <1>5, <1>6, DetectKeeps

(* The registry takes down what a plugin's detection found.                  *)
LEMMA RecordKeeps == ASSUME LaunchInv, NEW i \in DOMAIN Plugin, Record(i) PROVE LaunchInv'
<1>1. /\ stage = "detect"
      /\ registry' = [registry EXCEPT ![Plugin[i]] = answers[Plugin[i]]]
      /\ UNCHANGED <<given, config, site, stage, mode, choice, question, humans, answers, running, stored, report, outcome>>
  BY DEF Record
<1>2. /\ answers \in [Plugins -> {Unprobed} \cup Probed] /\ registry \in [Plugins -> {Unprobed} \cup Probed]
      /\ \A q \in Plugins : registry[q].probed => registry[q] = answers[q]
  BY DEF LaunchInv, RunningFollows
<1>3. Plugin[i] \in Plugins
  BY DEF Plugins
<1>4. /\ registry' \in [Plugins -> {Unprobed} \cup Probed]
      /\ \A q \in Plugins : registry'[q].probed => registry'[q] = answers'[q]
  BY <1>1, <1>2, <1>3
<1> QED BY <1>1, <1>2, <1>4, DetectKeeps

(* The plugins that were detected start.                                     *)
LEMMA ActivateKeeps == ASSUME LaunchInv, Activate PROVE LaunchInv'
<1>1. /\ stage = "detect" /\ mode # "server" /\ mode \in {"dashboard", "snapshot"} /\ running = Roles
      /\ \A p \in Plugins : registry[p].probed
      /\ running' = running \cup Active
      /\ stage' = IF mode = "snapshot" THEN "warming" ELSE "up"
      /\ UNCHANGED <<given, config, site, mode, choice, question, humans, answers, registry, stored, report, outcome>>
  BY DEF Activate, LaunchInv, RunningFollows
<1>2. stage' \in {"warming", "up"} /\ Active' = Active
  BY <1>1 DEF Active
<1>3. Prepared' /\ ContextsChosen'
  BY <1>1, <1>2, LaterStages DEF Started
<1>4. RunningFollows'
  BY <1>1, <1>2 DEF LaunchInv, RunningFollows
<1>5. Reported'
  BY <1>1 DEF LaunchInv, Reported, ReportTellsAll
<1> QED BY <1>3, <1>4, <1>5 DEF LaunchInv

(* The snapshot's report is written.                                         *)
LEMMA DebugSnapshotKeeps == ASSUME LaunchInv, DebugSnapshot PROVE LaunchInv'
<1>1. /\ stage = "warming" /\ End("done")
      /\ stored' \in Holdings
      /\ report' = [i \in DOMAIN Plugin |-> DetectLine(Plugin[i])] \o ReportRows(stored')
      /\ UNCHANGED <<given, config, site, mode, choice, question, humans, answers, registry>>
      /\ UNCHANGED <<flags, env, file, kube>>
  BY DEF DebugSnapshot, given
<1>2. Prepared'
  BY <1>1, EndPrepared DEF LaunchInv
<1>3. ContextsChosen'
  BY <1>1 DEF LaunchInv, ContextsChosen, End, Started
<1>4. RunningFollows'
  BY <1>1 DEF LaunchInv, RunningFollows, End
<1>5. ReportTellsAll'
  <2> DEFINE detected == [i \in DOMAIN Plugin |-> DetectLine(Plugin[i])]
  <2>1. \A i \in DOMAIN Plugin : Plugin[i] \in Plugins
    BY DEF Plugins
  <2>2. detected \in [DOMAIN Plugin -> {DetectLine(p) : p \in Plugins}]
    BY <2>1
  <2>3. LET told == ToSet(SubSeq(report', Len(Plugin) + 1, Len(report')))
        IN /\ {r.key : r \in told} = ToSet(CoreKeys) \cup {p \in Plugins : stored'[p] # "nothing"}
           /\ Cardinality(told) = Len(report') - Len(Plugin)
           /\ \A r \in told : RowTells(r, stored')
    <3> HIDE DEF detected
    <3>1. report' = detected \o ReportRows(stored')
      BY <1>1 DEF detected
    <3> QED BY <1>1, <2>2, <3>1, ReportTells
  <2> QED BY <2>3 DEF ReportTellsAll, RowTells
<1> QED BY <1>1, <1>2, <1>3, <1>4, <1>5 DEF LaunchInv, Reported, End

(* The user quits.                                                           *)
LEMMA QuitKeeps == ASSUME LaunchInv, Quit PROVE LaunchInv'
BY EndsThere DEF Quit

(* A step of something else leaves the start as it is.                       *)
LEMMA LaunchStutters == ASSUME LaunchInv, UNCHANGED launchVars PROVE LaunchInv'
<1>1. UNCHANGED <<flags, env, file, config, site, kube, stage, mode, choice,
                  question, humans, answers, registry, running, stored, report, outcome>>
  BY DEF launchVars
<1>2. \A r : Wanted(r)' = Wanted(r) /\ Given(r)' = Given(r)
  BY <1>1 DEF Wanted, Given
<1>3. Prepared'
  BY <1>1, <1>2 DEF LaunchInv, Prepared
<1>4. ContextsChosen'
  BY <1>1, <1>2 DEF LaunchInv, ContextsChosen, ChosenWell, Offered
<1>5. RunningFollows'
  BY <1>1 DEF LaunchInv, RunningFollows, Active
<1>6. Reported'
  BY <1>1 DEF LaunchInv, Reported, ReportTellsAll
<1> QED BY <1>3, <1>4, <1>5, <1>6 DEF LaunchInv

(* A start that satisfies the invariant watches what was asked for, asks     *)
(* nothing in vain, polls what it detected and reports all of it.            *)
LEMMA InvMeansAsAsked == ASSUME LaunchInv PROVE StartIsAsAsked
<1>1. WatchesWhatWasAsked
  <2> SUFFICES ASSUME "management" \in running
               PROVE  /\ mode \in {"dashboard", "snapshot"}
                      /\ \A role \in Roles : choice[role] \in kube.known \cap Wanted(role)
    BY DEF WatchesWhatWasAsked, Roles
  <2>0. running # {} /\ running # {"fleet"}
    OBVIOUS
  <2>1. stage \in {"detect", "warming", "up"} /\ ~(stage = "up" /\ mode = "server")
    BY <2>0 DEF LaunchInv, RunningFollows
  <2>2. mode \in {"dashboard", "snapshot"}
    BY <2>1 DEF LaunchInv, RunningFollows
  <2>3. ChosenWell("management") /\ ChosenWell("workload")
    BY <2>1, <2>2 DEF LaunchInv, ContextsChosen, Started
  <2> QED BY <2>2, <2>3 DEF ChosenWell, Roles
<1>2. NothingAskedInVain
  BY DEF NothingAskedInVain, LaunchInv, Prepared, Blank
<1>3. DetectedIsPolled
  <2>1. Plugins \cap {"management", "workload", "fleet"} = {}
    BY LaunchAssumption
  <2>2. \A p \in Active : answers[p].active
    BY DEF LaunchInv, RunningFollows, Active
  <2>3. ASSUME stage \in {"up", "warming"}, mode # "server"
        PROVE  Active = {p \in Plugins : answers[p].active} /\ Active = running \cap Plugins
    BY <2>1, <2>3 DEF LaunchInv, RunningFollows, Active, Roles
  <2>4. outcome # "" => running = {}
    BY DEF LaunchInv, RunningFollows
  <2>5. running \cap Plugins # {} => {"management", "workload"} \subseteq running
    BY <2>1 DEF LaunchInv, RunningFollows, Roles
  <2> QED BY <2>2, <2>3, <2>4, <2>5 DEF DetectedIsPolled
<1> QED BY <1>1, <1>2, <1>3 DEF StartIsAsAsked, LaunchInv, Reported

(* From the command line to the report sextant does what it was asked:       *)
(* StartIsAsAsked holds for every kubeconfig, profile, set of settings and   *)
(* registry of plugins.                                                      *)
THEOREM StartsAsAsked == LaunchSpec => []StartIsAsAsked
<1>1. LaunchInit => LaunchInv
  <2> SUFFICES ASSUME LaunchInit PROVE LaunchInv
    OBVIOUS
  <2>1. Prepared
    BY DEF LaunchInit, Prepared, Resolving, Started
  <2>2. ContextsChosen
    BY DEF LaunchInit, ContextsChosen, NoChoice, Roles, Started
  <2>3. RunningFollows
    BY DEF LaunchInit, RunningFollows, Idle, Unprobed
  <2>4. Reported
    BY DEF LaunchInit, Reported, ReportTellsAll
  <2> QED BY <2>1, <2>2, <2>3, <2>4 DEF LaunchInv
<1>2. LaunchInv /\ [LaunchNext]_launchVars => LaunchInv'
  <2> SUFFICES ASSUME LaunchInv, [LaunchNext]_launchVars PROVE LaunchInv'
    OBVIOUS
  <2>1. CASE Parse
    BY <2>1, ParseKeeps
  <2>2. CASE Layer
    BY <2>2, LayerKeeps
  <2>3. CASE ShowDemo
    BY <2>3, ShowDemoKeeps
  <2>4. CASE Prepare
    BY <2>4, PrepareKeeps
  <2>5. CASE Resolve
    BY <2>5, ResolveKeeps
  <2>6. CASE Ask
    BY <2>6, AskKeeps
  <2>7. CASE StartWatchers
    BY <2>7, StartWatchersKeeps
  <2>8. CASE \E p \in Plugins : ProbePlugin(p)
    BY <2>8, ProbePluginKeeps
  <2>9. CASE \E i \in DOMAIN Plugin : Record(i)
    BY <2>9, RecordKeeps
  <2>10. CASE Activate
    BY <2>10, ActivateKeeps
  <2>11. CASE DebugSnapshot
    BY <2>11, DebugSnapshotKeeps
  <2>12. CASE Quit
    BY <2>12, QuitKeeps
  <2>13. CASE UNCHANGED launchVars
    BY <2>13, LaunchStutters
  <2> QED BY <2>1, <2>2, <2>3, <2>4, <2>5, <2>6, <2>7, <2>8, <2>9, <2>10, <2>11, <2>12, <2>13 DEF LaunchNext
<1>3. LaunchInv => StartIsAsAsked
  BY InvMeansAsAsked
<1> QED BY <1>1, <1>2, <1>3, PTL DEF LaunchSpec

-------------------------------------------------------------------------------
(* Payloads: what is made of an answer. *)

(* SumAllocated is what its recursive definition says. *)
LEMMA SumsAre ==
    ASSUME NEW pools \in Seq(PoolType)
    PROVE  \E f : /\ f[0] = NoAddresses
                  /\ \A n \in Nat : n + 1 <= Len(pools) =>
                       f[n + 1] = Pool(f[n].used + pools[n + 1].used, f[n].available + pools[n + 1].available)
                  /\ SumAllocated(pools) = f[Len(pools)]
<1> DEFINE N == Len(pools)
           Step(i, prev) ==
             IF i = 0 THEN NoAddresses
             ELSE Pool(prev.used + pools[i].used, prev.available + pools[i].available)
           S == {n \in Nat : \E f : f = [i \in 0 .. n |-> Step(i, f[i - 1])]}
<1>0. N \in Nat
  OBVIOUS
<1>1. 0 \in S
  <2>1. [i \in 0 .. 0 |-> NoAddresses] = [i \in 0 .. 0 |-> Step(i, [j \in 0 .. 0 |-> NoAddresses][i - 1])]
    OBVIOUS
  <2> QED BY <2>1
<1>2. ASSUME NEW n \in S PROVE n + 1 \in S
  <2> HIDE DEF Step
  <2>1. PICK f : f = [i \in 0 .. n |-> Step(i, f[i - 1])]
    BY <1>2
  <2> DEFINE g == [i \in 0 .. n + 1 |-> IF i = n + 1 THEN Step(n + 1, f[n]) ELSE f[i]]
  <2>2. \A i \in 0 .. n + 1 : i - 1 \in 0 .. n => g[i - 1] = f[i - 1]
    OBVIOUS
  <2>3. \A x, y : Step(0, x) = Step(0, y)
    BY DEF Step
  <2>4. ASSUME NEW i \in 0 .. n + 1 PROVE g[i] = Step(i, g[i - 1])
    <3>1. CASE i = n + 1
      BY <3>1, <2>2
    <3>2. CASE i = 0
      BY <3>2, <2>1, <2>3
    <3>3. CASE i \in 1 .. n
      BY <3>3, <2>1, <2>2
    <3> QED BY <3>1, <3>2, <3>3
  <2>5. g = [i \in 0 .. n + 1 |-> Step(i, g[i - 1])]
    BY <2>4
  <2>6. \E h : h = [i \in 0 .. n + 1 |-> Step(i, h[i - 1])]
    <3> HIDE DEF g
    <3> QED BY <2>5
  <2> QED BY <2>6
<1>3. N \in S
  <2> HIDE DEF S, N
  <2> QED BY <1>0, <1>1, <1>2, Induct DEF S
<1> DEFINE upTo[i \in 0 .. Len(pools)] ==
             IF i = 0 THEN NoAddresses
             ELSE Pool(upTo[i - 1].used + pools[i].used, upTo[i - 1].available + pools[i].available)
<1>4. upTo = [i \in 0 .. N |-> Step(i, upTo[i - 1])]
  BY <1>3
<1>5. SumAllocated(pools) = upTo[N]
  BY DEF SumAllocated
<1> HIDE DEF upTo
<1>6. \A i \in 0 .. N : upTo[i] = Step(i, upTo[i - 1])
  <2> HIDE DEF Step, N
  <2> QED BY <1>4
<1>7. upTo[0] = NoAddresses
  BY <1>0, <1>4
<1>8. ASSUME NEW n \in Nat, n + 1 <= N
      PROVE  upTo[n + 1] = Pool(upTo[n].used + pools[n + 1].used, upTo[n].available + pools[n + 1].available)
  <2>1. n + 1 \in 0 .. N /\ n + 1 # 0 /\ n + 1 - 1 = n
    BY <1>0, <1>8
  <2>2. upTo[n + 1] = Step(n + 1, upTo[n + 1 - 1])
    BY <1>6, <2>1
  <2> QED BY <2>1, <2>2
<1> QED BY <1>5, <1>7, <1>8

(* The sum of pools counts something when one of them does, and no more. *)
LEMMA SumsCount ==
    ASSUME NEW pools \in Seq(PoolType)
    PROVE  /\ SumAllocated(pools) \in PoolType
           /\ Counted(SumAllocated(pools)) <=> \E i \in DOMAIN pools : Counted(pools[i])
<1> DEFINE N == Len(pools)
<1>1. PICK f : /\ f[0] = NoAddresses
               /\ \A n \in Nat : n + 1 <= N =>
                    f[n + 1] = Pool(f[n].used + pools[n + 1].used, f[n].available + pools[n + 1].available)
               /\ SumAllocated(pools) = f[N]
  BY SumsAre
<1> DEFINE S == {n \in Nat : n <= N =>
                   f[n] \in PoolType /\ (Counted(f[n]) <=> \E i \in 1 .. n : Counted(pools[i]))}
<1>2. N \in Nat /\ DOMAIN pools = 1 .. N /\ \A i \in 1 .. N : pools[i] \in PoolType
  OBVIOUS
<1>3. 0 \in S
  BY <1>1 DEF NoAddresses, PoolType, Counted
<1>4. ASSUME NEW n \in S PROVE n + 1 \in S
  <2> SUFFICES ASSUME n + 1 <= N
               PROVE  f[n + 1] \in PoolType /\ (Counted(f[n + 1]) <=> \E i \in 1 .. n + 1 : Counted(pools[i]))
    OBVIOUS
  <2>1. n \in Nat /\ n + 1 \in 1 .. N /\ 1 .. n + 1 = (1 .. n) \cup {n + 1}
    BY <1>2
  <2>2. f[n] \in PoolType /\ pools[n + 1] \in PoolType /\ (Counted(f[n]) <=> \E i \in 1 .. n : Counted(pools[i]))
    BY <1>2, <2>1
  <2>3. f[n + 1] = Pool(f[n].used + pools[n + 1].used, f[n].available + pools[n + 1].available)
    BY <1>1, <2>1
  <2>4. f[n + 1] \in PoolType /\ (Counted(f[n + 1]) <=> Counted(f[n]) \/ Counted(pools[n + 1]))
    <3> DEFINE a == f[n]
               b == pools[n + 1]
    <3>1. a.used \in Nat /\ a.available \in Nat /\ b.used \in Nat /\ b.available \in Nat
      BY <2>2 DEF PoolType
    <3>2. f[n + 1] = Pool(a.used + b.used, a.available + b.available)
      BY <2>3
    <3> HIDE DEF a, b
    <3>3. /\ Pool(a.used + b.used, a.available + b.available) \in PoolType
          /\ Counted(Pool(a.used + b.used, a.available + b.available)) <=> Counted(a) \/ Counted(b)
      <4>1. PICK x \in Nat, y \in Nat, u \in Nat, v \in Nat :
               a.used = x /\ a.available = y /\ b.used = u /\ b.available = v
        BY <3>1
      <4>2. x + u \in Nat /\ y + v \in Nat /\ (x + u > 0 <=> x > 0 \/ u > 0) /\ (y + v > 0 <=> y > 0 \/ v > 0)
        OBVIOUS
      <4>3. Pool(x + u, y + v) \in PoolType
        BY <4>2 DEF Pool, PoolType
      <4>4. Counted(Pool(x + u, y + v)) <=> x + u > 0 \/ y + v > 0
        BY DEF Counted, Pool
      <4>5. (Counted(a) <=> x > 0 \/ y > 0) /\ (Counted(b) <=> u > 0 \/ v > 0)
        BY <4>1 DEF Counted
      <4> QED BY <4>1, <4>2, <4>3, <4>4, <4>5
    <3> QED BY <3>2, <3>3 DEF a, b
  <2> QED BY <2>1, <2>2, <2>4
<1>5. S = Nat
  <2>1. S \in SUBSET Nat
    OBVIOUS
  <2> HIDE DEF S
  <2> QED BY <1>3, <1>4, <2>1, Induct
<1>6. f[N] \in PoolType /\ (Counted(f[N]) <=> \E i \in 1 .. N : Counted(pools[i]))
  <2>1. N \in S
    BY <1>2, <1>5
  <2> QED BY <1>2, <2>1
<1> QED BY <1>1, <1>2, <1>6

(* Whichever form a release uses, addresses it counts are counted. *)
LEMMA NoAddressIsLost ==
    ASSUME NEW r \in IpamReading, ~Consistent(r.text)
    PROVE  SaysAddresses(r) <=> Counted(IpamFrom(r))
<1>1. /\ r.flat \in PoolType /\ r.family.pool \in PoolType /\ r.family.pools \in Seq(PoolType)
      /\ r.family.count \in Nat /\ r.allocations \in Nat
      /\ r.family.shape \in {"none", "object", "pools", "addresses"}
  BY DEF IpamReading
<1> DEFINE sum == SumAllocated(r.family.pools)
<1>2. Counted(sum) <=> \E i \in DOMAIN r.family.pools : Counted(r.family.pools[i])
  BY <1>1, SumsCount
<1> HIDE DEF sum
<1>3. \A n \in Nat : Counted(Pool(n, 0)) <=> n > 0
  BY DEF Counted, Pool
<1>4. IpamFrom(r) = IF Counted(r.flat) THEN r.flat
                    ELSE IF r.family.shape = "object" /\ Counted(r.family.pool) THEN r.family.pool
                    ELSE IF r.family.shape \in {"object", "pools"} /\ Counted(sum) THEN sum
                    ELSE IF r.family.shape = "addresses" /\ r.family.count > 0 THEN Pool(r.family.count, 0)
                    ELSE Pool(r.allocations, 0)
  BY DEF IpamFrom, sum
<1>5. CASE Counted(r.flat)
  BY <1>4, <1>5 DEF SaysAddresses
<1>6. CASE ~Counted(r.flat) /\ r.family.shape = "object" /\ Counted(r.family.pool)
  BY <1>4, <1>6 DEF SaysAddresses
<1>7. CASE ~Counted(r.flat) /\ ~(r.family.shape = "object" /\ Counted(r.family.pool))
  BY <1>1, <1>2, <1>3, <1>4, <1>7 DEF SaysAddresses
<1> QED BY <1>5, <1>6, <1>7

(* A document has the sections of its kind, each as it may be. *)
DocumentsAreRead ==
    /\ kindOf \in {"ceph", "cilium"}
    /\ DOMAIN document = DOMAIN Documents(kindOf)
    /\ \A name \in DOMAIN document : document[name] \in Documents(kindOf)[name] \cup {LeftOut}

(* Documents read as they are say nothing that is not in them.               *)
LEMMA ReadMeansNothingMore == ASSUME DocumentsAreRead, ~garbage PROVE NothingIsReadIntoIt
<1>0. /\ Misshapen.is = "misshapen" /\ LeftOut.is = "left out"
      /\ Documents("ceph") = CephDocuments /\ Documents("cilium") = CiliumDocuments
  BY DEF Misshapen, LeftOut, Documents
<1>1. \A name \in DOMAIN document : document[name].is = "misshapen" <=> document[name] = Misshapen
  <2> SUFFICES ASSUME NEW name \in DOMAIN document, document[name].is = "misshapen"
               PROVE  document[name] = Misshapen
    BY <1>0
  <2>1. document[name] \in Documents(kindOf)[name] /\ name \in DOMAIN Documents(kindOf)
    BY <1>0 DEF DocumentsAreRead
  <2> QED BY <1>0, <2>1, PayloadsAssumption DEF DocumentsAreRead
<1>2. Unreadable(document) = {name \in DOMAIN document : document[name].is = "misshapen"}
  BY <1>1 DEF Unreadable
<1>3. CASE kindOf = "ceph"
  <2>1. ParseStatus = ParseCeph(document)
    BY <1>3 DEF ParseStatus
  <2>2. CephHealthy(ParseCeph(document)) => \A name \in {"health", "osdmap"} : document[name].is = "readable"
    BY DEF CephHealthy, ParseCeph, SectionOf, NoOSDs
  <2>3. ParseCeph(document).unreadable = Unreadable(document)
    BY DEF ParseCeph
  <2> QED BY <1>2, <1>3, <2>1, <2>2, <2>3 DEF NothingIsReadIntoIt
<1>4. CASE kindOf = "cilium"
  <2>1. ParseStatus = ParseCilium(document)
    BY <1>4 DEF ParseStatus
  <2> DEFINE st == ParseCilium(document)
  <2>2. /\ st.unreadable = Unreadable(document)
        /\ st.ipam = IF document["ipam"].is = "readable" THEN IpamFrom(document["ipam"].v) ELSE NoAddresses
        /\ document["controllers"].is # "readable" => st.controllers = NoControllers
    BY DEF ParseCilium
  <2> HIDE DEF st
  <2>3. ASSUME document["ipam"].is = "readable"
        PROVE  LET r == document["ipam"].v
               IN IF Consistent(r.text)
                  THEN st.ipam = Pool(r.text.used, r.text.total - r.text.used)
                  ELSE SaysAddresses(r) <=> Counted(st.ipam)
    <3> DEFINE r == document["ipam"].v
    <3>1. r \in IpamReading
      <4>1. "ipam" \in DOMAIN document
        BY <1>0, <1>4, PayloadsAssumption DEF DocumentsAreRead, CiliumSections
      <4>2. document["ipam"] \in CiliumDocuments["ipam"]
        BY <1>0, <1>4, <2>3, <4>1 DEF DocumentsAreRead
      <4> QED BY <2>3, <4>2, PayloadsAssumption
    <3>2. st.ipam = IpamFrom(r)
      BY <2>2, <2>3
    <3> HIDE DEF r
    <3>3. CASE Consistent(r.text)
      BY <3>2, <3>3 DEF IpamFrom, r
    <3>4. CASE ~Consistent(r.text)
      BY <3>1, <3>2, <3>4, NoAddressIsLost DEF r
    <3> QED BY <3>3, <3>4 DEF r
  <2>4. "controllers" \in Unreadable(document) => st.controllers = NoControllers
    BY <2>2 DEF Unreadable, Misshapen
  <2> QED BY <1>2, <1>4, <2>1, <2>2, <2>3, <2>4 DEF NothingIsReadIntoIt, st
<1> QED BY <1>3, <1>4 DEF DocumentsAreRead

(* Whatever a program prints, nothing is read into it. *)
THEOREM ReadsWhatIsThere == PayloadsSpec => []NothingIsReadIntoIt
<1>1. PayloadsInit => DocumentsAreRead
  BY DEF PayloadsInit, DocumentsAreRead
<1>2. DocumentsAreRead /\ [PayloadsNext]_payloadVars => DocumentsAreRead'
  <2> SUFFICES ASSUME DocumentsAreRead, [PayloadsNext]_payloadVars PROVE DocumentsAreRead'
    OBVIOUS
  <2>1. CASE \E name \in DOMAIN document : Serve(name)
    BY <2>1 DEF Serve, DocumentsAreRead, Documents
  <2>2. CASE ServeGarbage
    BY <2>2 DEF ServeGarbage, DocumentsAreRead, Documents
  <2>3. CASE UNCHANGED payloadVars
    BY <2>3 DEF payloadVars, DocumentsAreRead, Documents
  <2> QED BY <2>1, <2>2, <2>3 DEF PayloadsNext
<1>3. DocumentsAreRead => NothingIsReadIntoIt
  <2>1. garbage => NothingIsReadIntoIt
    BY DEF NothingIsReadIntoIt
  <2> QED BY <2>1, ReadMeansNothingMore
<1> QED BY <1>1, <1>2, <1>3, PTL DEF PayloadsSpec

-------------------------------------------------------------------------------
(* Profiles. *)

(* The least of a set of numbers that is not empty. *)
LEMMA MinIsLeast ==
    ASSUME NEW T \in SUBSET Nat, T # {}
    PROVE  /\ Min(T) \in T /\ \A y \in T : Min(T) <= y
           /\ \A x \in T : (\A y \in T : x <= y) => x = Min(T)
<1>1. Min(T) \in T /\ \A y \in T : Min(T) <= y
  BY HasLeast DEF Min
<1>2. ASSUME NEW x \in T, \A y \in T : x <= y PROVE x = Min(T)
  <2>1. x <= Min(T) /\ Min(T) <= x /\ x \in Nat /\ Min(T) \in Nat
    BY <1>1, <1>2
  <2> QED BY <2>1
<1> QED BY <1>1, <1>2

(* A file that is found holds a document; whatever is found is one of five.   *)
FilesHold ==
    /\ files \in [Where \X Name -> [is : {"file"}, doc : Document]
                                   \cup [is : {"absent", "unreadable", "malformed"}]]
    /\ asked \in Name \cup {Empty}

(* What a name is found as.                                                  *)
LEMMA FoundHolds ==
    ASSUME FilesHold, NEW name \in Name
    PROVE  /\ Found(name).is = "file" => Found(name).doc \in Document
           /\ Found(name).is \in {"file", "unreadable", "malformed", "unknown"}
           /\ Found(name).is = "unknown" => name \notin Available
<1> DEFINE there == {i \in DOMAIN Place : files[<<Place[i], name>>].is # "absent"}
<1>1. CASE there = {}
  <2>1. Found(name).is = "unknown"
    BY <1>1 DEF Found
  <2>2. name \notin Available
    BY <1>1 DEF Available, Where
  <2> QED BY <2>1, <2>2
<1>2. CASE there # {}
  <2>1. there \in SUBSET Nat
    <3>1. DOMAIN Place = 1 .. Len(Place) /\ Len(Place) \in Nat
      <4>1. Place \in Seq(ToSet(Place))
        BY ProfilesAssumption
      <4> QED BY <4>1
    <3> QED BY <3>1
  <2> HIDE DEF there
  <2>2. Min(there) \in there
    BY <1>2, <2>1, MinIsLeast
  <2>3. PICK i \in DOMAIN Place : i = Min(there) /\ files[<<Place[i], name>>].is # "absent"
    BY <2>2 DEF there
  <2>4. Found(name) = files[<<Place[i], name>>]
    BY <1>2, <2>3 DEF Found, there
  <2>5. <<Place[i], name>> \in Where \X Name
    BY DEF Where
  <2>6. files[<<Place[i], name>>] \in [is : {"file"}, doc : Document] \cup [is : {"absent", "unreadable", "malformed"}]
    BY <2>5 DEF FilesHold
  <2> QED BY <2>3, <2>4, <2>6
<1> QED BY <1>1, <1>2

(* What the k-th of n values and of n maps and those after it come to, the   *)
(* nearest first.                                                            *)
ValueFrom(v, n, k, unset, got) ==
    LET setting == {i \in k .. n : v[i] # unset}
    IN got = IF setting = {} THEN unset ELSE v[Min(setting)]

MapFrom(m, n, k, got) ==
    /\ DOMAIN got = UNION {DOMAIN m[i] : i \in k .. n}
    /\ \A x \in DOMAIN got : got[x] = m[Min({i \in k .. n : x \in DOMAIN m[i]})][x]

(* The nearest from k on is k when it is one, else the nearest after it. *)
LEMMA NearestIsNext ==
    ASSUME NEW n \in Nat, NEW k \in 1 .. n, NEW T \in SUBSET (k .. n)
    PROVE  /\ k \in T => Min(T) = k
           /\ k \notin T => T = T \cap (k + 1 .. n)
<1>1. T \in SUBSET Nat /\ \A y \in T : k <= y
  OBVIOUS
<1>2. k \notin T => T = T \cap (k + 1 .. n)
  <2> SUFFICES ASSUME k \notin T, NEW x \in T PROVE x \in k + 1 .. n
    OBVIOUS
  <2>1. x \in k .. n /\ x # k
    OBVIOUS
  <2> QED BY <2>1
<1> QED BY <1>1, <1>2, MinIsLeast

(* The value from a layer up is the layer's own, or that from the next.      *)
LEMMA ValueOver ==
    ASSUME NEW n \in Nat, NEW k \in 1 .. n, NEW v, NEW unset, NEW got, ValueFrom(v, n, k + 1, unset, got)
    PROVE  ValueFrom(v, n, k, unset, IF v[k] # unset THEN v[k] ELSE got)
<1> DEFINE T == {i \in k .. n : v[i] # unset}
           U == {i \in k + 1 .. n : v[i] # unset}
<1>1. T \in SUBSET (k .. n) /\ T \cap (k + 1 .. n) = U /\ (k \in T <=> v[k] # unset)
  OBVIOUS
<1>2. (k \in T => Min(T) = k) /\ (k \notin T => T = U)
  <2> HIDE DEF T, U
  <2> QED BY <1>1, NearestIsNext
<1>3. got = IF U = {} THEN unset ELSE v[Min(U)]
  BY DEF ValueFrom
<1> HIDE DEF T, U
<1> QED BY <1>1, <1>2, <1>3 DEF ValueFrom, T

(* The same of a map, key by key.                                            *)
LEMMA MapOver ==
    ASSUME NEW n \in Nat, NEW k \in 1 .. n, NEW m, NEW got, NEW more,
           MapFrom(m, n, k + 1, got),
           DOMAIN more = DOMAIN got \cup DOMAIN m[k],
           \A x \in DOMAIN more : more[x] = IF x \in DOMAIN m[k] THEN m[k][x] ELSE got[x]
    PROVE  MapFrom(m, n, k, more)
<1> DEFINE T(x) == {i \in k .. n : x \in DOMAIN m[i]}
           U(x) == {i \in k + 1 .. n : x \in DOMAIN m[i]}
<1>1. k .. n = (k + 1 .. n) \cup {k}
  OBVIOUS
<1>2. DOMAIN got = UNION {DOMAIN m[i] : i \in k + 1 .. n}
  BY DEF MapFrom
<1>3. DOMAIN more = UNION {DOMAIN m[i] : i \in k .. n}
  BY <1>1, <1>2
<1>4. ASSUME NEW x \in DOMAIN more PROVE more[x] = m[Min(T(x))][x]
  <2>1. T(x) \in SUBSET (k .. n) /\ T(x) \cap (k + 1 .. n) = U(x) /\ (k \in T(x) <=> x \in DOMAIN m[k])
    OBVIOUS
  <2>2. (k \in T(x) => Min(T(x)) = k) /\ (k \notin T(x) => T(x) = U(x))
    <3> HIDE DEF T, U
    <3> QED BY <2>1, NearestIsNext
  <2>3. x \in DOMAIN got => got[x] = m[Min(U(x))][x]
    BY DEF MapFrom
  <2> HIDE DEF T, U
  <2> QED BY <1>4, <2>1, <2>2, <2>3
<1> QED BY <1>3, <1>4 DEF MapFrom

(* The i-th document of the chain, and one of its settings blocks. *)
Doc(i) == Found(chain[i]).doc
BlockOf(i, b) == IF b \in DOMAIN Doc(i).plugins THEN Doc(i).plugins[b] ELSE EmptyMap

Values(f) == [i \in 1 .. Len(chain) |-> Doc(i)[f]]
Blocks(b) == [i \in 1 .. Len(chain) |-> BlockOf(i, b)]

(* What the profiles from the k-th of the chain on come to. *)
BlocksFrom(k) ==
    /\ DOMAIN loaded.plugins = UNION {DOMAIN Doc(i).plugins : i \in k .. Len(chain)}
    /\ \A b \in DOMAIN loaded.plugins : MapFrom(Blocks(b), Len(chain), k, loaded.plugins[b])

SwitchFrom(k) == loaded.all \in BOOLEAN /\ (loaded.all <=> \E i \in k .. Len(chain) : Doc(i).all)

LayeredFrom(k) ==
    /\ ValueFrom(Values("context"), Len(chain), k, Empty, loaded.context)
    /\ ValueFrom(Values("namespaces"), Len(chain), k, {}, loaded.namespaces)
    /\ ValueFrom(Values("grid"), Len(chain), k, <<>>, loaded.grid)
    /\ MapFrom(Values("display"), Len(chain), k, loaded.display)
    /\ BlocksFrom(k)
    /\ SwitchFrom(k)

(* What is layered is a document of the chain with a name filled in. *)
LayerOf(doc, layer) ==
    \A f \in {"extends", "context", "namespaces", "grid", "display", "plugins", "all"} : layer[f] = doc[f]

ChainIsRead(n) ==
    /\ \A i \in 1 .. n : chain[i] \in Name /\ Found(chain[i]).is = "file"
    /\ \A i, j \in 1 .. n : chain[i] = chain[j] => i = j

(* Sequences of what may be parsed. *)
ParsedLayer == {[d EXCEPT !.name = n] : d \in Document, n \in Name \cup {d.name : d \in Document}}

LayersAreRead(n) ==
    /\ layers \in Seq(ParsedLayer) /\ Len(layers) = n
    /\ \A i \in 1 .. n : LayerOf(Doc(i), layers[i])

ProfilesInv ==
    /\ FilesHold
    /\ chain \in Seq(Name)
    /\ loading \in {"idle", "reading", "merging", "done"}
    /\ loading = "idle" => layers = <<>> /\ failure = Empty /\ chain = <<>>
    /\ loading \in {"reading", "merging"} => failure = Empty /\ asked # Empty
    /\ loading = "reading" => \E n \in Nat : Len(chain) = n + 1 /\ ChainIsRead(n) /\ LayersAreRead(n)
    /\ loading = "merging" =>
         /\ \E n \in Nat : Len(chain) = n /\ ChainIsRead(n)
         /\ \E k \in 1 .. Len(chain) : LayersAreRead(k) /\ LayeredFrom(k)
    /\ loading = "done" /\ failure = Empty /\ asked # Empty =>
         /\ \E n \in Nat : Len(chain) = n /\ n > 0 /\ ChainIsRead(n)
         /\ LayeredFrom(1) /\ Problems(loaded) = {}
    /\ ListedIsKnown

(* Merging a layer over those below it makes the layering one longer.        *)
LEMMA MergeKeeps ==
    ASSUME chain \in Seq(Name), NEW k \in 1 .. Len(chain) - 1, LayeredFrom(k + 1),
           NEW layer, LayerOf(Doc(k), layer), Doc(k).all \in BOOLEAN,
           loaded' = Merge(loaded, layer), UNCHANGED <<files, chain>>
    PROVE  LayeredFrom(k)'
<1> DEFINE n == Len(chain)
<1>1. n \in Nat /\ k \in 1 .. n /\ k < n /\ k \in Nat
  OBVIOUS
<1>2. /\ \A i : Doc(i)' = Doc(i)
      /\ \A i, b : BlockOf(i, b)' = BlockOf(i, b)
      /\ \A f : Values(f)' = Values(f)
      /\ \A b : Blocks(b)' = Blocks(b)
      /\ Len(chain') = n
  BY DEF Doc, Found, BlockOf, Values, Blocks
<1>3. /\ \A f : Values(f)[k] = Doc(k)[f]
      /\ \A b : Blocks(b)[k] = BlockOf(k, b)
  BY <1>1 DEF Values, Blocks
<1>4. /\ layer.context = Doc(k).context /\ layer.namespaces = Doc(k).namespaces /\ layer.grid = Doc(k).grid
      /\ layer.display = Doc(k).display /\ layer.plugins = Doc(k).plugins /\ layer.all = Doc(k).all
  BY DEF LayerOf
<1>5. /\ loaded'.context = IF Doc(k).context # Empty THEN Doc(k).context ELSE loaded.context
      /\ loaded'.namespaces = IF Doc(k).namespaces # {} THEN Doc(k).namespaces ELSE loaded.namespaces
      /\ loaded'.grid = IF Doc(k).grid # <<>> THEN Doc(k).grid ELSE loaded.grid
      /\ loaded'.display = MergeMap(loaded.display, Doc(k).display)
      /\ loaded'.plugins = MergeSettings(loaded.plugins, Doc(k).plugins)
      /\ loaded'.all = (loaded.all \/ Doc(k).all)
  BY <1>4 DEF Merge, Over
<1> HIDE DEF n
<1>6. ASSUME NEW f, NEW unset, ValueFrom(Values(f), n, k + 1, unset, loaded[f])
      PROVE  ValueFrom(Values(f), n, k, unset, IF Doc(k)[f] # unset THEN Doc(k)[f] ELSE loaded[f])
  <2> DEFINE v == Values(f)
  <2>1. v[k] = Doc(k)[f]
    BY <1>3
  <2>2. ValueFrom(v, n, k + 1, unset, loaded[f])
    BY <1>6
  <2> HIDE DEF v
  <2>3. ValueFrom(v, n, k, unset, IF v[k] # unset THEN v[k] ELSE loaded[f])
    BY <1>1, <2>2, ValueOver
  <2> QED BY <2>1, <2>3 DEF v
<1>7. /\ ValueFrom(Values("context"), n, k, Empty, loaded'.context)
      /\ ValueFrom(Values("namespaces"), n, k, {}, loaded'.namespaces)
      /\ ValueFrom(Values("grid"), n, k, <<>>, loaded'.grid)
  <2>1. ValueFrom(Values("context"), n, k, Empty, loaded'.context)
    BY <1>5, <1>6 DEF LayeredFrom, n
  <2>2. ValueFrom(Values("namespaces"), n, k, {}, loaded'.namespaces)
    BY <1>5, <1>6 DEF LayeredFrom, n
  <2>3. ValueFrom(Values("grid"), n, k, <<>>, loaded'.grid)
    BY <1>5, <1>6 DEF LayeredFrom, n
  <2> QED BY <2>1, <2>2, <2>3
<1>9. MapFrom(Values("display"), n, k, loaded'.display)
  <2> DEFINE m == Values("display")
             more == loaded'.display
             got == loaded.display
  <2>1. /\ MapFrom(m, n, k + 1, got)
        /\ DOMAIN more = DOMAIN got \cup DOMAIN m[k]
        /\ \A x \in DOMAIN more : more[x] = IF x \in DOMAIN m[k] THEN m[k][x] ELSE got[x]
    BY <1>3, <1>5 DEF LayeredFrom, MergeMap, n
  <2> HIDE DEF m, more, got
  <2>2. MapFrom(m, n, k, more)
    BY <1>1, <2>1, MapOver
  <2> QED BY <2>2 DEF m, more
<1>10. BlocksFrom(k)'
  <2> DEFINE old == loaded.plugins
             own == Doc(k).plugins
             new == loaded'.plugins
  <2>1. /\ DOMAIN old = UNION {DOMAIN Doc(i).plugins : i \in k + 1 .. n}
        /\ \A b \in DOMAIN old : MapFrom(Blocks(b), n, k + 1, old[b])
    BY DEF LayeredFrom, BlocksFrom, n
  <2>2. /\ DOMAIN new = DOMAIN old \cup DOMAIN own
        /\ \A b \in DOMAIN new : new[b] = IF b \in DOMAIN old \cap DOMAIN own THEN MergeMap(old[b], own[b])
                                          ELSE IF b \in DOMAIN own THEN own[b] ELSE old[b]
    BY <1>5 DEF MergeSettings
  <2>3. \A b : BlockOf(k, b) = IF b \in DOMAIN own THEN own[b] ELSE EmptyMap
    BY DEF BlockOf
  <2>4. DOMAIN new = UNION {DOMAIN Doc(i).plugins : i \in k .. n}
    <3>1. k .. n = (k + 1 .. n) \cup {k}
      BY <1>1
    <3> QED BY <2>1, <2>2, <3>1
  <2>5. DOMAIN EmptyMap = {}
    BY DEF EmptyMap
  <2>6. ASSUME NEW b \in DOMAIN new PROVE MapFrom(Blocks(b), n, k, new[b])
    <3> DEFINE m == Blocks(b)
    <3>1. m[k] = IF b \in DOMAIN own THEN own[b] ELSE EmptyMap
      BY <1>3, <2>3
    <3>2. CASE b \in DOMAIN old
      <4>1. MapFrom(m, n, k + 1, old[b])
        BY <2>1, <3>2
      <4>2. /\ DOMAIN new[b] = DOMAIN old[b] \cup DOMAIN m[k]
            /\ \A x \in DOMAIN new[b] : new[b][x] = IF x \in DOMAIN m[k] THEN m[k][x] ELSE old[b][x]
        <5>1. CASE b \in DOMAIN own
          BY <2>2, <2>6, <3>1, <3>2, <5>1 DEF MergeMap
        <5>2. CASE b \notin DOMAIN own
          BY <2>2, <2>5, <2>6, <3>1, <3>2, <5>2
        <5> QED BY <5>1, <5>2
      <4> HIDE DEF m, new, old
      <4> QED BY <1>1, <4>1, <4>2, MapOver DEF m
    <3>3. CASE b \notin DOMAIN old
      <4>1. b \in DOMAIN own /\ new[b] = own[b] /\ m[k] = own[b]
        BY <2>2, <2>6, <3>1, <3>3
      <4>2. \A i \in k + 1 .. n : m[i] = EmptyMap
        BY <1>1, <2>1, <3>3 DEF Blocks, BlockOf, n
      <4>3. MapFrom(m, n, k + 1, EmptyMap)
        BY <2>5, <4>2 DEF MapFrom
      <4> HIDE DEF m, new, old
      <4> QED BY <1>1, <2>5, <4>1, <4>3, MapOver DEF m
    <3> QED BY <3>2, <3>3
  <2> QED BY <1>2, <2>4, <2>6 DEF BlocksFrom
<1>11. SwitchFrom(k)'
  <2>1. loaded.all \in BOOLEAN /\ (loaded.all <=> \E i \in k + 1 .. n : Doc(i).all)
    BY DEF LayeredFrom, SwitchFrom, n
  <2>2. k .. n = (k + 1 .. n) \cup {k}
    BY <1>1
  <2>3. loaded'.all \in BOOLEAN /\ (loaded'.all <=> loaded.all \/ Doc(k).all)
    BY <1>5, <2>1
  <2> QED BY <1>2, <2>1, <2>2, <2>3 DEF SwitchFrom
<1> QED BY <1>2, <1>7, <1>9, <1>10, <1>11 DEF LayeredFrom, n

(* The last document of the chain is a layering of one.                      *)
LEMMA FirstKeeps ==
    ASSUME NEW n \in Nat \ {0}, Len(chain) = n, UNCHANGED <<files, chain>>,
           LayerOf(Doc(n), loaded'), Doc(n).all \in BOOLEAN
    PROVE  LayeredFrom(n)'
<1>1. n \in Nat /\ n \in 1 .. n
  OBVIOUS
<1>2. /\ \A i : Doc(i)' = Doc(i)
      /\ \A i, b : BlockOf(i, b)' = BlockOf(i, b)
      /\ \A f : Values(f)' = Values(f)
      /\ \A b : Blocks(b)' = Blocks(b)
      /\ Len(chain') = n
  BY DEF Doc, Found, BlockOf, Values, Blocks
<1>3. /\ \A f : Values(f)[n] = Doc(n)[f]
      /\ \A b : Blocks(b)[n] = BlockOf(n, b)
  BY <1>1 DEF Values, Blocks
<1>4. /\ loaded'.context = Doc(n).context /\ loaded'.namespaces = Doc(n).namespaces /\ loaded'.grid = Doc(n).grid
      /\ loaded'.display = Doc(n).display /\ loaded'.plugins = Doc(n).plugins /\ loaded'.all = Doc(n).all
  BY DEF LayerOf
<1>5. n .. n = {n} /\ \A T : n \in T /\ T \in SUBSET {n} => Min(T) = n
  <2>1. n .. n = {n}
    BY <1>1
  <2> QED BY <1>1, <2>1, NearestIsNext
<1>6. \A m : MapFrom(m, n, n, m[n])
  BY <1>5 DEF MapFrom
<1>7. \A v, unset : ValueFrom(v, n, n, unset, v[n])
  BY <1>5 DEF ValueFrom
<1>8. BlocksFrom(n)'
  <2>1. \A b \in DOMAIN loaded'.plugins : MapFrom(Blocks(b), n, n, loaded'.plugins[b])
    BY <1>3, <1>4, <1>6 DEF BlockOf
  <2>2. DOMAIN loaded'.plugins = UNION {DOMAIN Doc(i).plugins : i \in n .. n}
    BY <1>4, <1>5
  <2> QED BY <1>2, <2>1, <2>2 DEF BlocksFrom
<1>9. SwitchFrom(n)'
  BY <1>2, <1>4, <1>5 DEF SwitchFrom
<1> QED BY <1>2, <1>3, <1>4, <1>6, <1>7, <1>8, <1>9 DEF LayeredFrom

(* A failure's reason is never empty.                                        *)
LEMMA ReasonsAreGiven == Empty \notin {"cycle", "unknown", "unreadable", "malformed", "invalid"}
BY Zenon DEF Empty

(* A load that fails has no profile; a name that is unknown is not listed. *)
LEMMA FailKeeps ==
    ASSUME ProfilesInv, NEW why, Fail(why), why # Empty, why = "unknown" => Last(chain) \notin Available
    PROVE  ProfilesInv'
<1>1. FilesHold' /\ chain' \in Seq(Name) /\ loading' = "done" /\ failure' # Empty
  BY DEF ProfilesInv, Fail, FilesHold
<1>2. ListedIsKnown'
  BY DEF Fail, ListedIsKnown, Available
<1> QED BY <1>1, <1>2 DEF ProfilesInv

(* A load starts with an empty chain.                                        *)
LEMMA LoadKeeps == ASSUME ProfilesInv, Load PROVE ProfilesInv'
<1>1. loading = "idle" /\ layers = <<>> /\ failure = Empty /\ chain = <<>> /\ UNCHANGED <<files, asked, layers, failure>>
  BY DEF Load, ProfilesInv
<1>2. FilesHold' /\ ListedIsKnown'
  BY <1>1, ReasonsAreGiven DEF ProfilesInv, FilesHold, ListedIsKnown
<1>3. CASE asked = Empty
  BY <1>1, <1>2, <1>3 DEF Load, ProfilesInv
<1>4. CASE asked # Empty
  <2>1. loading' = "reading" /\ chain' = <<asked>> /\ asked \in Name
    BY <1>4 DEF Load, ProfilesInv, FilesHold
  <2>2. chain' \in Seq(Name) /\ Len(chain') = 0 + 1
    BY <2>1
  <2>3. ChainIsRead(0)'
    BY DEF ChainIsRead
  <2>4. LayersAreRead(0)'
    BY <1>1 DEF LayersAreRead
  <2> QED BY <1>1, <1>2, <1>4, <2>1, <2>2, <2>3, <2>4 DEF ProfilesInv
<1> QED BY <1>3, <1>4

(* A name is looked up and put on the chain, or the load fails.              *)
LEMMA VisitKeeps == ASSUME ProfilesInv, Visit PROVE ProfilesInv'
<1> DEFINE name == Last(chain)
           found == Found(name)
<1>1. /\ loading = "reading" /\ failure = Empty /\ asked # Empty /\ chain \in Seq(Name) /\ FilesHold
  BY DEF Visit, ProfilesInv
<1>2. PICK n \in Nat : Len(chain) = n + 1 /\ ChainIsRead(n) /\ LayersAreRead(n)
  BY <1>1 DEF ProfilesInv
<1>3. name = chain[n + 1] /\ name \in Name /\ \A i \in 1 .. n + 1 : chain[i] \in Name
  BY <1>1, <1>2 DEF Last
<1>4. /\ found.is = "file" => found.doc \in Document
      /\ found.is \in {"file", "unreadable", "malformed", "unknown"}
      /\ found.is = "unknown" => name \notin Available
  BY <1>1, <1>3, FoundHolds
<1>5. found = Found(chain[n + 1]) /\ (found.is = "file" => found.doc = Doc(n + 1))
  BY <1>3 DEF Doc
<1> HIDE DEF found, name
<1>6. CASE Fail("cycle")
  BY <1>6, FailKeeps, ReasonsAreGiven
<1>7. CASE found.is # "file" /\ Fail(found.is)
  BY <1>4, <1>7, FailKeeps, ReasonsAreGiven DEF name
<1>8. CASE name \notin ToSet(Front(chain)) /\ found.is = "file" /\ ~Fail("cycle")
  <2> DEFINE doc == found.doc
             child == [doc EXCEPT !.name = IF @ = Empty THEN name ELSE @]
  <2>1. /\ layers' = Append(layers, child)
        /\ IF child.extends = Empty
           THEN loading' = "merging" /\ loaded' = child /\ UNCHANGED chain
           ELSE chain' = Append(chain, child.extends) /\ UNCHANGED <<loading, loaded>>
        /\ UNCHANGED <<files, asked, failure>>
    BY <1>8 DEF Visit, found, name
  <2>2. /\ doc \in Document /\ doc = Doc(n + 1) /\ DOMAIN doc = DOMAIN Default
        /\ doc.extends \in Name \cup {Empty} /\ doc.all \in BOOLEAN
    BY <1>4, <1>5, <1>8, ProfilesAssumption
  <2>3. LayerOf(doc, child) /\ child \in ParsedLayer
    <3>1. \A f \in {"extends", "context", "namespaces", "grid", "display", "plugins", "all"} :
             f \in DOMAIN doc /\ f # "name"
      BY <2>2 DEF Default
    <3>2. child = [doc EXCEPT !.name = IF doc.name = Empty THEN name ELSE doc.name]
      OBVIOUS
    <3>3. child \in ParsedLayer
      <4> DEFINE own == IF doc.name = Empty THEN name ELSE doc.name
      <4>1. own \in Name \cup {d.name : d \in Document}
        BY <1>3, <2>2
      <4>2. child = [doc EXCEPT !.name = own]
        BY <3>2
      <4> HIDE DEF own, child, doc
      <4> QED BY <2>2, <4>1, <4>2 DEF ParsedLayer
    <3> QED BY <3>1, <3>3 DEF LayerOf
  <2> HIDE DEF child, doc
  <2>4. /\ \A i \in 1 .. n + 1 : Found(chain[i]).is = "file"
        /\ \A i, j \in 1 .. n + 1 : chain[i] = chain[j] => i = j
    <3>1. \A i \in 1 .. n : chain[i] # chain[n + 1]
      <4>1. Front(chain) = [i \in 1 .. n |-> chain[i]]
        BY <1>1, <1>2 DEF Front
      <4> QED BY <1>3, <1>8, <4>1 DEF ToSet
    <3> QED BY <1>2, <1>3, <1>5, <1>8, <3>1 DEF ChainIsRead
  <2>5. layers' \in Seq(ParsedLayer) /\ Len(layers') = n + 1
    BY <1>2, <2>1, <2>3 DEF LayersAreRead
  <2>6. \A i \in 1 .. n + 1 : LayerOf(Doc(i), layers'[i])
    BY <1>2, <2>1, <2>2, <2>3 DEF LayersAreRead
  <2>7. FilesHold' /\ ListedIsKnown'
    BY <1>1, <2>1, ReasonsAreGiven DEF FilesHold, ListedIsKnown
  <2>8. CASE child.extends = Empty
    <3>1. \A i : Doc(i)' = Doc(i) /\ Found(chain[i])' = Found(chain[i])
      BY <2>1, <2>8 DEF Doc, Found
    <3>2. ChainIsRead(n + 1)' /\ LayersAreRead(n + 1)'
      BY <1>3, <2>1, <2>4, <2>5, <2>6, <2>8, <3>1 DEF ChainIsRead, LayersAreRead
    <3>3. LayeredFrom(n + 1)'
      BY <1>2, <2>1, <2>2, <2>3, <2>8, FirstKeeps
    <3>4. loading' = "merging" /\ chain' \in Seq(Name) /\ Len(chain') = n + 1 /\ n + 1 \in 1 .. n + 1 /\ n + 1 \in Nat
      BY <1>1, <1>2, <2>1, <2>8
    <3> QED BY <1>1, <2>1, <2>7, <3>2, <3>3, <3>4 DEF ProfilesInv
  <2>9. CASE child.extends # Empty
    <3>1. child.extends \in Name
      BY <2>2, <2>3, <2>9 DEF LayerOf
    <3>2. chain' = Append(chain, child.extends) /\ UNCHANGED <<loading, files, asked, failure>>
      BY <2>1, <2>9
    <3>3. chain' \in Seq(Name) /\ Len(chain') = n + 1 + 1 /\ \A i \in 1 .. n + 1 : chain'[i] = chain[i]
      BY <1>1, <1>2, <3>1, <3>2
    <3>4. \A i \in 1 .. n + 1 : Doc(i)' = Doc(i) /\ Found(chain[i])' = Found(chain[i])
      BY <3>2, <3>3 DEF Doc, Found
    <3>5. ChainIsRead(n + 1)'
      BY <1>3, <2>4, <3>3, <3>4 DEF ChainIsRead
    <3>6. LayersAreRead(n + 1)'
      BY <2>5, <2>6, <3>4 DEF LayersAreRead
    <3>7. n + 1 \in Nat /\ loading' = "reading"
      <4>1. n + 1 \in Nat
        OBVIOUS
      <4>2. loading' = "reading"
        BY <1>1, <3>2
      <4> QED BY <4>1, <4>2
    <3> QED BY <1>1, <2>7, <3>2, <3>3, <3>5, <3>6, <3>7 DEF ProfilesInv
  <2> QED BY <2>8, <2>9
<1> QED BY <1>6, <1>7, <1>8 DEF Visit, found, name

(* The chain is merged from its far end.                                     *)
LEMMA UnwindKeeps == ASSUME ProfilesInv, Unwind PROVE ProfilesInv'
<1>1. /\ loading = "merging" /\ failure = Empty /\ asked # Empty /\ chain \in Seq(Name) /\ FilesHold
      /\ UNCHANGED <<files, asked, chain>>
  BY DEF Unwind, ProfilesInv
<1>2. PICK n \in Nat : Len(chain) = n /\ ChainIsRead(n)
  BY <1>1 DEF ProfilesInv
<1>3. PICK k \in 1 .. n : LayersAreRead(k) /\ LayeredFrom(k)
  BY <1>1, <1>2 DEF ProfilesInv
<1>4. Len(layers) = k /\ layers \in Seq(ParsedLayer) /\ k \in Nat /\ n > 0
  BY <1>2, <1>3 DEF LayersAreRead
<1>5. FilesHold' /\ chain' \in Seq(Name) /\ Len(chain') = n /\ ChainIsRead(n)'
  BY <1>1, <1>2 DEF FilesHold, ChainIsRead, Found
<1>6. CASE k = 1 /\ Problems(loaded) # {}
  <2>1. failure' = "invalid" /\ loading' = "done" /\ failure' # Empty
    BY <1>4, <1>6, ReasonsAreGiven DEF Unwind
  <2>2. ListedIsKnown'
    BY <2>1 DEF ListedIsKnown
  <2> QED BY <1>5, <2>1, <2>2 DEF ProfilesInv
<1>7. CASE k = 1 /\ Problems(loaded) = {}
  <2>1. loading' = "done" /\ UNCHANGED <<loaded, failure>>
    BY <1>4, <1>7 DEF Unwind
  <2>2. ListedIsKnown'
    BY <1>1, <2>1, ReasonsAreGiven DEF ListedIsKnown
  <2>3. LayeredFrom(1)'
    <3>1. \A i : Doc(i)' = Doc(i)
      BY <1>1 DEF Doc, Found
    <3>2. \A f, b : Values(f)' = Values(f) /\ Blocks(b)' = Blocks(b)
      BY <1>1, <3>1 DEF Values, Blocks, BlockOf
    <3>3. LayeredFrom(1)
      BY <1>3, <1>7
    <3> QED BY <1>1, <2>1, <3>1, <3>2, <3>3 DEF LayeredFrom, BlocksFrom, SwitchFrom
  <2>4. Problems(loaded)' = {}
    BY <1>7, <2>1
  <2> QED BY <1>4, <1>5, <2>1, <2>2, <2>3, <2>4 DEF ProfilesInv
<1>8. CASE k # 1
  <2> DEFINE rest == k - 1
  <2>1. rest \in 1 .. n - 1 /\ rest \in 1 .. k /\ k = rest + 1
    BY <1>4, <1>8
  <2>2. /\ loaded' = Merge(loaded, layers[rest])
        /\ layers' = SubSeq(layers, 1, rest)
        /\ UNCHANGED <<files, asked, chain, loading, failure>>
    BY <1>4, <1>8 DEF Unwind
  <2> HIDE DEF rest
  <2>3. LayerOf(Doc(rest), layers[rest]) /\ Doc(rest).all \in BOOLEAN
    <3>1. LayerOf(Doc(rest), layers[rest]) /\ rest \in 1 .. n
      BY <1>3, <2>1 DEF LayersAreRead
    <3>2. Doc(rest) \in Document
      BY <1>1, <1>2, <3>1, FoundHolds DEF ChainIsRead, Doc
    <3> QED BY <3>1, <3>2, ProfilesAssumption
  <2>4. LayeredFrom(rest)'
    BY <1>1, <1>2, <1>3, <2>1, <2>2, <2>3, MergeKeeps
  <2>5. LayersAreRead(rest)'
    <3>1. layers' \in Seq(ParsedLayer) /\ Len(layers') = rest /\ \A i \in 1 .. rest : layers'[i] = layers[i]
      BY <1>4, <2>1, <2>2
    <3>2. \A i : Doc(i)' = Doc(i)
      BY <1>1 DEF Doc, Found
    <3>3. \A i \in 1 .. rest : LayerOf(Doc(i), layers[i])
      BY <1>3, <2>1 DEF LayersAreRead
    <3> QED BY <3>1, <3>2, <3>3 DEF LayersAreRead
  <2>6. ListedIsKnown'
    BY <1>1, <2>2, ReasonsAreGiven DEF ListedIsKnown
  <2>7. rest \in 1 .. n
    BY <2>1
  <2> QED BY <1>1, <1>5, <2>2, <2>4, <2>5, <2>6, <2>7 DEF ProfilesInv
<1> QED BY <1>6, <1>7, <1>8

(* Each key of what n maps come to is its nearest one's. *)
LEMMA MapMeans ==
    ASSUME NEW n \in Nat, NEW m, NEW got, MapFrom(m, n, 1, got), NEW x \in DOMAIN got
    PROVE  LET S == {i \in 1 .. n : x \in DOMAIN m[i]}
           IN Min(S) \in 1 .. n /\ got[x] = m[Min(S)][x]
<1> DEFINE S == {i \in 1 .. n : x \in DOMAIN m[i]}
<1>1. S \in SUBSET Nat /\ S # {} /\ got[x] = m[Min(S)][x]
  BY DEF MapFrom
<1> HIDE DEF S
<1>2. Min(S) \in S
  BY <1>1, MinIsLeast
<1> QED BY <1>1, <1>2 DEF S

(* Nothing happens to what is loaded when nothing is done. *)
LEMMA IdleKeeps == ASSUME ProfilesInv, UNCHANGED profileVars PROVE ProfilesInv'
<1>1. /\ \A i : Doc(i)' = Doc(i) /\ Found(chain[i])' = Found(chain[i])
      /\ \A f, b : Values(f)' = Values(f) /\ Blocks(b)' = Blocks(b)
      /\ Available' = Available
  BY DEF profileVars, Doc, Found, Values, Blocks, BlockOf, Available
<1>2. \A n : (ChainIsRead(n)' <=> ChainIsRead(n)) /\ (LayersAreRead(n)' <=> LayersAreRead(n))
  BY <1>1 DEF profileVars, ChainIsRead, LayersAreRead
<1>3. \A k : LayeredFrom(k)' <=> LayeredFrom(k)
  BY <1>1 DEF profileVars, LayeredFrom, BlocksFrom, SwitchFrom
<1>4. (FilesHold' <=> FilesHold) /\ (ListedIsKnown' <=> ListedIsKnown) /\ (Problems(loaded)' = {} <=> Problems(loaded) = {})
  BY <1>1 DEF profileVars, FilesHold, ListedIsKnown
<1> QED BY <1>2, <1>3, <1>4 DEF ProfilesInv, profileVars

(* What the invariant says when the load has ended.                          *)
LEMMA InvMeansLayered == ASSUME ProfilesInv PROVE ProfileIsLayered
<1> SUFFICES ASSUME loading = "done", failure = Empty, asked # Empty PROVE ProfileIsLayered
  BY DEF ProfileIsLayered
<1>1. PICK n \in Nat : Len(chain) = n /\ ChainIsRead(n)
  BY DEF ProfilesInv
<1>2. LayeredFrom(1) /\ Problems(loaded) = {} /\ chain \in Seq(Name)
  BY DEF ProfilesInv
<1>3. DOMAIN chain = 1 .. n
  <2>1. Len(chain) = n
    BY <1>1
  <2>2. chain \in Seq(Name)
    BY <1>2
  <2> QED BY <2>1, <2>2
<1>4. \A i \in 1 .. n : Read[i] = Doc(i)
  BY <1>3 DEF Read, Doc
<1>5. (\A i \in DOMAIN chain : Found(chain[i]).is = "file") /\ IsInjective(chain)
  BY <1>1, <1>3 DEF ChainIsRead, IsInjective
<1>6. ASSUME NEW f, NEW unset, ValueFrom(Values(f), n, 1, unset, loaded[f])
      PROVE  LET setting == {i \in DOMAIN chain : Read[i][f] # unset}
             IN loaded[f] = IF setting = {} THEN unset ELSE Read[Min(setting)][f]
  <2> DEFINE S == {i \in 1 .. n : Values(f)[i] # unset}
  <2>1. {i \in DOMAIN chain : Read[i][f] # unset} = S
    BY <1>1, <1>3, <1>4 DEF Values
  <2>2. loaded[f] = IF S = {} THEN unset ELSE Values(f)[Min(S)]
    BY <1>6 DEF ValueFrom
  <2>3. S # {} => Min(S) \in S
    <3>1. S \in SUBSET Nat
      OBVIOUS
    <3> HIDE DEF S
    <3> QED BY <3>1, MinIsLeast
  <2>4. \A i \in S : Values(f)[i] = Read[i][f]
    BY <1>1, <1>4 DEF Values
  <2> HIDE DEF S
  <2> QED BY <2>1, <2>2, <2>3, <2>4
<1>8. SetBy(LAMBDA d : d.context, Empty, loaded.context)
  BY <1>1, <1>2, <1>6 DEF LayeredFrom, SetBy
<1>9. SetBy(LAMBDA d : d.namespaces, {}, loaded.namespaces)
  BY <1>1, <1>2, <1>6 DEF LayeredFrom, SetBy
<1>10. SetBy(LAMBDA d : d.grid, <<>>, loaded.grid)
  BY <1>1, <1>2, <1>6 DEF LayeredFrom, SetBy
<1>11. KeyByKey(LAMBDA d : d.display, loaded.display)
  <2> DEFINE m == Values("display")
             got == loaded.display
  <2>1. \A i \in 1 .. n : m[i] = Read[i].display
    BY <1>1, <1>4 DEF Values
  <2>2. MapFrom(m, n, 1, got)
    BY <1>1, <1>2 DEF LayeredFrom
  <2> HIDE DEF m, got
  <2>3. DOMAIN got = UNION {DOMAIN Read[i].display : i \in DOMAIN chain}
    BY <1>3, <2>1, <2>2 DEF MapFrom
  <2>4. ASSUME NEW x \in DOMAIN got
        PROVE  got[x] = Read[Min({i \in DOMAIN chain : x \in DOMAIN Read[i].display})].display[x]
    <3> DEFINE S == {i \in 1 .. n : x \in DOMAIN m[i]}
    <3>1. Min(S) \in 1 .. n /\ got[x] = m[Min(S)][x]
      BY <2>2, MapMeans
    <3>2. {i \in DOMAIN chain : x \in DOMAIN Read[i].display} = S
      BY <1>3, <2>1
    <3> HIDE DEF S
    <3> QED BY <2>1, <3>1, <3>2
  <2> QED BY <2>3, <2>4 DEF KeyByKey, got
<1>12. ASSUME NEW b \in UNION {DOMAIN Read[i].plugins : i \in DOMAIN chain}
       PROVE  /\ b \in DOMAIN loaded.plugins
              /\ KeyByKey(LAMBDA d : IF b \in DOMAIN d.plugins THEN d.plugins[b] ELSE EmptyMap,
                          loaded.plugins[b])
  <2> DEFINE m == Blocks(b)
             got == loaded.plugins[b]
             of(d) == IF b \in DOMAIN d.plugins THEN d.plugins[b] ELSE EmptyMap
  <2>1. \A i \in 1 .. n : m[i] = of(Read[i])
    BY <1>1, <1>4 DEF Blocks, BlockOf
  <2>2. b \in DOMAIN loaded.plugins
    BY <1>1, <1>2, <1>3, <1>4 DEF LayeredFrom, BlocksFrom
  <2>3. MapFrom(m, n, 1, got)
    BY <1>1, <1>2, <2>2 DEF LayeredFrom, BlocksFrom
  <2> HIDE DEF m, got, of
  <2>4. DOMAIN got = UNION {DOMAIN of(Read[i]) : i \in DOMAIN chain}
    BY <1>3, <2>1, <2>3 DEF MapFrom
  <2>5. ASSUME NEW x \in DOMAIN got
        PROVE  got[x] = of(Read[Min({i \in DOMAIN chain : x \in DOMAIN of(Read[i])})])[x]
    <3> DEFINE S == {i \in 1 .. n : x \in DOMAIN m[i]}
    <3>1. Min(S) \in 1 .. n /\ got[x] = m[Min(S)][x]
      BY <2>3, MapMeans
    <3>2. {i \in DOMAIN chain : x \in DOMAIN of(Read[i])} = S
      BY <1>3, <2>1
    <3> HIDE DEF S
    <3> QED BY <2>1, <3>1, <3>2
  <2> QED BY <2>2, <2>4, <2>5 DEF KeyByKey, got, of
<1>13. loaded.all <=> \E i \in DOMAIN chain : Read[i].all
  BY <1>1, <1>2, <1>3, <1>4 DEF LayeredFrom, SwitchFrom
<1> QED BY <1>2, <1>5, <1>8, <1>9, <1>10, <1>11, <1>12, <1>13 DEF ProfileIsLayered

(* Whatever profiles there are, a profile that loads takes each field, each *)
(* key and each setting from the nearest profile of its chain that sets it, *)
(* and hides no file that could not be read (Loader.Load, Merge).           *)
THEOREM LayersNearestFirst == ProfilesSpec => []ProfileIsLayered
<1>1. ProfilesInit => ProfilesInv
  <2>1. Empty \notin {"unknown"}
    BY ReasonsAreGiven
  <2> QED BY <2>1 DEF ProfilesInit, ProfilesInv, FilesHold, ListedIsKnown
<1>2. ProfilesInv /\ [ProfilesNext]_profileVars => ProfilesInv'
  <2> SUFFICES ASSUME ProfilesInv, [ProfilesNext]_profileVars PROVE ProfilesInv'
    OBVIOUS
  <2>1. CASE Load
    BY <2>1, LoadKeeps
  <2>2. CASE Visit
    BY <2>2, VisitKeeps
  <2>3. CASE Unwind
    BY <2>3, UnwindKeeps
  <2>4. CASE UNCHANGED profileVars
    BY <2>4, IdleKeeps
  <2> QED BY <2>1, <2>2, <2>3, <2>4 DEF ProfilesNext
<1>3. ProfilesInv => ProfileIsLayered
  BY InvMeansLayered
<1> QED BY <1>1, <1>2, <1>3, PTL DEF ProfilesSpec

-------------------------------------------------------------------------------
(* The poll of the cloud.                                                    *)

(* What makes KeysAgree inductive: the poll begins with no migrations. *)
KeysInv ==
    /\ at = "detect" => moves = Unpublished
    /\ KeysAgree

(* Between two polls the hosts the migrations were read with as draining are *)
(* the hosts the agents' pane shows as disabled (pollMigrations).            *)
THEOREM AgreesOnDrains == CloudSpec => []KeysAgree
<1>1. CloudInit => KeysInv
  BY DEF CloudInit, KeysInv, KeysAgree
<1>2. KeysInv /\ [CloudNext]_cloudVars => KeysInv'
  <2> SUFFICES ASSUME KeysInv, [CloudNext]_cloudVars PROVE KeysInv'
    OBVIOUS
  <2> USE DEF KeysInv, KeysAgree, DrainingHosts
  <2>1. CASE CloudChanges
    BY <2>1 DEF CloudChanges, Turn, keys
  <2>2. CASE DetectCloud
    BY <2>2 DEF DetectCloud, keys
  <2>3. CASE ComputeAgents \/ NetworkAgents \/ PutState \/ BrokenServers
    BY <2>3 DEF ComputeAgents, NetworkAgents, PutState, BrokenServers, keys
  <2>4. CASE MigrationsClient
    BY <2>4 DEF MigrationsClient, PutMoves, NoMoves, AfterMigrations
  <2>5. CASE ListMigrations
    <3>1. UNCHANGED state /\ moves'.draining = DrainingHosts(state)
      <4> DEFINE failed == [NoMoves EXCEPT !.known = draft.known, !.broken = draft.broken]
                 listed == [err |-> FALSE, known |-> draft.known, broken |-> draft.broken,
                            items |-> migrations, draining |-> DrainingHosts(state),
                            drains |-> PollDrains(migrations, draft.broken)]
      <4>1. failed.draining = DrainingHosts(state)
        BY DEF NoMoves
      <4>2. listed.draining = DrainingHosts(state)
        <5> HIDE DEF DrainingHosts
        <5> QED OBVIOUS
      <4>3. moves' \in {failed, listed} /\ UNCHANGED state
        <5> HIDE DEF KeysInv, KeysAgree, DrainingHosts
        <5> QED BY <2>5, Zenon DEF ListMigrations, PutMoves
      <4> HIDE DEF DrainingHosts, failed, listed
      <4> QED BY <4>1, <4>2, <4>3
    <3>2. at' \in {"idle", "inventory"}
      BY <2>5 DEF ListMigrations, PutMoves, AfterMigrations
    <3> HIDE DEF DrainingHosts
    <3>3. DrainingHosts(state)' = DrainingHosts(state)
      BY <3>1 DEF DrainingHosts
    <3> QED BY <3>1, <3>2, <3>3
  <2>6. CASE PollInventory
    BY <2>6 DEF PollInventory
  <2>7. CASE UNCHANGED cloudVars
    BY <2>7 DEF cloudVars, keys
  <2> QED BY <2>1, <2>2, <2>3, <2>4, <2>5, <2>6, <2>7 DEF CloudNext, CloudPoll
<1>3. KeysInv => KeysAgree
  BY DEF KeysInv
<1> QED BY <1>1, <1>2, <1>3, PTL DEF CloudSpec

====
