------------------------------ MODULE Counting -------------------------------
(***************************************************************************)
(* What the proofs of several modules need of numbers and of what is       *)
(* computed step by step: induction, with the numbers a formula holds of   *)
(* put together as a set; that a recursive function over 0..N has the      *)
(* values its definition gives it; sums of sequences; and the sequence     *)
(* that is made of a finite set.                                           *)
(***************************************************************************)
EXTENDS Integers, Sequences, FiniteSets, SequencesExt, FiniteSetsExt,
        WellFoundedInduction, FiniteSetTheorems, TLAPS

LessThan == {ss \in Nat \X Nat : ss[1] < ss[2]}
(* A set of numbers that is not empty has a least one. *)
LEMMA HasLeast == ASSUME NEW T \in SUBSET Nat, T # {} PROVE \E x \in T : \A y \in T : x <= y
<1>1. LessThan = OpToRel(<, Nat)
  BY DEF LessThan, OpToRel
<1>2. IsWellFoundedOn(LessThan, Nat)
  BY <1>1, NatLessThanWellFounded
<1>3. PICK x \in T : \A y \in T : ~(<<y, x>> \in LessThan)
  BY <1>2, WFMin
<1>4. ASSUME NEW y \in T, ~(x <= y) PROVE FALSE
  <2>1. <<y, x>>[1] < <<y, x>>[2] /\ <<y, x>> \in Nat \X Nat
    BY <1>4
  <2>2. <<y, x>> \in LessThan
    BY <2>1, Zenon DEF LessThan
  <2> QED BY <2>2, <1>3
<1> QED BY <1>4

(* Induction, with the numbers a formula holds of as a set. *)
LEMMA Induct ==
    ASSUME NEW S \in SUBSET Nat, 0 \in S, \A n \in S : n + 1 \in S
    PROVE  S = Nat
<1>1. SUFFICES ASSUME Nat \ S # {} PROVE FALSE
  OBVIOUS
<1>2. PICK x \in Nat \ S : \A y \in Nat \ S : x <= y
  BY <1>1, HasLeast
<1>3. x - 1 \in Nat /\ x - 1 \notin Nat \ S
  BY <1>2
<1> QED BY <1>2, <1>3

(* The least of a set of numbers is one of them. *)
LEMMA MinIsOne == ASSUME NEW T \in SUBSET Nat, T # {} PROVE Min(T) \in T
BY HasLeast DEF Min

(* What is one of a set of numbers, and no less than any, is its greatest;   *)
(* so with the least.                                                        *)
LEMMA MaxIs == ASSUME NEW T \in SUBSET Int, NEW x \in T, \A y \in T : y <= x PROVE Max(T) = x
<1>1. Max(T) \in T /\ \A y \in T : Max(T) >= y
  <2>1. \E z \in T : \A y \in T : z >= y
    OBVIOUS
  <2> QED BY <2>1 DEF Max
<1>2. Max(T) \in Int /\ x \in Int /\ Max(T) >= x /\ Max(T) <= x
  BY <1>1
<1> QED BY <1>2

LEMMA MinIs == ASSUME NEW T \in SUBSET Int, NEW x \in T, \A y \in T : x <= y PROVE Min(T) = x
<1>1. Min(T) \in T /\ \A y \in T : Min(T) <= y
  BY DEF Min
<1>2. Min(T) \in Int /\ x \in Int /\ Min(T) <= x /\ x <= Min(T)
  BY <1>1
<1> QED BY <1>2

(* One of finitely many numbers is the greatest. *)
LEMMA HasGreatest ==
    ASSUME NEW N \in Nat \ {0}, NEW h, \A i \in 1 .. N : h[i] \in Int
    PROVE  \E i \in 1 .. N : \A j \in 1 .. N : h[j] <= h[i]
<1> DEFINE S == {m \in Nat : m + 1 <= N => \E i \in 1 .. m + 1 : \A j \in 1 .. m + 1 : h[j] <= h[i]}
<1>1. 0 \in S
  OBVIOUS
<1>2. ASSUME NEW m \in S PROVE m + 1 \in S
  <2> SUFFICES ASSUME m + 1 + 1 <= N
               PROVE  \E i \in 1 .. m + 1 + 1 : \A j \in 1 .. m + 1 + 1 : h[j] <= h[i]
    OBVIOUS
  <2>1. m \in Nat /\ m + 1 <= N
    OBVIOUS
  <2>2. PICK i \in 1 .. m + 1 : \A j \in 1 .. m + 1 : h[j] <= h[i]
    BY <2>1
  <2> DEFINE k == m + 1 + 1
  <2>3. /\ 1 .. k = (1 .. m + 1) \cup {k} /\ i \in 1 .. k /\ k \in 1 .. k
        /\ h[k] \in Int /\ \A j \in 1 .. m + 1 : h[j] \in Int
    BY <2>1
  <2> HIDE DEF k
  <2>4. CASE h[k] <= h[i]
    BY <2>2, <2>3, <2>4
  <2>5. CASE h[i] <= h[k]
    <3>1. \A j \in 1 .. m + 1 : h[j] <= h[k]
      BY <2>2, <2>3, <2>5
    <3>2. \A j \in 1 .. k : h[j] <= h[k]
      BY <2>3, <3>1
    <3> QED BY <2>3, <3>2
  <2>6. h[k] <= h[i] \/ h[i] <= h[k]
    BY <2>3
  <2> QED BY <2>4, <2>5, <2>6 DEF k
<1>3. N - 1 \in S
  <2>1. S \in SUBSET Nat /\ N - 1 \in Nat
    OBVIOUS
  <2> HIDE DEF S
  <2> QED BY <1>1, <1>2, <2>1, Induct
<1> QED BY <1>3

(* Values that are each computed from the one before. *)
Steps(V, N, start, g) == N \in Nat /\ start \in V /\ g \in [1 .. N -> [V -> V]]

LEMMA Computed ==
    ASSUME NEW V, NEW N, NEW start, NEW g, Steps(V, N, start, g)
    PROVE  \E f \in [0 .. N -> V] : f[0] = start /\ \A n \in 1 .. N : f[n] = g[n][f[n - 1]]
<1> DEFINE Upto(m, f) == f[0] = start /\ \A n \in 1 .. m : f[n] = g[n][f[n - 1]]
           Ok(m) == \E f \in [0 .. m -> V] : Upto(m, f)
           S == {m \in Nat : m <= N => Ok(m)}
<1>0. N \in Nat /\ start \in V /\ g \in [1 .. N -> [V -> V]]
  BY DEF Steps
<1>1. 0 \in S
  <2>1. [i \in 0 .. 0 |-> start] \in [0 .. 0 -> V] /\ Upto(0, [i \in 0 .. 0 |-> start])
    BY <1>0
  <2>2. Ok(0)
    BY <2>1
  <2> HIDE DEF Ok
  <2> QED BY <2>2
<1>2. ASSUME NEW m \in S PROVE m + 1 \in S
  <2> HIDE DEF Ok
  <2>1. SUFFICES ASSUME m + 1 <= N PROVE Ok(m + 1)
    BY DEF S
  <2>2. PICK f \in [0 .. m -> V] : Upto(m, f)
    <3>1. Ok(m)
      BY <1>0, <1>2, <2>1
    <3> QED BY <3>1 DEF Ok
  <2> DEFINE h == [i \in 0 .. m + 1 |-> IF i = m + 1 THEN g[m + 1][f[m]] ELSE f[i]]
  <2>0. m \in Nat /\ m + 1 \in 1 .. N
    BY <1>0, <2>1
  <2>3. g[m + 1] \in [V -> V] /\ f[m] \in V
    BY <1>0, <2>0, <2>2
  <2>4. h \in [0 .. m + 1 -> V]
    <3>1. g[m + 1][f[m]] \in V
      BY <2>3
    <3>2. \A i \in 0 .. m + 1 : i = m + 1 \/ i \in 0 .. m
      BY <2>0
    <3>3. \A i \in 0 .. m + 1 : h[i] \in V
      BY <2>2, <3>1, <3>2
    <3> QED BY <3>3
  <2>5. h[0] = start
    <3>1. 0 # m + 1 /\ 0 \in 0 .. m + 1 /\ f[0] = start
      BY <2>0, <2>2
    <3> QED BY <3>1
  <2>6. ASSUME NEW n \in 1 .. m + 1 PROVE h[n] = g[n][h[n - 1]]
    <3>1. n - 1 \in 0 .. m + 1 /\ n - 1 # m + 1
      BY <2>0
    <3>2. h[n - 1] = f[n - 1]
      BY <3>1
    <3>3. CASE n = m + 1
      <4>1. n - 1 = m /\ h[n] = g[m + 1][f[m]]
        BY <2>0, <3>3
      <4> QED BY <3>2, <3>3, <4>1
    <3>4. CASE n \in 1 .. m
      <4>1. n # m + 1 /\ n \in 0 .. m + 1
        BY <2>0, <3>4
      <4>2. h[n] = f[n]
        BY <4>1
      <4>3. f[n] = g[n][f[n - 1]]
        BY <2>2, <3>4
      <4> QED BY <3>2, <4>2, <4>3
    <3>5. n = m + 1 \/ n \in 1 .. m
      BY <2>0
    <3> QED BY <3>3, <3>4, <3>5
  <2>7. Upto(m + 1, h)
    <3> HIDE DEF h
    <3> QED BY <2>5, <2>6
  <2> HIDE DEF h, Upto
  <2> QED BY <2>4, <2>7 DEF Ok
<1>3. N \in S
  <2> HIDE DEF S
  <2>1. S \in SUBSET Nat
    BY DEF S
  <2> QED BY <1>0, <1>1, <1>2, <2>1, Induct
<1>4. Ok(N)
  <2> HIDE DEF Ok
  <2> QED BY <1>3
<1> QED BY <1>4

(* The sequence made of a finite set has each of its elements once. *)
LEMMA SeqOfSet ==
    ASSUME NEW S, IsFiniteSet(S)
    PROVE  /\ SetToSeq(S) \in Seq(S) /\ ToSet(SetToSeq(S)) = S /\ Len(SetToSeq(S)) = Cardinality(S)
           /\ \A i, j \in DOMAIN SetToSeq(S) : SetToSeq(S)[i] = SetToSeq(S)[j] => i = j
<1> DEFINE q == SetToSeq(S)
           N == Cardinality(S)
<1>1. N \in Nat /\ ExistsBijection(1 .. N, S)
  BY FS_NatBijection, FS_CardinalityType
<1>2. q \in [1 .. N -> S] /\ IsInjective(q)
  <2>1. PICK f : f \in Bijection(1 .. N, S)
    BY <1>1 DEF ExistsBijection
  <2>2. f \in [1 .. N -> S] /\ IsInjective(f)
    BY <2>1 DEF Bijection, Injection, IsInjective
  <2> QED BY <2>2 DEF SetToSeq
<1> HIDE DEF q, N
<1>3. q \in Seq(S) /\ DOMAIN q = 1 .. N /\ Len(q) = N
  BY <1>1, <1>2
<1>4. \A i, j \in DOMAIN q : q[i] = q[j] => i = j
  BY <1>2 DEF IsInjective
<1>5. ToSet(q) = S
  <2>1. IsFiniteSet(1 .. N) /\ Cardinality(1 .. N) = N
    <3>1. PICK n \in Nat : n = N
      BY <1>1
    <3>2. 1 \in Int /\ n \in Int /\ (1 > n => n = 0)
      BY <3>1
    <3>3. IsFiniteSet(1 .. n) /\ Cardinality(1 .. n) = IF 1 > n THEN 0 ELSE n - 1 + 1
      BY <3>2, FS_Interval, Zenon
    <3> QED BY <3>1, <3>2, <3>3
  <2>2. ToSet(q) \subseteq S /\ q \in Bijection(1 .. N, ToSet(q))
    BY <1>2, <1>3, <1>4 DEF ToSet, Bijection, Injection, Surjection, IsInjective
  <2>3. Cardinality(ToSet(q)) = N
    BY <2>1, <2>2, FS_Bijection DEF ExistsBijection
  <2> QED BY <2>2, <2>3, FS_Subset DEF N
<1> QED BY <1>3, <1>4, <1>5 DEF q, N

-------------------------------------------------------------------------------
(* Sums. *)

(* The numbers of a sequence, one after another. *)
SumUp(q) ==
    LET upTo[n \in 0 .. Len(q)] == IF n = 0 THEN 0 ELSE upTo[n - 1] + q[n]
    IN upTo[Len(q)]

(* What the first of a sequence add up to, the first two, and so on. *)
LEMMA SumIs ==
    ASSUME NEW q \in Seq(Nat)
    PROVE  \E f \in [0 .. Len(q) -> Nat] :
             /\ f[0] = 0 /\ SumUp(q) = f[Len(q)]
             /\ \A n \in 1 .. Len(q) : f[n] = f[n - 1] + q[n]
<1> DEFINE N == Len(q)
           g == [n \in 1 .. N |-> [x \in Nat |-> x + q[n]]]
           upTo[n \in 0 .. Len(q)] == IF n = 0 THEN 0 ELSE upTo[n - 1] + q[n]
<1>1. N \in Nat /\ \A n \in 1 .. N : q[n] \in Nat
  OBVIOUS
<1>2. g \in [1 .. N -> [Nat -> Nat]]
  BY <1>1
<1>3. PICK f \in [0 .. N -> Nat] : f[0] = 0 /\ \A n \in 1 .. N : f[n] = g[n][f[n - 1]]
  <2> HIDE DEF g, N
  <2>1. Steps(Nat, N, 0, g)
    BY <1>1, <1>2 DEF Steps
  <2> QED BY <2>1, Computed
<1>4. \A n \in 1 .. N : f[n] = f[n - 1] + q[n]
  <2> HIDE DEF N
  <2> TAKE n \in 1 .. N
  <2>1. n - 1 \in 0 .. N
    BY <1>1
  <2>2. f[n - 1] \in Nat /\ f[n] = g[n][f[n - 1]]
    BY <1>3, <2>1
  <2> HIDE DEF g
  <2>3. g[n] = [x \in Nat |-> x + q[n]]
    BY DEF g
  <2> QED BY <2>2, <2>3
<1>5. f = [n \in 0 .. N |-> IF n = 0 THEN 0 ELSE f[n - 1] + q[n]]
  <2> HIDE DEF N
  <2>1. \A n \in 0 .. N : f[n] = IF n = 0 THEN 0 ELSE f[n - 1] + q[n]
    BY <1>1, <1>3, <1>4
  <2>2. f = [n \in 0 .. N |-> f[n]]
    BY <1>3
  <2> QED BY <2>1, <2>2
<1>6. upTo = [n \in 0 .. N |-> IF n = 0 THEN 0 ELSE upTo[n - 1] + q[n]]
  BY <1>5
<1>7. SumUp(q) = upTo[N]
  BY DEF SumUp
<1> HIDE DEF upTo
<1>8. upTo[0] = 0 /\ \A n \in 1 .. N : upTo[n] = upTo[n - 1] + q[n]
  <2> HIDE DEF N
  <2>1. \A n \in 0 .. N : upTo[n] = IF n = 0 THEN 0 ELSE upTo[n - 1] + q[n]
    BY <1>6
  <2> QED BY <1>1, <2>1
<1>9. \A m \in Nat : m <= N => upTo[m] = f[m]
  <2> HIDE DEF N
  <2> DEFINE S == {m \in Nat : m <= N => upTo[m] = f[m]}
  <2>1. 0 \in S
    BY <1>3, <1>8
  <2>2. ASSUME NEW m \in S PROVE m + 1 \in S
    <3>1. m \in Nat /\ m + 1 - 1 = m /\ (m + 1 <= N => m + 1 \in 1 .. N /\ m <= N)
      BY <1>1
    <3> QED BY <3>1, <2>2, <1>4, <1>8
  <2> HIDE DEF S
  <2>3. S = Nat
    <3>1. S \in SUBSET Nat
      BY DEF S
    <3> QED BY <2>1, <2>2, <3>1, Induct
  <2> QED BY <2>3 DEF S
<1>10. upTo[N] = f[N]
  BY <1>1, <1>9
<1> QED BY <1>3, <1>4, <1>7, <1>10

(* A sum is a number; what is nowhere more adds up to no more, and to less   *)
(* if it is less somewhere.                                                  *)
LEMMA SumType == ASSUME NEW q \in Seq(Nat) PROVE SumUp(q) \in Nat
<1>1. PICK f \in [0 .. Len(q) -> Nat] : SumUp(q) = f[Len(q)]
  BY SumIs
<1>2. Len(q) \in 0 .. Len(q)
  OBVIOUS
<1> QED BY <1>1, <1>2

LEMMA SumLess ==
    ASSUME NEW p \in Seq(Nat), NEW q \in Seq(Nat), Len(p) = Len(q),
           \A i \in 1 .. Len(q) : p[i] <= q[i]
    PROVE  SumUp(p) <= SumUp(q) /\ ((\E i \in 1 .. Len(q) : p[i] < q[i]) => SumUp(p) < SumUp(q))
<1> DEFINE N == Len(q)
<1>1. N \in Nat /\ (\A i \in 1 .. N : p[i] \in Nat /\ q[i] \in Nat) /\ Len(p) = N
  OBVIOUS
<1>2. PICK f \in [0 .. N -> Nat] : /\ f[0] = 0 /\ SumUp(p) = f[N]
                                  /\ \A n \in 1 .. N : f[n] = f[n - 1] + p[n]
  BY SumIs
<1>3. PICK h \in [0 .. N -> Nat] : /\ h[0] = 0 /\ SumUp(q) = h[N]
                                  /\ \A n \in 1 .. N : h[n] = h[n - 1] + q[n]
  BY SumIs
<1>4. \A i \in 1 .. N : p[i] <= q[i]
  OBVIOUS
<1> HIDE DEF N
<1> DEFINE S == {m \in Nat : m <= N => f[m] <= h[m] /\ ((\E i \in 1 .. m : p[i] < q[i]) => f[m] < h[m])}
<1>5. 0 \in S
  BY <1>2, <1>3
<1>6. ASSUME NEW m \in S PROVE m + 1 \in S
  <2> SUFFICES ASSUME m + 1 <= N
               PROVE  f[m + 1] <= h[m + 1] /\ ((\E i \in 1 .. m + 1 : p[i] < q[i]) => f[m + 1] < h[m + 1])
    OBVIOUS
  <2>1. m \in Nat /\ m + 1 \in 1 .. N /\ m \in 0 .. N /\ m <= N /\ m + 1 - 1 = m
    BY <1>1
  <2>2. f[m + 1] = f[m] + p[m + 1] /\ h[m + 1] = h[m] + q[m + 1]
    BY <1>2, <1>3, <2>1
  <2>3. f[m] <= h[m] /\ ((\E i \in 1 .. m : p[i] < q[i]) => f[m] < h[m])
    BY <2>1
  <2>4. /\ f[m] \in Nat /\ h[m] \in Nat /\ p[m + 1] \in Nat /\ q[m + 1] \in Nat /\ p[m + 1] <= q[m + 1]
    BY <1>1, <1>2, <1>3, <1>4, <2>1
  <2>5. f[m + 1] <= h[m + 1] /\ (f[m] < h[m] \/ p[m + 1] < q[m + 1] => f[m + 1] < h[m + 1])
    BY <2>2, <2>3, <2>4
  <2>6. ASSUME NEW i \in 1 .. m + 1, p[i] < q[i] PROVE f[m + 1] < h[m + 1]
    <3>1. CASE i = m + 1
      BY <2>5, <2>6, <3>1
    <3>2. CASE i # m + 1
      <4>1. i \in 1 .. m
        BY <2>1, <3>2
      <4> QED BY <2>3, <2>5, <2>6, <4>1
    <3> QED BY <3>1, <3>2
  <2> QED BY <2>5, <2>6
<1>7. N \in S
  <2>1. S \in SUBSET Nat
    OBVIOUS
  <2> HIDE DEF S
  <2> QED BY <1>1, <1>5, <1>6, <2>1, Induct
<1> QED BY <1>1, <1>2, <1>3, <1>7 DEF N

(* The labels of a finite set's elements, each once, and how many have them. *)
Labelled(T, labelOf, q, p) ==
    /\ IsFiniteSet(T) /\ Len(q) \in Nat /\ p \in Seq(Nat) /\ Len(p) = Len(q)
    /\ \A x \in T : \E i \in 1 .. Len(q) : labelOf[x] = q[i]
    /\ \A i, j \in 1 .. Len(q) : q[i] = q[j] => i = j
    /\ \A i \in 1 .. Len(q) : p[i] = Cardinality({x \in T : labelOf[x] = q[i]})

(* Counting a finite set label by label counts it. *)
LEMMA PartsAddUp ==
    ASSUME NEW T, NEW labelOf, NEW q, NEW p, Labelled(T, labelOf, q, p)
    PROVE  SumUp(p) = Cardinality(T)
<1> USE DEF Labelled
<1> DEFINE N == Len(q)
           C(m) == {x \in T : \E i \in 1 .. m : labelOf[x] = q[i]}
           P(i) == {x \in T : labelOf[x] = q[i]}
<1>1. PICK f \in [0 .. N -> Nat] : /\ f[0] = 0 /\ SumUp(p) = f[N]
                                  /\ \A n \in 1 .. N : f[n] = f[n - 1] + p[n]
  BY SumIs
<1>2. N \in Nat /\ C(N) = T
  OBVIOUS
<1>3. \A m, i : IsFiniteSet(C(m)) /\ IsFiniteSet(P(i))
  <2>1. \A R \in SUBSET T : IsFiniteSet(R)
    BY FS_Subset
  <2> QED BY <2>1
<1>4. \A i \in 1 .. N : p[i] = Cardinality(P(i))
  OBVIOUS
<1> DEFINE S == {m \in Nat : m <= N => f[m] = Cardinality(C(m))}
<1>5. 0 \in S
  <2>1. C(0) = {}
    OBVIOUS
  <2> HIDE DEF C, N
  <2> QED BY <2>1, <1>1, FS_EmptySet
<1>6. ASSUME NEW m \in S PROVE m + 1 \in S
  <2> SUFFICES ASSUME m + 1 <= N PROVE f[m + 1] = Cardinality(C(m + 1))
    OBVIOUS
  <2>1. m \in Nat /\ m + 1 \in 1 .. N /\ m \in 0 .. N /\ m <= N /\ m + 1 - 1 = m
    BY <1>2
  <2>2. 1 .. m + 1 = (1 .. m) \cup {m + 1}
    BY <2>1
  <2>3. C(m + 1) = C(m) \cup P(m + 1)
    BY <2>2
  <2>4. C(m) \cap P(m + 1) = {}
    <3>1. \A i \in 1 .. m : i \in 1 .. N /\ i # m + 1
      BY <2>1, <1>2
    <3> QED BY <3>1, <2>1
  <2>5. f[m + 1] = f[m] + p[m + 1] /\ f[m] = Cardinality(C(m)) /\ p[m + 1] = Cardinality(P(m + 1))
    <3> HIDE DEF C, P, N
    <3> QED BY <1>1, <1>4, <2>1
  <2> HIDE DEF C, P, N
  <2>6. Cardinality(C(m + 1)) = Cardinality(C(m)) + Cardinality(P(m + 1)) - Cardinality({})
    BY <2>3, <2>4, <1>3, FS_Union
  <2>7. Cardinality({}) = 0 /\ Cardinality(C(m)) \in Nat /\ Cardinality(P(m + 1)) \in Nat
    BY <1>3, FS_EmptySet, FS_CardinalityType
  <2> QED BY <2>5, <2>6, <2>7
<1>7. N \in S
  <2>1. S \in SUBSET Nat
    OBVIOUS
  <2> HIDE DEF S, N
  <2> QED BY <1>2, <1>5, <1>6, <2>1, Induct
<1> HIDE DEF C, N
<1> QED BY <1>1, <1>2, <1>7

===============================================================================
