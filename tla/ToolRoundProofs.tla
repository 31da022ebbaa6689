-------------------------- MODULE ToolRoundProofs --------------------------
(***************************************************************************)
(* Proofs about a round of tool calls: its types, that every call is       *)
(* answered, once and as it ended, and that what runs was confirmed and    *)
(* runs in the company it may have, for any tools and rounds of any size.  *)
(***************************************************************************)
EXTENDS ToolRound, FiniteSetTheorems, TLAPS

(***************************************************************************)
(* Numbers and folds.  A nonempty set of naturals has a least element, so  *)
(* a set that holds 0 and is closed under + 1 holds all of them; that a    *)
(* fold is what its equations say follows by this induction.               *)
(***************************************************************************)
Below == {ss \in Nat \X Nat : ss[1] < ss[2]}

LEMMA LeastNatural ==
  ASSUME NEW S, S \subseteq Nat, S # {}
  PROVE  \E m \in S : \A k \in S : m <= k
<1>1. IsWellFoundedOn(Below, Nat)
  BY NatLessThanWellFounded DEF OpToRel, Below
<1>2. PICK m \in S : \A k \in S : <<k, m>> \notin Below
  BY <1>1, WFMin
<1>3. ASSUME NEW k \in S PROVE m <= k
  <2>1. k \in Nat /\ m \in Nat /\ ~(k < m)
    BY <1>2 DEF Below
  <2> QED BY <2>1
<1> QED BY <1>3

LEMMA NatSetInduction ==
  ASSUME NEW S, 0 \in S, \A n \in Nat : n \in S => n + 1 \in S
  PROVE  Nat \subseteq S
<1> SUFFICES ASSUME Nat \ S # {} PROVE FALSE
  OBVIOUS
<1>1. PICK m \in Nat \ S : \A k \in Nat \ S : m <= k
  BY LeastNatural
<1>2. m - 1 \in Nat /\ ~(m <= m - 1)
  OBVIOUS
<1> QED BY <1>1, <1>2

LEMMA LeastIsMin ==
  ASSUME NEW S, S \subseteq Nat, S # {}
  PROVE  Min(S) \in S /\ \A k \in S : Min(S) <= k
BY LeastNatural DEF Min

LEMMA MaxOfInterval ==
  ASSUME NEW n \in Nat, NEW t \in SUBSET (1..n + 1), n + 1 \in t
  PROVE  Max(t) = n + 1
<1>1. \A y \in t : n + 1 >= y
  OBVIOUS
<1>2. \A x \in t : (\A y \in t : x >= y) => x = n + 1
  BY <1>1
<1> QED BY <1>1, <1>2 DEF Max

LEMMA MaxOfBounded ==
  ASSUME NEW n \in Nat, NEW t \in SUBSET (1..n), t # {}
  PROVE  Max(t) \in t
<1> DEFINE S == {k \in Nat : n - k \in t}
<1>1. \A y \in t : y \in Nat /\ n - y \in Nat /\ n - (n - y) = y
  OBVIOUS
<1>2. \A y \in t : n - y \in S
  BY <1>1
<1>3. PICK m \in S : \A k \in S : m <= k
  BY <1>2, LeastNatural
<1>4. ASSUME NEW y \in t PROVE n - m >= y
  <2>1. m \in Nat /\ m <= n - y
    BY <1>2, <1>3
  <2> QED BY <1>1, <2>1
<1>5. n - m \in t
  BY <1>3
<1> QED BY <1>4, <1>5 DEF Max

(* The steps of a fold with values in V, and the fold of n of them.        *)
Steps(G, V) == G \in [Nat \X V -> V]
HasFold(V, base, G, n) ==
  \E it \in [SUBSET (1..n) -> V] :
    \A t \in SUBSET (1..n) : it[t] = IF t = {} THEN base ELSE G[<<Max(t), it[t \ {Max(t)}]>>]

LEMMA FoldExists ==
  ASSUME NEW V, NEW base \in V, NEW G, Steps(G, V), NEW n \in Nat
  PROVE  HasFold(V, base, G, n)
<1> DEFINE Is(it, m) ==
      \A t \in SUBSET (1..m) : it[t] = IF t = {} THEN base ELSE G[<<Max(t), it[t \ {Max(t)}]>>]
           S == {m \in Nat : \E it \in [SUBSET (1..m) -> V] : Is(it, m)}
<1>1. 0 \in S
  <2>1. [t \in SUBSET (1..0) |-> base] \in [SUBSET (1..0) -> V]
    OBVIOUS
  <2>2. \A t \in SUBSET (1..0) : t = {}
    OBVIOUS
  <2> QED BY <2>1, <2>2
<1>2. ASSUME NEW m \in Nat, m \in S PROVE m + 1 \in S
  <2>1. PICK it \in [SUBSET (1..m) -> V] : Is(it, m)
    BY <1>2
  <2> DEFINE new == [t \in SUBSET (1..m + 1) |->
                       IF m + 1 \in t THEN G[<<m + 1, it[t \ {m + 1}]>>] ELSE it[t]]
  <2>2. \A t \in SUBSET (1..m + 1) : /\ t \ {m + 1} \in SUBSET (1..m)
                                      /\ m + 1 \notin t => t \in SUBSET (1..m)
    OBVIOUS
  <2>3. new \in [SUBSET (1..m + 1) -> V]
    BY <2>1, <2>2 DEF Steps
  <2>4. ASSUME NEW t \in SUBSET (1..m + 1)
        PROVE  new[t] = IF t = {} THEN base ELSE G[<<Max(t), new[t \ {Max(t)}]>>]
    <3>1. CASE m + 1 \in t
      <4>1. Max(t) = m + 1 /\ t # {}
        BY <3>1, MaxOfInterval
      <4>2. new[t \ {m + 1}] = it[t \ {m + 1}]
        BY <2>2
      <4>3. new[t] = G[<<m + 1, it[t \ {m + 1}]>>]
        BY <3>1
      <4> QED BY <4>1, <4>2, <4>3
    <3>2. CASE m + 1 \notin t /\ t # {}
      <4>1. t \in SUBSET (1..m) /\ new[t] = it[t]
        BY <2>2, <3>2
      <4>2. it[t] = G[<<Max(t), it[t \ {Max(t)}]>>]
        BY <2>1, <3>2, <4>1
      <4>3. m + 1 \notin t \ {Max(t)} /\ t \ {Max(t)} \in SUBSET (1..m + 1)
        BY <3>2
      <4>4. new[t \ {Max(t)}] = it[t \ {Max(t)}]
        BY <4>3
      <4> QED BY <3>2, <4>1, <4>2, <4>4
    <3>3. CASE t = {}
      <4>1. t \in SUBSET (1..m) /\ new[t] = it[t]
        BY <3>3
      <4> QED BY <2>1, <3>3, <4>1
    <3> QED BY <3>1, <3>2, <3>3
  <2> HIDE DEF new
  <2>5. Is(new, m + 1)
    BY <2>4
  <2> HIDE DEF Is
  <2> QED BY <2>3, <2>5
<1> HIDE DEF S
<1>3. n \in S
  BY <1>1, <1>2, NatSetInduction
<1> QED BY <1>3 DEF S, HasFold

(* What the modifiers of a round leave are lists of tools, and a plan.     *)
Lists == [engine : SUBSET Names, confirm : SUBSET Names,
          plan : [active : BOOLEAN, before : SUBSET Names]]

LEMMA ModifierType ==
  ASSUME NEW l \in Lists, NEW name
  PROVE  ApplyModifier(l, name) \in Lists
<1>1. Grants \subseteq Names
  BY ToolsAssumption DEF Names, Executable, Safe, Unsafe
<1>2. CASE name = Skill
  <2>1. ApplyModifier(l, name) = [l EXCEPT !.engine = @ \cup Grants, !.confirm = @ \cup Grants]
    BY <1>2 DEF ApplyModifier, Skill, EnterPlan, ExitPlan
  <2> QED BY <1>1, <2>1 DEF Lists
<1>3. CASE name = EnterPlan
  <2>1. ApplyModifier(l, name) = [l EXCEPT !.plan = [active |-> TRUE, before |-> l.engine]]
    BY <1>3 DEF ApplyModifier, Skill, EnterPlan, ExitPlan
  <2>2. l.engine \in SUBSET Names
    BY DEF Lists
  <2>3. [active |-> TRUE, before |-> l.engine] \in [active : BOOLEAN, before : SUBSET Names]
    BY <2>2
  <2> QED BY <2>1, <2>3 DEF Lists
<1>4. CASE name = ExitPlan
  <2>1. ApplyModifier(l, name) = [l EXCEPT !.plan.active = FALSE, !.engine = l.plan.before]
    BY <1>4 DEF ApplyModifier, Skill, EnterPlan, ExitPlan
  <2>2. l.plan \in [active : BOOLEAN, before : SUBSET Names]
    BY DEF Lists
  <2>3. [l.plan EXCEPT !.active = FALSE] \in [active : BOOLEAN, before : SUBSET Names]
    BY <2>2
  <2>4. l.plan.before \in SUBSET Names
    BY <2>2
  <2>5. ApplyModifier(l, name)
          = [l EXCEPT !.plan = [l.plan EXCEPT !.active = FALSE], !.engine = l.plan.before]
    BY <2>1 DEF Lists
  <2> QED BY <2>3, <2>4, <2>5 DEF Lists
<1>5. CASE name \notin {Skill, EnterPlan, ExitPlan}
  BY <1>5 DEF ApplyModifier
<1> QED BY <1>2, <1>3, <1>4, <1>5

LEMMA ModifiersType ==
  ASSUME NEW b \in Lists, NEW n \in Nat, NEW s, DOMAIN s = 1..n
  PROVE  FoldLeft(ApplyModifier, b, s) \in Lists
<1> DEFINE G == [p \in Nat \X Lists |-> ApplyModifier(p[2], s[p[1]])]
           Is(c) == c = [t \in SUBSET (1..n) |->
                           IF t = {} THEN b ELSE ApplyModifier(c[t \ {Max(t)}], s[Max(t)])]
<1>1. \E c : Is(c)
  <2>1. \A k \in Nat : \A v \in Lists : G[<<k, v>>] = ApplyModifier(v, s[k]) /\ G[<<k, v>>] \in Lists
    BY ModifierType
  <2>6. Steps(G, Lists)
    BY ModifierType DEF Steps
  <2> HIDE DEF G
  <2>2. PICK it \in [SUBSET (1..n) -> Lists] :
          \A t \in SUBSET (1..n) : it[t] = IF t = {} THEN b ELSE G[<<Max(t), it[t \ {Max(t)}]>>]
    <3>1. HasFold(Lists, b, G, n)
      BY <2>6, FoldExists
    <3> QED BY <3>1 DEF HasFold
  <2>3. ASSUME NEW t \in SUBSET (1..n), t # {}
        PROVE  it[t] = ApplyModifier(it[t \ {Max(t)}], s[Max(t)])
    <3>1. Max(t) \in t
      BY <2>3, MaxOfBounded
    <3>2. t \ {Max(t)} \in SUBSET (1..n) /\ t \subseteq 1..n /\ Max(t) \in Nat
      <4>1. t \subseteq 1..n
        OBVIOUS
      <4>2. Max(t) \in 1..n
        BY <3>1, <4>1
      <4>3. t \ {Max(t)} \in SUBSET (1..n)
        BY <4>1
      <4> QED BY <4>1, <4>2, <4>3
    <3>3. it[t \ {Max(t)}] \in Lists
      BY <3>2
    <3>4. it[t] = G[<<Max(t), it[t \ {Max(t)}]>>]
      BY <2>2, <2>3
    <3> QED BY <2>1, <3>2, <3>3, <3>4
  <2>4. it = [t \in SUBSET (1..n) |-> it[t]]
    OBVIOUS
  <2>5. [t \in SUBSET (1..n) |-> it[t]]
          = [t \in SUBSET (1..n) |-> IF t = {} THEN b ELSE ApplyModifier(it[t \ {Max(t)}], s[Max(t)])]
    BY <2>2, <2>3
  <2> QED BY <2>4, <2>5
<1>2. FoldLeft(ApplyModifier, b, s) = (CHOOSE c : Is(c))[1..n]
  BY DEF FoldLeft, MapThenFoldSet
<1>3. PICK c : Is(c) /\ FoldLeft(ApplyModifier, b, s) = c[1..n]
  BY <1>1, <1>2
<1>4. c[{}] = b /\ \A t \in SUBSET (1..n) :
         t # {} => c[t] = ApplyModifier(c[t \ {Max(t)}], s[Max(t)])
  BY <1>3
<1> DEFINE S == {m \in Nat : m <= n => c[1..m] \in Lists}
<1>5. 0 \in S
  <2>1. 1..0 = {}
    OBVIOUS
  <2> QED BY <1>4, <2>1
<1>6. ASSUME NEW m \in Nat, m \in S PROVE m + 1 \in S
  <2>1. /\ 1..m + 1 # {} /\ (1..m + 1) \ {m + 1} = 1..m /\ Max(1..m + 1) = m + 1
    BY MaxOfInterval
  <2>2. ASSUME m + 1 <= n PROVE c[1..m + 1] \in Lists
    <3>1. 1..m + 1 \in SUBSET (1..n) /\ c[1..m] \in Lists
      BY <1>6, <2>2
    <3>2. c[1..m + 1] = ApplyModifier(c[1..m], s[m + 1])
      BY <1>4, <2>1, <3>1
    <3> QED BY <3>1, <3>2, ModifierType
  <2> QED BY <2>2
<1> HIDE DEF S
<1>7. n \in S
  BY <1>5, <1>6, NatSetInduction
<1> QED BY <1>3, <1>7 DEF S

-----------------------------------------------------------------------------
(***************************************************************************)
(* Sets of calls: the first batch of them, and their ranks.                *)
(***************************************************************************)
LEMMA SafeIsNotUnsafe ==
  /\ Safe \cap Unsafe = {} /\ Safe \subseteq Executable /\ Unsafe \subseteq Executable
  /\ Executable \subseteq Names /\ Rejected \in Names \ Executable
BY ToolsAssumption
   DEF Safe, Unsafe, Executable, Names, Skill, EnterPlan, ExitPlan, Rejected

LEMMA PartitionFacts ==
  ASSUME NEW names, NEW S, S \subseteq Nat
  PROVE  /\ Partition(names, S) \subseteq S /\ (S # {} => Partition(names, S) # {})
         /\ \A i \in Partition(names, S), j \in S \ Partition(names, S) : i < j
         /\ \A i \in Partition(names, S) : names[i] \in Unsafe =>
              Partition(names, S) = {i} /\ \A j \in S \ {i} : i < j
<1>1. CASE S = {}
  BY <1>1 DEF Partition
<1>2. CASE S # {}
  <2>1. Min(S) \in S /\ \A k \in S : Min(S) <= k
    BY <1>2, LeastIsMin
  <2>2. Min(S) \in Partition(names, S) /\ Partition(names, S) \subseteq S
    BY <2>1 DEF Partition
  <2>3. ASSUME NEW i \in Partition(names, S), NEW j \in S \ Partition(names, S) PROVE i < j
    <3>1. i \in Nat /\ j \in Nat /\ i # j
      BY <2>2
    <3>2. CASE i = Min(S)
      BY <2>1, <3>1, <3>2
    <3>3. CASE i # Min(S)
      <4>1. mode = "terminal" /\ \A k \in S : k <= i => names[k] \in Safe
        BY <3>3 DEF Partition
      <4>2. ~(j <= i)
        <5>1. SUFFICES ASSUME j <= i PROVE \A k \in S : k <= j => names[k] \in Safe
          BY <4>1 DEF Partition
        <5> QED BY <3>1, <4>1, <5>1
      <4> QED BY <3>1, <4>2
    <3> QED BY <3>2, <3>3
  <2>4. ASSUME NEW i \in Partition(names, S), names[i] \in Unsafe
        PROVE  Partition(names, S) = {i} /\ \A j \in S \ {i} : i < j
    <3>1. i \in S /\ i \in Nat /\ names[i] \notin Safe
      BY <2>2, <2>4, SafeIsNotUnsafe
    <3>2. i = Min(S)
      BY <3>1 DEF Partition
    <3>3. \A j \in S \ {i} : i < j
      BY <2>1, <3>1, <3>2
    <3>4. \A j \in S \ {i} : j \notin Partition(names, S)
      BY <3>1, <3>2, <3>3 DEF Partition
    <3> QED BY <2>2, <3>3, <3>4
  <2> QED BY <2>2, <2>3, <2>4
<1> QED BY <1>1, <1>2

(* Distinct calls of a round are no more than the round has.               *)
LEMMA DistinctAreFew ==
  ASSUME NEW n \in Nat, NEW m \in Nat, NEW f \in [1..m -> 1..n],
         \A k, l \in 1..m : k # l => f[k] # f[l]
  PROVE  m <= n
<1>1. f \in Injection(1..m, 1..n)
  BY DEF Injection, IsInjective
<1>2. IsFiniteSet(1..n) /\ Cardinality(1..n) = n /\ Cardinality(1..m) = m
  BY FS_Interval
<1>3. Cardinality(1..m) <= Cardinality(1..n)
  BY <1>1, <1>2, FS_Injection
<1> QED BY <1>2, <1>3

(* What m distinct calls are the values of counts m.                       *)
LEMMA DistinctCount ==
  ASSUME NEW m \in Nat, NEW E, NEW f \in [1..m -> E],
         \A k, l \in 1..m : k # l => f[k] # f[l], \A e \in E : \E k \in 1..m : f[k] = e
  PROVE  Cardinality(E) = m
<1>1. f \in Bijection(1..m, E)
  BY DEF Bijection, Injection, Surjection, IsInjective
<1>2. ExistsBijection(1..m, E)
  BY <1>1 DEF ExistsBijection
<1> QED BY <1>2, FS_CountingElements

Rank(E, i) == Cardinality({j \in 1..i : j \in E})

LEMMA RankFacts ==
  ASSUME NEW n \in Nat, NEW E \in SUBSET (1..n)
  PROVE  /\ Cardinality(E) \in Nat
         /\ \A i \in E : Rank(E, i) \in 1..Cardinality(E)
         /\ \A m \in 1..Cardinality(E) : \E i \in E : Rank(E, i) = m
<1>1. IsFiniteSet(E) /\ Cardinality(E) \in Nat
  <2>1. IsFiniteSet(1..n)
    BY FS_Interval
  <2>2. IsFiniteSet(E)
    BY <2>1, FS_Subset
  <2> QED BY <2>2, FS_CardinalityType
<1> DEFINE A(i) == {j \in 1..i : j \in E}
<1>2. ASSUME NEW i \in E
      PROVE  /\ IsFiniteSet(A(i)) /\ Rank(E, i) \in Nat /\ i \in A(i) /\ A(i) \subseteq E
             /\ Rank(E, i) \in 1..Cardinality(E)
  <2>1. i \in A(i) /\ A(i) \in SUBSET E
    OBVIOUS
  <2>2. IsFiniteSet(A(i)) /\ Cardinality(A(i)) <= Cardinality(E)
    BY <1>1, <2>1, FS_Subset
  <2>3. Cardinality(A(i)) \in Nat /\ Cardinality(A(i)) # 0
    BY <2>1, <2>2, FS_EmptySet, FS_CardinalityType
  <2> QED BY <1>1, <2>1, <2>2, <2>3 DEF Rank
<1>3. ASSUME NEW i \in E, NEW k \in E, i < k PROVE Rank(E, i) < Rank(E, k)
  <2>1. A(i) \in SUBSET A(k) /\ k \notin A(i) /\ k \in A(k) /\ i \in Nat /\ k \in Nat
    BY <1>3
  <2>2. Cardinality(A(i)) <= Cardinality(A(k)) /\ Cardinality(A(i)) # Cardinality(A(k))
    BY <1>2, <2>1, FS_Subset
  <2> QED BY <1>2, <2>2 DEF Rank
<1> DEFINE r == [i \in E |-> Rank(E, i)]
<1>4. r \in Injection(E, 1..Cardinality(E))
  <2>1. r \in [E -> 1..Cardinality(E)]
    BY <1>2
  <2>2. ASSUME NEW i \in E, NEW k \in E, r[i] = r[k] PROVE i = k
    <3>1. i \in Nat /\ k \in Nat
      OBVIOUS
    <3>2. Rank(E, i) = Rank(E, k) /\ Rank(E, i) \in Nat
      BY <1>2, <2>2
    <3>3. ~(Rank(E, i) < Rank(E, k)) /\ ~(Rank(E, k) < Rank(E, i))
      BY <3>2
    <3>4. ~(i < k) /\ ~(k < i)
      BY <1>3, <3>3
    <3> QED BY <3>1, <3>4
  <2> HIDE DEF r
  <2> QED BY <2>1, <2>2 DEF Injection, IsInjective
<1>5. r \in Surjection(E, 1..Cardinality(E))
  <2>1. IsFiniteSet(1..Cardinality(E)) /\ Cardinality(1..Cardinality(E)) = Cardinality(E)
    BY <1>1, FS_Interval
  <2> HIDE DEF r
  <2> QED BY <1>4, <2>1, FS_Injection
<1>6. \A m \in 1..Cardinality(E) : \E i \in E : r[i] = m
  <2> HIDE DEF r
  <2> QED BY <1>5 DEF Surjection
<1> QED BY <1>1, <1>2, <1>6

-----------------------------------------------------------------------------
(***************************************************************************)
(* The inductive invariant.  Neither property says how far the round is:   *)
(* that the batches are settled from the left, that a call of the current  *)
(* batch is at one place of its way at a time, and which calls have        *)
(* results by now.                                                         *)
(***************************************************************************)
Executables == {i \in Calls : calls[i] \in Executable}
Current == Partition(calls, left)
Answered == {results[k].call : k \in 1..Len(results)}
Approved == {approved[k] : k \in 1..Len(approved)}

(* The batches that have ended come before those left; the calls of the    *)
(* current one are confirmed, and approved, in order.                      *)
BatchInv ==
  /\ left \subseteq Executables
  /\ \A i \in Executables \ left : \A j \in left : i < j
  /\ toConfirm \subseteq Current /\ Approved \subseteq Current
  /\ \A i \in Approved : \A j \in toConfirm : i < j
  /\ \A k, l \in 1..Len(approved) : k < l => approved[k] < approved[l]

(* What runs or ran was approved, nothing of a batch before all of it is   *)
(* confirmed.                                                              *)
LeaveInv ==
  /\ running \subseteq Approved
  /\ \A i \in running : outcome[i] = "none"
  /\ \A i \in Calls : outcome[i] # "none" =>
       i \in Executables /\ (i \in left => i \in Approved) /\ consent[i] # "none"
  /\ \A i \in Approved : consent[i] # "none"
  /\ toConfirm # {} \/ status = "quit" =>
       running = {} /\ \A i \in Current : outcome[i] = "none"

(* The results are of distinct calls and say how those ended; the calls    *)
(* are those of the batches that ended and the refused ones of the current *)
(* batch.  Without a refused one, they are in order.                       *)
ResultsInv ==
  /\ \A k, l \in 1..Len(results) : k # l => results[k].call # results[l].call
  /\ \A k \in 1..Len(results) :
       results[k].outcome = IF outcome[results[k].call] = "none" THEN "error"
                            ELSE outcome[results[k].call]
  /\ status # "quit" =>
       Answered = (Executables \ left) \cup (Current \ (toConfirm \cup Approved))
  /\ (\A i \in Answered : outcome[i] # "none") =>
       \A k, l \in 1..Len(results) : k < l => results[k].call < results[l].call

(* Between two rounds nothing is left of the last one.                     *)
SettledInv == status = "model" => left = {}

RoundInv == TypeOK /\ BatchInv /\ LeaveInv /\ ResultsInv /\ SettledInv

LEMMA InitRound == Init => RoundInv /\ RoundAnswered
<1> SUFFICES ASSUME Init PROVE RoundInv /\ RoundAnswered
  OBVIOUS
<1>1. Len(calls) = 0 /\ Calls = {} /\ Len(results) = 0 /\ Len(approved) = 0
  BY DEF Init, Calls
<1>2. Current = {}
  BY DEF Current, Partition, Init
<1>3. TypeOK
  <2>1. Grants \cup AllowList \subseteq Names /\ MaxRound \in Nat /\ MaxCalls \in Nat
    BY ToolsAssumption DEF Names, Executable, Safe, Unsafe
  <2>2. <<>> \in [Calls -> Outcomes \cup {"none"}] /\ <<>> \in [Calls -> {"none", "user", "list"}]
    BY <1>1
  <2>3. NoPlan \in [active : BOOLEAN, before : SUBSET Names]
    BY DEF NoPlan
  <2> QED BY <1>1, <2>1, <2>2, <2>3 DEF Init, TypeOK
<1>4. BatchInv /\ LeaveInv /\ ResultsInv /\ SettledInv
  BY <1>1, <1>2
     DEF Init, BatchInv, LeaveInv, ResultsInv, SettledInv, Executables, Answered, Approved
<1>5. RoundAnswered
  BY <1>1 DEF RoundAnswered, EveryCallAnsweredOnce, InOrderUnlessRefused, Init
<1> QED BY <1>3, <1>4, <1>5 DEF RoundInv

(* Where the calls are, from the types and the batches.                    *)
LEMMA PlaceFacts ==
  ASSUME TypeOK, BatchInv
  PROVE  /\ Len(calls) \in Nat /\ Calls \subseteq Nat /\ Calls \subseteq 1..MaxRound
         /\ Executables \subseteq Calls /\ left \subseteq Calls /\ Current \subseteq left
         /\ left # {} => Current # {}
         /\ Approved \subseteq Current /\ toConfirm \subseteq Current /\ Approved \cap toConfirm = {}
         /\ \A i \in Current, j \in left \ Current : i < j
         /\ \A i \in Current : calls[i] \in Unsafe => Current = {i} /\ \A j \in left \ {i} : i < j
<1>1. Len(calls) \in Nat /\ Calls \subseteq Nat /\ Calls \subseteq 1..MaxRound
  BY ToolsAssumption DEF TypeOK, Calls
<1>2. left \subseteq Nat /\ left \subseteq Calls /\ Executables \subseteq Calls
  BY <1>1 DEF BatchInv, Executables
<1>3. /\ Current \subseteq left /\ (left # {} => Current # {})
      /\ \A i \in Current, j \in left \ Current : i < j
      /\ \A i \in Current : calls[i] \in Unsafe => Current = {i} /\ \A j \in left \ {i} : i < j
  BY <1>2, PartitionFacts DEF Current
<1>4. Approved \cap toConfirm = {}
  <2>1. \A i \in toConfirm : i \in Nat
    BY <1>2, <1>3 DEF BatchInv
  <2> QED BY <2>1 DEF BatchInv
<1> QED BY <1>1, <1>2, <1>3, <1>4 DEF BatchInv

-----------------------------------------------------------------------------
(***************************************************************************)
(* The steps, one lemma for each action.                                   *)
(***************************************************************************)
LEMMA StartRoundStep ==
  ASSUME RoundInv, NEW names \in Rounds, StartRound(names)
  PROVE  RoundInv'
<1>1. PICK n \in 1..MaxRound : names \in [1..n -> Names]
  BY DEF Rounds
<1>2. /\ n \in Nat /\ n <= MaxRound /\ names \in Seq(Names) /\ Len(names) = n /\ MaxRound \in Nat
      /\ MaxCalls \in Nat /\ n > 0
  BY <1>1, ToolsAssumption
<1>3. /\ calls' = names /\ Calls' = 1..n /\ Len(results') = 0 /\ Len(approved') = 0
      /\ status' = "round" /\ results' = <<>> /\ approved' = <<>> /\ running' = {} /\ merged' = <<>>
      /\ outcome' = [i \in 1..n |-> "none"] /\ consent' = [i \in 1..n |-> "none"]
      /\ left' = {i \in 1..n : names[i] \in Executable}
      /\ UNCHANGED <<mode, autoApprove, listVars>>
  BY <1>2 DEF StartRound, Calls
<1>4. Executables' = left' /\ left' \subseteq 1..n /\ left' \subseteq Nat
  BY <1>3 DEF Executables
<1>5. Current' = toConfirm' /\ toConfirm' \subseteq left'
  <2>1. toConfirm' = Partition(names, left') /\ UNCHANGED mode
    BY DEF StartRound
  <2>2. Current' = Partition(names, left')
    BY <1>3, <2>1 DEF Current, Partition
  <2>3. Partition(names, left') \subseteq left'
    BY DEF Partition
  <2> QED BY <2>1, <2>2, <2>3
<1>6. TypeOK'
  <2>1. used' \in 0..MaxCalls
    <3>1. used \in Nat /\ used' = used + n /\ used + n <= MaxCalls
      BY <1>2 DEF StartRound, RoundInv, TypeOK
    <3> QED BY <1>2, <3>1
  <2> QED BY <1>2, <1>3, <1>4, <1>5, <2>1 DEF RoundInv, TypeOK, Outcomes, listVars
<1>7. BatchInv' /\ LeaveInv' /\ ResultsInv' /\ SettledInv'
  BY <1>3, <1>4, <1>5
     DEF BatchInv, LeaveInv, ResultsInv, SettledInv, Answered, Approved
<1> QED BY <1>6, <1>7 DEF RoundInv

(* The call confirmed next is the first one, and those that follow stay.   *)
LEMMA NextToConfirm ==
  ASSUME RoundInv, toConfirm # {}
  PROVE  /\ Min(toConfirm) \in toConfirm /\ Min(toConfirm) \in Calls
         /\ \A j \in toConfirm \ {Min(toConfirm)} : Min(toConfirm) < j
         /\ Min(toConfirm) \notin Approved /\ Min(toConfirm) \in Current
         /\ calls[Min(toConfirm)] \in Names
<1>1. toConfirm \subseteq Nat /\ toConfirm \subseteq Calls /\ toConfirm \subseteq Current
  BY PlaceFacts DEF RoundInv
<1>2. Min(toConfirm) \in toConfirm /\ \A j \in toConfirm : Min(toConfirm) <= j
  BY <1>1, LeastIsMin
<1>3. Min(toConfirm) \notin Approved
  BY <1>2, PlaceFacts DEF RoundInv
<1>4. calls[Min(toConfirm)] \in Names
  <2>1. calls \in Seq(Names) /\ Min(toConfirm) \in 1..Len(calls)
    BY <1>1, <1>2 DEF RoundInv, TypeOK, Calls
  <2> QED BY <2>1
<1>5. ASSUME NEW j \in toConfirm \ {Min(toConfirm)} PROVE Min(toConfirm) < j
  <2>1. j \in Nat /\ Min(toConfirm) \in Nat /\ Min(toConfirm) <= j
    BY <1>1, <1>2
  <2> QED BY <2>1
<1>6. Min(toConfirm) \in Calls /\ Min(toConfirm) \in Current
  BY <1>1, <1>2
<1> QED BY <1>2, <1>3, <1>4, <1>5, <1>6

(* A call that may run moves from those to confirm to those approved.      *)
LEMMA ApproveStep ==
  ASSUME RoundInv, toConfirm # {}, status \in {"round"},
         NEW why \in {"user", "list"},
         toConfirm' = toConfirm \ {Min(toConfirm)},
         approved' = Append(approved, Min(toConfirm)),
         consent' = [consent EXCEPT ![Min(toConfirm)] = why],
         confirmList' \in SUBSET Names,
         UNCHANGED <<mode, autoApprove, engineList, plan, status, used, calls, left, running,
                     outcome, results, merged>>
  PROVE  RoundInv'
<1> DEFINE i == Min(toConfirm)
<1>1. /\ i \in toConfirm /\ i \in Calls /\ i \notin Approved /\ i \in Current
      /\ \A j \in toConfirm \ {i} : i < j
  BY NextToConfirm
<1> HIDE DEF i
<1>2. /\ approved \in Seq(Calls) /\ Len(approved) \in Nat /\ Len(approved') = Len(approved) + 1
      /\ \A k \in 1..Len(approved) : approved'[k] = approved[k]
      /\ approved'[Len(approved) + 1] = i /\ approved' \in Seq(Calls)
  BY <1>1 DEF RoundInv, TypeOK, i
<1>3. Approved' = Approved \cup {i}
  BY <1>2 DEF Approved
<1>4. /\ Calls' = Calls /\ Executables' = Executables /\ Current' = Current /\ Answered' = Answered
  BY DEF Calls, Executables, Current, Partition, Answered
<1>5. TypeOK'
  BY <1>1, <1>2, <1>4 DEF RoundInv, TypeOK, Calls, i
<1>6. BatchInv'
  <2>1. \A k \in Approved' : \A j \in toConfirm' : k < j
    BY <1>1, <1>3 DEF RoundInv, BatchInv, i
  <2>2. \A k \in 1..Len(approved) : approved[k] < i
    BY <1>1 DEF RoundInv, BatchInv, Approved
  <2>3. \A k, l \in 1..Len(approved') : k < l => approved'[k] < approved'[l]
    BY <1>2, <2>2 DEF RoundInv, BatchInv
  <2>4. toConfirm' \subseteq Current' /\ Approved' \subseteq Current'
    BY <1>1, <1>3, <1>4 DEF RoundInv, BatchInv, i
  <2> QED BY <1>4, <2>1, <2>3, <2>4 DEF RoundInv, BatchInv
<1>7. LeaveInv'
  <2>1. /\ consent' \in [Calls -> {"none", "user", "list"}] /\ consent'[i] # "none"
        /\ \A j \in Calls \ {i} : consent'[j] = consent[j]
    BY <1>1 DEF RoundInv, TypeOK, i
  <2>2. Approved \subseteq Calls
    BY PlaceFacts DEF RoundInv
  <2>3. \A j \in Approved' : consent'[j] # "none"
    BY <1>3, <2>1, <2>2 DEF RoundInv, LeaveInv
  <2>4. \A j \in Calls : outcome[j] # "none" => consent'[j] # "none"
    BY <2>1 DEF RoundInv, LeaveInv
  <2>5. running = {} /\ \A j \in Current : outcome[j] = "none"
    BY DEF RoundInv, LeaveInv
  <2> QED BY <1>3, <1>4, <2>3, <2>4, <2>5 DEF RoundInv, LeaveInv
<1>8. ResultsInv'
  <2>1. Current \ (toConfirm' \cup Approved') = Current \ (toConfirm \cup Approved)
    BY <1>1, <1>3 DEF i
  <2> QED BY <1>4, <2>1 DEF RoundInv, ResultsInv
<1> QED BY <1>5, <1>6, <1>7, <1>8 DEF RoundInv, SettledInv

LEMMA ConfirmStep ==
  ASSUME RoundInv, NEW answer \in {"yes", "no", "always", "quit"}, Confirm(answer)
  PROVE  RoundInv'
<1> DEFINE i == Min(toConfirm)
<1>1. /\ i \in toConfirm /\ i \in Calls /\ i \notin Approved /\ i \in Current /\ calls[i] \in Names
      /\ \A j \in toConfirm \ {i} : i < j
      /\ status = "round" /\ toConfirm # {}
  BY NextToConfirm DEF Confirm
<1>2. confirmList' \in SUBSET Names
  BY <1>1 DEF Confirm, RoundInv, TypeOK
<1>3. /\ toConfirm' = toConfirm \ {i}
      /\ UNCHANGED <<mode, autoApprove, engineList, plan, used, calls, left, running, outcome,
                     merged>>
  BY DEF Confirm
<1>4. CASE answer \in {"yes", "always"}
  <2>1. /\ approved' = Append(approved, i) /\ consent' = [consent EXCEPT ![i] = "user"]
        /\ UNCHANGED <<results, status>>
    BY <1>4 DEF Confirm
  <2> QED BY <1>1, <1>2, <1>3, <2>1, ApproveStep
<1>5. CASE answer \notin {"yes", "always"}
  <2> HIDE DEF i
  <2>1. /\ UNCHANGED <<approved, consent, calls, left, mode, running, outcome>>
        /\ Calls' = Calls /\ Executables' = Executables /\ Current' = Current
        /\ Approved' = Approved
    BY <1>3, <1>5 DEF Confirm, Calls, Executables, Current, Partition, Approved
  <2>2. running = {} /\ \A j \in Current : outcome[j] = "none"
    BY <1>1 DEF RoundInv, LeaveInv
  <2>3. BatchInv'
    BY <1>3, <2>1 DEF RoundInv, BatchInv
  <2>4. LeaveInv'
    BY <2>1, <2>2 DEF RoundInv, LeaveInv
  <2>5. CASE answer = "quit"
    <3>1. status' = "quit" /\ UNCHANGED results /\ Answered' = Answered
      BY <2>5 DEF Confirm, Answered
    <3>2. TypeOK'
      BY <1>2, <1>3, <2>1, <3>1 DEF RoundInv, TypeOK
    <3>3. ResultsInv' /\ SettledInv'
      BY <2>1, <3>1 DEF RoundInv, ResultsInv, SettledInv
    <3> QED BY <2>3, <2>4, <3>2, <3>3 DEF RoundInv
  <2>6. CASE answer = "no"
    <3> DEFINE r == [call |-> i, outcome |-> "error"]
    <3>1. status' = "round" /\ results' = Append(results, r)
      BY <1>1, <2>6 DEF Confirm, i
    <3>2. r \in Results /\ r.call = i /\ r.outcome = "error"
      BY <1>1, PlaceFacts DEF RoundInv, Results, Outcomes
    <3> HIDE DEF r
    <3>3. /\ results \in Seq(Results) /\ Len(results) \in Nat /\ results' \in Seq(Results)
          /\ Len(results') = Len(results) + 1 /\ results'[Len(results) + 1] = r
          /\ \A k \in 1..Len(results) : results'[k] = results[k]
      BY <3>1, <3>2 DEF RoundInv, TypeOK
    <3>4. Answered' = Answered \cup {i} /\ i \notin Answered
      <4>1. Answered' = Answered \cup {i}
        BY <3>2, <3>3 DEF Answered
      <4>2. i \in left
        BY <1>1, PlaceFacts DEF RoundInv
      <4> QED BY <1>1, <4>1, <4>2 DEF RoundInv, ResultsInv
    <3>5. ResultsInv'
      <4>1. \A k \in 1..Len(results) : results[k].call # i
        BY <3>4 DEF Answered
      <4>2. \A k, l \in 1..Len(results') : k # l => results'[k].call # results'[l].call
        BY <3>2, <3>3, <4>1 DEF RoundInv, ResultsInv
      <4>3. \A k \in 1..Len(results') :
              results'[k].outcome = IF outcome[results'[k].call] = "none" THEN "error"
                                    ELSE outcome[results'[k].call]
        BY <1>1, <2>2, <3>2, <3>3 DEF RoundInv, ResultsInv
      <4>4. Answered' = (Executables \ left) \cup (Current \ (toConfirm' \cup Approved))
        <5>1. Answered = (Executables \ left) \cup (Current \ (toConfirm \cup Approved))
          BY <1>1 DEF RoundInv, ResultsInv
        <5> QED BY <1>1, <1>3, <3>4, <5>1
      <4>5. ~ \A j \in Answered' : outcome[j] # "none"
        BY <1>1, <2>2, <3>4
      <4> QED BY <2>1, <4>2, <4>3, <4>4, <4>5 DEF ResultsInv
    <3>6. Len(results') <= Len(calls)
      <4> DEFINE f == [k \in 1..Len(results') |-> results'[k].call]
      <4>1. Answered' \subseteq Calls
        BY <1>1, <3>1, <3>5, <2>1, PlaceFacts DEF RoundInv, ResultsInv
      <4>2. f \in [1..Len(results') -> 1..Len(calls)]
        BY <4>1 DEF Answered, Calls
      <4>3. \A k, l \in 1..Len(results') : k # l => f[k] # f[l]
        BY <3>5 DEF ResultsInv
      <4>4. Len(results') \in Nat /\ Len(calls) \in Nat
        BY <3>3, PlaceFacts DEF RoundInv
      <4> HIDE DEF f
      <4> QED BY <4>2, <4>3, <4>4, DistinctAreFew
    <3>7. TypeOK'
      BY <1>2, <1>3, <2>1, <3>1, <3>3, <3>6 DEF RoundInv, TypeOK
    <3> QED BY <2>3, <2>4, <3>1, <3>5, <3>7 DEF RoundInv, SettledInv
  <2> QED BY <1>5, <2>5, <2>6
<1> QED BY <1>4, <1>5

LEMMA ConfirmExemptStep ==
  ASSUME RoundInv, ConfirmExempt
  PROVE  RoundInv'
<1>1. confirmList' \in SUBSET Names
  BY DEF ConfirmExempt, RoundInv, TypeOK, listVars
<1> QED BY <1>1, ApproveStep DEF ConfirmExempt, listVars

(* ToSet(approved) is the set of those approved.                           *)
LEMMA ApprovedIsSet == ToSet(approved) = Approved
BY DEF ToSet, Approved

LEMMA StartStep ==
  ASSUME RoundInv, NEW i \in Calls, Start(i)
  PROVE  RoundInv'
<1>1. /\ status = "round" /\ toConfirm = {} /\ i \in Approved /\ outcome[i] = "none"
      /\ running' = running \cup {i}
      /\ UNCHANGED <<mode, autoApprove, listVars, status, used, calls, left, toConfirm,
                     approved, outcome, results, consent, merged>>
  BY ApprovedIsSet DEF Start
<1>2. /\ Calls' = Calls /\ Executables' = Executables /\ Current' = Current
      /\ Answered' = Answered /\ Approved' = Approved
  BY <1>1 DEF Calls, Executables, Current, Partition, Answered, Approved
<1>3. TypeOK' /\ BatchInv' /\ ResultsInv' /\ SettledInv'
  BY <1>1, <1>2 DEF RoundInv, TypeOK, BatchInv, ResultsInv, SettledInv, listVars
<1>4. LeaveInv'
  BY <1>1, <1>2 DEF RoundInv, LeaveInv
<1> QED BY <1>3, <1>4 DEF RoundInv

LEMMA FinishStep ==
  ASSUME RoundInv, NEW i \in Calls, Finish(i)
  PROVE  RoundInv'
<1>1. PICK o \in MayEndWith(i) : outcome' = [outcome EXCEPT ![i] = o]
  BY DEF Finish
<1>2. o \in Outcomes /\ o # "none"
  BY DEF MayEndWith, Outcomes
<1>3. /\ status = "round" /\ i \in running /\ running' = running \ {i}
      /\ UNCHANGED <<mode, autoApprove, listVars, status, used, calls, left, toConfirm,
                     approved, results, consent, merged>>
  BY DEF Finish
<1>4. /\ Calls' = Calls /\ Executables' = Executables /\ Current' = Current
      /\ Answered' = Answered /\ Approved' = Approved
  BY <1>3 DEF Calls, Executables, Current, Partition, Answered, Approved
<1>5. /\ outcome' \in [Calls -> Outcomes \cup {"none"}] /\ outcome'[i] = o
      /\ \A j \in Calls \ {i} : outcome'[j] = outcome[j]
  BY <1>1, <1>2 DEF RoundInv, TypeOK
<1>6. /\ i \in Approved /\ i \in Current /\ i \in left /\ i \in Executables /\ toConfirm = {}
      /\ consent[i] # "none" /\ running \subseteq Calls
  BY <1>3, PlaceFacts DEF RoundInv, LeaveInv, BatchInv, TypeOK
<1>7. i \notin Answered
  BY <1>3, <1>6 DEF RoundInv, ResultsInv
<1>8. TypeOK' /\ BatchInv' /\ SettledInv'
  BY <1>3, <1>4, <1>5 DEF RoundInv, TypeOK, BatchInv, SettledInv, listVars
<1>9. LeaveInv'
  BY <1>2, <1>3, <1>4, <1>5, <1>6 DEF RoundInv, LeaveInv
<1>10. ResultsInv'
  <2>1. Answered \subseteq Calls
    BY <1>3, PlaceFacts DEF RoundInv, ResultsInv
  <2>2. \A j \in Answered : outcome'[j] = outcome[j]
    BY <1>5, <1>7, <2>1
  <2>3. \A k \in 1..Len(results) : results[k].call \in Answered
    BY DEF Answered
  <2> QED BY <1>3, <1>4, <2>2, <2>3 DEF RoundInv, ResultsInv
<1> QED BY <1>8, <1>9, <1>10 DEF RoundInv

LEMMA EndBatchStep ==
  ASSUME RoundInv, EndBatch
  PROVE  RoundInv'
<1> DEFINE n == Len(results)
           m == Len(approved)
           batch == [k \in 1..m |-> [call |-> approved[k], outcome |-> outcome[approved[k]]]]
<1>1. /\ status = "round" /\ toConfirm = {} /\ \A i \in Approved : outcome[i] # "none"
      /\ results' = results \o batch /\ left' = left \ Current /\ approved' = <<>>
      /\ UNCHANGED <<mode, autoApprove, listVars, status, used, calls, running, outcome,
                     consent, merged>>
  BY ApprovedIsSet DEF EndBatch, Current
<1>2. /\ Calls' = Calls /\ Executables' = Executables /\ Current' = toConfirm' /\ Approved' = {}
  BY <1>1 DEF EndBatch, Calls, Executables, Current, Partition, Approved
<1>3. /\ Calls \subseteq 1..MaxRound /\ Calls \subseteq Nat /\ Executables \subseteq Calls /\ left \subseteq Executables
      /\ Current \subseteq left /\ Approved \subseteq Current
      /\ \A i \in Current, j \in left \ Current : i < j
  BY PlaceFacts DEF RoundInv, BatchInv
<1>4. Current' \subseteq left' /\ left' \subseteq Executables
  <2>1. left' \subseteq Nat
    BY <1>1, <1>3
  <2>2. toConfirm' = Partition(calls, left')
    BY DEF EndBatch
  <2> QED BY <1>1, <1>2, <1>3, <2>2 DEF Partition
<1>5. /\ n \in Nat /\ m \in Nat /\ results \in Seq(Results)
      /\ \A k \in 1..m : approved[k] \in Approved /\ approved[k] \in Nat /\ outcome[approved[k]] \in Outcomes
  <2>1. \A k \in 1..m : approved[k] \in Approved
    BY DEF Approved
  <2>2. \A j \in Approved : outcome[j] \in Outcomes
    BY <1>1, <1>3 DEF RoundInv, TypeOK
  <2>3. \A j \in Approved : j \in Nat
    BY <1>3
  <2>4. n \in Nat /\ m \in Nat /\ results \in Seq(Results)
    BY DEF RoundInv, TypeOK
  <2> HIDE DEF n, m
  <2> QED BY <2>1, <2>2, <2>3, <2>4
<1>6. /\ batch \in Seq(Results) /\ Len(batch) = m
      /\ \A k \in 1..m : batch[k].call = approved[k] /\ batch[k].outcome = outcome[approved[k]]
  <2>1. \A k \in 1..m : approved[k] \in 1..MaxRound
    BY <1>3, <1>5
  <2> QED BY <1>5, <2>1 DEF Results
<1>7. /\ results' \in Seq(Results) /\ Len(results') = n + m
      /\ \A k \in 1..n : results'[k] = results[k]
      /\ \A k \in n + 1..n + m : k - n \in 1..m /\ results'[k] = batch[k - n]
  BY <1>1, <1>5, <1>6
<1>8. \A k \in n + 1..n + m : results'[k].call = approved[k - n] /\ results'[k].outcome = outcome[approved[k - n]]
  BY <1>6, <1>7
<1> HIDE DEF batch
<1>9. Answered = (Executables \ left) \cup (Current \ Approved)
  BY <1>1 DEF RoundInv, ResultsInv
<1>10. Answered' = Answered \cup Approved
  <2>1. \A k \in 1..m : n + k \in n + 1..n + m /\ (n + k) - n = k
    BY <1>5
  <2>2. Approved \subseteq Answered'
    <3>1. \A k \in 1..m : n + k \in 1..Len(results') /\ results'[n + k].call = approved[k]
      <4> SUFFICES ASSUME NEW k \in 1..m
                   PROVE  n + k \in 1..Len(results') /\ results'[n + k].call = approved[k]
        OBVIOUS
      <4>1. n + k \in n + 1..n + m /\ (n + k) - n = k
        BY <2>1
      <4>2. results'[n + k].call = approved[k]
        BY <1>8, <4>1
      <4>3. n + k \in 1..n + m
        BY <1>5, <4>1
      <4> QED BY <1>7, <4>2, <4>3
    <3> QED BY <3>1 DEF Answered, Approved
  <2>3. Answered \subseteq Answered'
    BY <1>5, <1>7 DEF Answered
  <2>4. Answered' \subseteq Answered \cup Approved
    <3>1. \A k \in 1..n + m : k \in 1..n \/ k \in n + 1..n + m
      BY <1>5
    <3>2. \A k \in 1..n : results'[k].call \in Answered
      BY <1>7 DEF Answered
    <3>3. \A k \in n + 1..n + m : results'[k].call \in Approved
      BY <1>5, <1>7, <1>8
    <3>4. \A k \in 1..Len(results') : results'[k].call \in Answered \cup Approved
      BY <1>7, <3>1, <3>2, <3>3
    <3> QED BY <3>4 DEF Answered
  <2> QED BY <2>2, <2>3, <2>4
<1>11. Answered' = Executables \ left'
  BY <1>1, <1>3, <1>9, <1>10
<1>12. running = {}
  BY <1>1 DEF RoundInv, LeaveInv
<1>13. BatchInv'
  <2>1. \A i \in Executables \ left' : \A j \in left' : i < j
    BY <1>1, <1>3 DEF RoundInv, BatchInv
  <2> QED BY <1>1, <1>2, <1>4, <2>1 DEF BatchInv
<1>14. LeaveInv'
  <2>1. \A i \in Calls : outcome[i] # "none" => i \in Executables /\ i \notin left' /\ consent[i] # "none"
    BY <1>1, <1>3 DEF RoundInv, LeaveInv
  <2> QED BY <1>1, <1>2, <1>3, <1>4, <1>12, <2>1 DEF LeaveInv
<1>15. ResultsInv'
  <2>1. /\ \A k \in 1..n : results[k].call \in Answered
        /\ \A k, l \in 1..n : k # l => results[k].call # results[l].call
        /\ \A k \in 1..n : results[k].outcome = IF outcome[results[k].call] = "none" THEN "error"
                                                ELSE outcome[results[k].call]
    BY DEF RoundInv, ResultsInv, Answered
  <2>2. \A k \in 1..n + m : k \in 1..n \/ k \in n + 1..n + m
    BY <1>5
  <2>3. \A k, l \in 1..m : k # l => approved[k] # approved[l]
    <3> SUFFICES ASSUME NEW k \in 1..m, NEW l \in 1..m, k # l PROVE approved[k] # approved[l]
      OBVIOUS
    <3>1. k < l \/ l < k
      BY <1>5
    <3> QED BY <1>5, <3>1 DEF RoundInv, BatchInv
  <2>4. Answered \cap Approved = {}
    BY <1>3, <1>9
  <2>5. \A k, l \in 1..n + m : k # l => results'[k].call # results'[l].call
    <3> SUFFICES ASSUME NEW k \in 1..n + m, NEW l \in 1..n + m, k # l
                 PROVE  results'[k].call # results'[l].call
      OBVIOUS
    <3>1. CASE k \in 1..n /\ l \in 1..n
      BY <1>7, <2>1, <3>1
    <3>2. CASE k \in 1..n /\ l \in n + 1..n + m
      BY <1>5, <1>7, <1>8, <2>1, <2>4, <3>2
    <3>3. CASE k \in n + 1..n + m /\ l \in 1..n
      BY <1>5, <1>7, <1>8, <2>1, <2>4, <3>3
    <3>4. CASE k \in n + 1..n + m /\ l \in n + 1..n + m
      <4>1. k - n # l - n /\ k - n \in 1..m /\ l - n \in 1..m
        BY <1>5, <3>4
      <4> QED BY <1>8, <2>3, <3>4, <4>1
    <3> QED BY <2>2, <3>1, <3>2, <3>3, <3>4
  <2>6. \A k \in 1..n + m :
          results'[k].outcome = IF outcome[results'[k].call] = "none" THEN "error"
                                ELSE outcome[results'[k].call]
    <3> SUFFICES ASSUME NEW k \in 1..n + m
                 PROVE  results'[k].outcome = IF outcome[results'[k].call] = "none" THEN "error"
                                              ELSE outcome[results'[k].call]
      OBVIOUS
    <3>1. CASE k \in 1..n
      BY <1>7, <2>1, <3>1
    <3>2. CASE k \in n + 1..n + m
      BY <1>1, <1>5, <1>7, <1>8, <3>2
    <3> QED BY <2>2, <3>1, <3>2
  <2>7. ASSUME \A i \in Answered' : outcome[i] # "none",
               NEW k \in 1..n + m, NEW l \in 1..n + m, k < l
        PROVE  results'[k].call < results'[l].call
    <3>1. Current \ Approved = {}
      BY <1>3, <1>9, <1>10, <2>7 DEF RoundInv, LeaveInv
    <3>2. CASE k \in 1..n /\ l \in 1..n
      BY <1>7, <1>10, <2>7, <3>2 DEF RoundInv, ResultsInv
    <3>3. CASE k \in 1..n /\ l \in n + 1..n + m
      <4>1. results'[k].call \in Executables \ left
        BY <1>7, <1>9, <2>1, <3>1, <3>3
      <4>2. results'[l].call \in left
        BY <1>3, <1>5, <1>7, <1>8, <3>3
      <4> QED BY <4>1, <4>2 DEF RoundInv, BatchInv
    <3>4. CASE k \in n + 1..n + m /\ l \in n + 1..n + m
      <4>1. k - n < l - n /\ k - n \in 1..m /\ l - n \in 1..m
        BY <1>5, <2>7, <3>4
      <4> QED BY <1>8, <3>4, <4>1 DEF RoundInv, BatchInv
    <3>5. ~(k \in n + 1..n + m /\ l \in 1..n)
      BY <1>5, <2>7
    <3> QED BY <2>2, <3>2, <3>3, <3>4, <3>5
  <2> HIDE DEF n, m
  <2> QED BY <1>1, <1>2, <1>7, <1>11, <2>5, <2>6, <2>7 DEF ResultsInv
<1>16. Len(results') <= Len(calls)
  <2> DEFINE f == [k \in 1..n + m |-> results'[k].call]
  <2>1. \A k \in 1..n + m : results'[k].call \in Answered'
    BY <1>7 DEF Answered
  <2>2. f \in [1..n + m -> 1..Len(calls)]
    BY <1>3, <1>11, <2>1 DEF Calls
  <2>3. \A k, l \in 1..n + m : k # l => f[k] # f[l]
    BY <1>7, <1>15 DEF ResultsInv
  <2>4. n + m \in Nat /\ Len(calls) \in Nat
    BY <1>5, PlaceFacts DEF RoundInv
  <2> HIDE DEF f, n, m
  <2>5. n + m <= Len(calls)
    BY <2>2, <2>3, <2>4, DistinctAreFew
  <2> QED BY <1>7, <2>5
<1>17. TypeOK'
  <2>1. left' \subseteq Calls' /\ toConfirm' \subseteq Calls' /\ approved' \in Seq(Calls')
    BY <1>1, <1>2, <1>3, <1>4
  <2>2. results' \in Seq(Results) /\ Len(results') <= Len(calls')
    BY <1>1, <1>7, <1>16
  <2> HIDE DEF n, m
  <2> QED BY <1>1, <1>2, <2>1, <2>2 DEF RoundInv, TypeOK, listVars
<1> QED BY <1>1, <1>13, <1>14, <1>15, <1>17 DEF RoundInv, SettledInv

(* What the results are when all batches have ended: one for each          *)
(* executable call, and the l-th one is what the call of rank l is given.  *)
LEMMA AllEnded ==
  ASSUME RoundInv, status = "round", left = {}
  PROVE  /\ Current = {} /\ Approved = {} /\ toConfirm = {} /\ Answered = Executables
         /\ Len(results) = Cardinality(Executables) /\ Cardinality(Executables) \in Nat
         /\ \A i \in Executables : Rank(Executables, i) \in 1..Len(results)
         /\ \A l \in 1..Len(results) : \E i \in Executables : Rank(Executables, i) = l
<1>1. Current = {} /\ Approved = {} /\ toConfirm = {}
  BY PlaceFacts DEF RoundInv
<1>2. Answered = Executables
  BY <1>1 DEF RoundInv, ResultsInv
<1>3. Len(results) \in Nat
  BY DEF RoundInv, TypeOK
<1>4. Cardinality(Executables) = Len(results)
  <2> DEFINE f == [k \in 1..Len(results) |-> results[k].call]
  <2>1. f \in [1..Len(results) -> Executables]
    BY <1>2 DEF Answered
  <2>2. \A e \in Executables : \E k \in 1..Len(results) : f[k] = e
    BY <1>2 DEF Answered
  <2>3. \A k, l \in 1..Len(results) : k # l => f[k] # f[l]
    BY DEF RoundInv, ResultsInv
  <2> HIDE DEF f
  <2> QED BY <1>3, <2>1, <2>2, <2>3, DistinctCount
<1>5. Executables \in SUBSET (1..Len(calls)) /\ Len(calls) \in Nat
  BY PlaceFacts DEF RoundInv, Calls
<1> QED BY <1>1, <1>2, <1>3, <1>4, <1>5, RankFacts

(* In order they are, too, unless a call was refused.                      *)
LEMMA InOrder ==
  ASSUME RoundInv, status = "round", left = {}, \A i \in Executables : outcome[i] # "none",
         NEW i \in Executables
  PROVE  results[Rank(Executables, i)].call = i
<1>1. PICK l \in 1..Len(results) : results[l].call = i
  BY AllEnded DEF Answered
<1>2. /\ Len(results) \in Nat /\ Executables \subseteq Nat
      /\ \A k \in 1..Len(results) : results[k].call \in Executables
      /\ \A k, q \in 1..Len(results) : k < q => results[k].call < results[q].call
  <2>1. Len(results) \in Nat /\ Executables \subseteq Nat
    BY PlaceFacts DEF RoundInv, TypeOK
  <2>2. \A k \in 1..Len(results) : results[k].call \in Executables
    BY AllEnded DEF Answered
  <2>3. \A j \in Answered : outcome[j] # "none"
    BY AllEnded
  <2> QED BY <2>1, <2>2, <2>3 DEF RoundInv, ResultsInv
<1> DEFINE A == {j \in 1..i : j \in Executables}
           f == [k \in 1..l |-> results[k].call]
<1>3. f \in [1..l -> A]
  <2> SUFFICES ASSUME NEW k \in 1..l PROVE results[k].call \in A
    OBVIOUS
  <2>1. results[k].call \in Nat /\ i \in Nat /\ k \in 1..Len(results) /\ results[k].call \in Executables
    <3>1. l \in Nat /\ l <= Len(results)
      BY <1>2
    <3>2. k \in 1..Len(results)
      BY <1>2, <3>1
    <3> QED BY <1>2, <3>2
  <2>2. results[k].call <= i /\ results[k].call >= 1
    <3>1. k = l \/ k < l
      OBVIOUS
    <3>2. results[k].call = i \/ results[k].call < i
      <4>1. CASE k = l
        BY <1>1, <4>1
      <4>2. CASE k < l
        BY <1>1, <1>2, <2>1, <4>2
      <4> QED BY <3>1, <4>1, <4>2
    <3>3. results[k].call \in 1..Len(calls)
      BY <2>1, PlaceFacts DEF RoundInv, Calls
    <3> QED BY <2>1, <3>2, <3>3, PlaceFacts DEF RoundInv
  <2> QED BY <2>1, <2>2
<1>4. \A e \in A : \E k \in 1..l : f[k] = e
  <2> SUFFICES ASSUME NEW e \in A PROVE \E k \in 1..l : results[k].call = e
    OBVIOUS
  <2>1. e \in Executables /\ e \in Nat /\ i \in Nat /\ e <= i
    BY <1>2
  <2>2. PICK k \in 1..Len(results) : results[k].call = e
    <3>1. e \in Answered
      BY <2>1, AllEnded
    <3> QED BY <3>1 DEF Answered
  <2>3. ~(l < k)
    <3> SUFFICES ASSUME l < k PROVE FALSE
      OBVIOUS
    <3>1. i < e
      BY <1>1, <1>2, <2>2
    <3> QED BY <2>1, <3>1
  <2> QED BY <1>2, <2>2, <2>3
<1>5. \A k, q \in 1..l : k # q => f[k] # f[q]
  <2> SUFFICES ASSUME NEW k \in 1..l, NEW q \in 1..l, k # q
               PROVE  results[k].call # results[q].call
    OBVIOUS
  <2>1. k \in 1..Len(results) /\ q \in 1..Len(results)
    BY <1>1, <1>2
  <2> QED BY <2>1 DEF RoundInv, ResultsInv
<1>6. l \in Nat
  BY <1>2
<1>7. Cardinality(A) = l
  <2> HIDE DEF A, f
  <2> QED BY <1>3, <1>4, <1>5, <1>6, DistinctCount
<1> QED BY <1>1, <1>7 DEF Rank

LEMMA EndRoundStep ==
  ASSUME RoundInv, EndRound
  PROVE  RoundInv' /\ RoundAnswered'
<1> DEFINE rs == MergeResults(results)
           succeeded == [k \in 1..Len(rs) |-> IF rs[k].outcome = "ok" THEN calls[rs[k].call] ELSE Rejected]
           base == [engine |-> engineList, confirm |-> confirmList, plan |-> plan]
           lists == FoldLeft(ApplyModifier, base, succeeded)
           n == Len(calls)
<1>1. /\ status = "round" /\ left = {} /\ status' = "model" /\ merged' = rs
      /\ engineList' = lists.engine /\ confirmList' = lists.confirm /\ plan' = lists.plan
      /\ UNCHANGED <<mode, autoApprove, used, calls, batchVars, consent>>
  BY DEF EndRound
<1>2. /\ Calls' = Calls /\ Executables' = Executables /\ Current' = Current
      /\ Answered' = Answered /\ Approved' = Approved
  BY <1>1 DEF Calls, Executables, Current, Partition, Answered, Approved, batchVars
<1>3. /\ n \in Nat /\ Calls = 1..n /\ Calls \subseteq 1..MaxRound /\ Executables \subseteq Calls
      /\ results \in Seq(Results)
  BY PlaceFacts DEF RoundInv, Calls, TypeOK
<1>4. /\ DOMAIN rs = 1..n
      /\ \A i \in Executables : rs[i] = results[Rank(Executables, i)]
      /\ \A i \in Calls \ Executables : rs[i] = [call |-> i, outcome |-> "error"]
  <2>1. \A i \in Calls : {j \in 1..i : calls[j] \in Executable} = {j \in 1..i : j \in Executables}
    BY <1>3 DEF Executables
  <2>2. \A i \in Calls : i \in Executables <=> calls[i] \in Executable
    BY DEF Executables
  <2> QED BY <1>3, <2>1, <2>2 DEF MergeResults, Rank
<1>5. rs \in Seq(Results) /\ Len(rs) = n
  <2>1. \A i \in Executables : rs[i] \in Results
    BY <1>1, <1>3, <1>4, AllEnded
  <2>2. \A i \in Calls \ Executables : rs[i] \in Results
    BY <1>3, <1>4 DEF Results, Outcomes
  <2>3. \A i \in 1..n : rs[i] \in Results
    BY <1>3, <2>1, <2>2
  <2>4. rs = [i \in 1..n |-> rs[i]]
    BY <1>3 DEF MergeResults
  <2> HIDE DEF rs, n
  <2>5. rs \in [1..n -> Results]
    BY <2>3, <2>4
  <2> QED BY <1>3, <2>5
<1> HIDE DEF rs
<1>6. lists \in Lists
  <2>1. base \in Lists
    BY DEF RoundInv, TypeOK, Lists
  <2>2. DOMAIN succeeded = 1..n
    BY <1>5
  <2> HIDE DEF succeeded, base, n
  <2> QED BY <1>3, <2>1, <2>2, ModifiersType
<1> HIDE DEF lists
<1>7. /\ engineList' \subseteq Names /\ confirmList' \subseteq Names
      /\ plan' \in [active : BOOLEAN, before : SUBSET Names]
  BY <1>1, <1>6 DEF Lists
<1>8. TypeOK'
  BY <1>1, <1>2, <1>5, <1>7 DEF RoundInv, TypeOK, batchVars
<1>9. BatchInv' /\ LeaveInv' /\ ResultsInv' /\ SettledInv'
  BY <1>1, <1>2 DEF RoundInv, BatchInv, LeaveInv, ResultsInv, SettledInv, batchVars
<1>10. EveryCallAnsweredOnce'
  <2>1. ASSUME NEW i \in Calls
        PROVE  \E k \in Calls : /\ rs[k].call = i
                                /\ rs[k].outcome = IF outcome[i] = "none" THEN "error" ELSE outcome[i]
    <3>1. CASE i \in Executables
      <4>1. PICK l \in 1..Len(results) : results[l].call = i
        BY <1>1, <3>1, AllEnded DEF Answered
      <4>2. PICK k \in Executables : Rank(Executables, k) = l
        BY <1>1, AllEnded
      <4>3. results[l].outcome = IF outcome[i] = "none" THEN "error" ELSE outcome[i]
        BY <4>1 DEF RoundInv, ResultsInv
      <4> QED BY <1>3, <1>4, <4>1, <4>2, <4>3
    <3>2. CASE i \notin Executables
      <4>1. outcome[i] = "none"
        BY <3>2 DEF RoundInv, LeaveInv
      <4>2. rs[i] = [call |-> i, outcome |-> "error"]
        BY <1>4, <3>2
      <4> QED BY <4>1, <4>2
    <3> QED BY <3>1, <3>2
  <2> QED BY <1>1, <1>2, <1>5, <2>1 DEF EveryCallAnsweredOnce, batchVars
<1>11. InOrderUnlessRefused'
  <2>1. ASSUME \A i \in Executables : outcome[i] # "none", NEW k \in 1..n PROVE rs[k].call = k
    <3>1. CASE k \in Executables
      BY <1>1, <1>4, <2>1, <3>1, InOrder
    <3>2. CASE k \notin Executables
      BY <1>3, <1>4, <3>2
    <3> QED BY <3>1, <3>2
  <2> HIDE DEF n
  <2>2. (\A i \in Calls : calls[i] \in Executable => outcome[i] # "none")
          => \A i \in Executables : outcome[i] # "none"
    BY DEF Executables
  <2> QED BY <1>1, <1>2, <1>5, <2>1, <2>2 DEF InOrderUnlessRefused, batchVars
<1> QED BY <1>8, <1>9, <1>10, <1>11 DEF RoundInv, RoundAnswered

-----------------------------------------------------------------------------
(***************************************************************************)
(* The theorems.                                                           *)
(***************************************************************************)
LEMMA RoundStep == RoundInv /\ RoundAnswered /\ [Next]_vars => RoundInv' /\ RoundAnswered'
<1> SUFFICES ASSUME RoundInv, RoundAnswered, [Next]_vars PROVE RoundInv' /\ RoundAnswered'
  OBVIOUS
<1> DEFINE Busy == status' \in {"round", "quit"}
<1>1. Busy => RoundAnswered'
  BY DEF RoundAnswered, EveryCallAnsweredOnce, InOrderUnlessRefused
<1>2. ASSUME NEW names \in Rounds, StartRound(names) PROVE RoundInv' /\ Busy
  BY <1>2, StartRoundStep DEF StartRound
<1>3. ASSUME NEW answer \in {"yes", "no", "always", "quit"}, Confirm(answer) PROVE RoundInv' /\ Busy
  BY <1>3, ConfirmStep DEF Confirm
<1>4. ASSUME ConfirmExempt PROVE RoundInv' /\ Busy
  BY <1>4, ConfirmExemptStep DEF ConfirmExempt
<1>5. ASSUME NEW i \in Calls, Start(i) PROVE RoundInv' /\ Busy
  BY <1>5, StartStep DEF Start
<1>6. ASSUME NEW i \in Calls, Finish(i) PROVE RoundInv' /\ Busy
  BY <1>6, FinishStep DEF Finish
<1>7. ASSUME EndBatch PROVE RoundInv' /\ Busy
  BY <1>7, EndBatchStep DEF EndBatch
<1>8. ASSUME EndRound PROVE RoundInv' /\ RoundAnswered'
  BY <1>8, EndRoundStep
<1>9. ASSUME UNCHANGED vars PROVE RoundInv' /\ RoundAnswered'
  <2>1. /\ Calls' = Calls /\ Executables' = Executables /\ Current' = Current
        /\ Answered' = Answered /\ Approved' = Approved
    BY <1>9 DEF vars, batchVars, Calls, Executables, Current, Partition, Answered, Approved
  <2>2. RoundInv'
    BY <1>9, <2>1 DEF vars, listVars, batchVars, RoundInv, TypeOK, BatchInv, LeaveInv, ResultsInv,
                      SettledInv
  <2>3. RoundAnswered'
    BY <1>9, <2>1 DEF vars, batchVars, RoundAnswered, EveryCallAnsweredOnce, InOrderUnlessRefused
  <2> QED BY <2>2, <2>3
<1> HIDE DEF Busy
<1> QED BY <1>1, <1>2, <1>3, <1>4, <1>5, <1>6, <1>7, <1>8, <1>9 DEF Next

LEMMA LeaveFromInv == RoundInv => RunsWithLeave
<1> SUFFICES ASSUME RoundInv PROVE RunsWithLeave
  OBVIOUS
<1>1. OnlyConfirmedRun
  BY PlaceFacts DEF RoundInv, LeaveInv, BatchInv, OnlyConfirmedRun, Executables
<1>2. QuitRunsNothingOfItsBatch
  BY DEF RoundInv, LeaveInv, QuitRunsNothingOfItsBatch, Current
<1>3. UnsafeRunAlone
  <2> SUFFICES ASSUME NEW i \in running, calls[i] \in Unsafe
               PROVE  /\ running = {i}
                      /\ \A j \in Calls : calls[j] \in Executable /\ j # i => (Settled(j) <=> j < i)
    BY DEF UnsafeRunAlone
  <2>1. /\ i \in Approved /\ i \in Current /\ i \in left /\ toConfirm = {} /\ status # "quit"
        /\ Current = {i} /\ Approved = {i} /\ \A j \in left \ {i} : i < j
    BY PlaceFacts DEF RoundInv, LeaveInv
  <2>2. running = {i}
    BY <2>1 DEF RoundInv, LeaveInv
  <2>3. Answered = Executables \ left
    BY <2>1 DEF RoundInv, ResultsInv
  <2>4. ASSUME NEW j \in Executables, j # i PROVE Settled(j) <=> j < i
    <3>1. Settled(j) <=> outcome[j] # "none" \/ j \in Answered
      BY DEF Settled, Answered
    <3>2. CASE j \in left
      <4>1. i < j /\ j \in Nat /\ i \in Nat
        BY <2>1, <2>4, <3>2, PlaceFacts DEF RoundInv
      <4>2. outcome[j] = "none"
        BY <2>1, <2>4, <3>2, PlaceFacts DEF RoundInv, LeaveInv
      <4> QED BY <2>3, <3>1, <3>2, <4>1, <4>2
    <3>3. CASE j \notin left
      <4>1. j < i
        BY <2>1, <3>3 DEF RoundInv, BatchInv
      <4> QED BY <2>3, <3>1, <3>3, <4>1
    <3> QED BY <3>2, <3>3
  <2> QED BY <2>2, <2>4 DEF Executables
<1> QED BY <1>1, <1>2, <1>3 DEF RunsWithLeave

LEMMA RoundInvariant == Spec => [](RoundInv /\ RoundAnswered)
BY InitRound, RoundStep, PTL DEF Spec

(* The lists, the batches, the results and the consents have their types   *)
(* in every state, whatever rounds the model asks for (execute_tool_round, *)
(* execute_tool_calls).                                                    *)
THEOREM RoundTypeCorrect == Spec => []TypeOK
<1>1. RoundInv => TypeOK
  BY DEF RoundInv
<1> QED BY <1>1, RoundInvariant, PTL

(* Every finished round has one result for each of its calls, the call's   *)
(* own, in the order of the calls unless one was refused at its prompt     *)
(* (merge_tool_results).                                                   *)
THEOREM EveryRoundAnswered == Spec => []RoundAnswered
BY RoundInvariant, PTL

(* No call runs without its consent, next to an unsafe one, or in a batch  *)
(* at whose prompt the user quit (confirm_call, partition).                *)
THEOREM WhatRunsHasLeave == Spec => []RunsWithLeave
BY RoundInvariant, LeaveFromInv, PTL
=============================================================================
