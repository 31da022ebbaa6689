----------------------------- MODULE ToolsProofs -----------------------------
(***************************************************************************)
(* Proofs about the tools a model calls.  The file tools and their cache:  *)
(* the byte counter is exact and the limits hold, and the modification     *)
(* times the cache keeps never decide against what the model was shown,    *)
(* for any files, any limits and any doings of the outside world.  The     *)
(* MCP client: a call returns the answer to itself, or the answer to a     *)
(* request that was left without one, where the transport lets it, for     *)
(* any servers, any deployments and any number of requests and faults.     *)
(***************************************************************************)
EXTENDS FileTools, Mcp, WellFoundedInduction, SequenceTheorems, FiniteSetTheorems, TLAPS

(***************************************************************************)
(* A set of naturals that holds 0 and is closed under + 1 holds them all.  *)
(***************************************************************************)
Below == {ss \in Nat \X Nat : ss[1] < ss[2]}

LEMMA NatSetInduction ==
  ASSUME NEW S, 0 \in S, \A n \in Nat : n \in S => n + 1 \in S
  PROVE  Nat \subseteq S
<1> SUFFICES ASSUME Nat \ S # {} PROVE FALSE
  OBVIOUS
<1>1. IsWellFoundedOn(Below, Nat)
  BY NatLessThanWellFounded DEF OpToRel, Below
<1>2. PICK m \in Nat \ S : \A k \in Nat \ S : <<k, m>> \notin Below
  BY <1>1, WFMin
<1>3. m - 1 \in Nat /\ m - 1 < m /\ (m - 1) + 1 = m
  OBVIOUS
<1> QED BY <1>2, <1>3 DEF Below

(***************************************************************************)
(* The sum of the sizes of a list of entries.                              *)
(***************************************************************************)
SumsOf(s, P) ==
  /\ P \in [0..Len(s) -> Nat] /\ P[0] = 0
  /\ \A n \in 1..Len(s) : P[n] = P[n - 1] + s[n].size

LEMMA SizeOfEntry == \A e \in FileState : e.size \in Nat
BY FileToolsAssumption DEF FileState

LEMMA SumIsSum ==
  ASSUME NEW s \in Seq(FileState)
  PROVE  \E P : SumsOf(s, P) /\ TotalSize(s) = P[Len(s)]
<1> DEFINE n == Len(s)
           Is(c) == c = [k \in 0..n |-> IF k = 0 THEN 0 ELSE c[k - 1] + s[k].size]
           Up(P, m) == P[0] = 0 /\ \A k \in 1..m : P[k] = P[k - 1] + s[k].size
           S == {m \in Nat : m <= n => \E P \in [0..m -> Nat] : Up(P, m)}
<1>1. n \in Nat /\ \A k \in 1..n : s[k].size \in Nat
  BY SizeOfEntry
<1>2. 0 \in S
  <2>1. [k \in 0..0 |-> 0] \in [0..0 -> Nat] /\ Up([k \in 0..0 |-> 0], 0)
    OBVIOUS
  <2> QED BY <2>1
<1>3. ASSUME NEW m \in Nat, m \in S PROVE m + 1 \in S
  <2>1. ASSUME m + 1 <= n PROVE \E P \in [0..m + 1 -> Nat] : Up(P, m + 1)
    <3>1. m <= n /\ m + 1 \in 1..n
      BY <1>1, <2>1
    <3>2. PICK P \in [0..m -> Nat] : Up(P, m)
      BY <1>3, <3>1
    <3> DEFINE Q == [k \in 0..m + 1 |-> IF k = m + 1 THEN P[m] + s[m + 1].size ELSE P[k]]
    <3>3. s[m + 1].size \in Nat /\ P[m] \in Nat
      BY <1>1, <3>1
    <3>4. Q \in [0..m + 1 -> Nat]
      BY <3>3
    <3>5. \A k \in 1..m + 1 : Q[k] = Q[k - 1] + s[k].size
      BY <3>2
    <3>6. Q[0] = 0
      BY <3>2
    <3> HIDE DEF Q
    <3> QED BY <3>4, <3>5, <3>6
  <2> HIDE DEF Up, n
  <2> QED BY <2>1
<1> HIDE DEF S
<1>4. n \in S
  BY <1>1, <1>2, <1>3, NatSetInduction
<1>5. PICK P \in [0..n -> Nat] : Up(P, n)
  BY <1>1, <1>4 DEF S
<1>6. Is(P)
  <2>1. P = [k \in 0..n |-> P[k]]
    OBVIOUS
  <2>2. \A k \in 0..n : P[k] = IF k = 0 THEN 0 ELSE P[k - 1] + s[k].size
    BY <1>1, <1>5
  <2> QED BY <2>1, <2>2
<1>7. TotalSize(s) = (CHOOSE c : Is(c))[n]
  BY DEF TotalSize
<1>8. PICK c : Is(c) /\ TotalSize(s) = c[n]
  BY <1>6, <1>7
<1>9. c[0] = 0 /\ \A k \in 1..n : c[k] = c[k - 1] + s[k].size
  BY <1>1, <1>8
<1> DEFINE R == {m \in Nat : m <= n => c[m] \in Nat}
<1>10. ASSUME NEW m \in Nat, m \in R PROVE m + 1 \in R
  <2>1. m + 1 <= n => c[m + 1] = c[m] + s[m + 1].size /\ s[m + 1].size \in Nat /\ m <= n
    BY <1>1, <1>9
  <2> QED BY <1>10, <2>1
<1>11. 0 \in R
  BY <1>9
<1> HIDE DEF R
<1>12. Nat \subseteq R
  BY <1>10, <1>11, NatSetInduction
<1>13. c \in [0..n -> Nat]
  <2>1. \A k \in 0..n : c[k] \in Nat
    BY <1>1, <1>12 DEF R
  <2>2. c = [k \in 0..n |-> c[k]]
    BY <1>8
  <2> QED BY <2>1, <2>2
<1> QED BY <1>8, <1>9, <1>13 DEF SumsOf

LEMMA SizeOfConcat ==
  ASSUME NEW a \in Seq(FileState), NEW b \in Seq(FileState)
  PROVE  /\ a \o b \in Seq(FileState)
         /\ TotalSize(a) \in Nat /\ TotalSize(b) \in Nat
         /\ TotalSize(a \o b) = TotalSize(a) + TotalSize(b)
<1> DEFINE n == Len(a)
           m == Len(b)
           ab == a \o b
<1>1. /\ n \in Nat /\ m \in Nat /\ Len(ab) = n + m /\ ab \in Seq(FileState)
      /\ \A k \in 1..n : ab[k] = a[k]
      /\ \A k \in 1..m : ab[n + k] = b[k]
  OBVIOUS
<1>2. PICK A : SumsOf(a, A) /\ TotalSize(a) = A[n]
  BY SumIsSum
<1>3. PICK B : SumsOf(b, B) /\ TotalSize(b) = B[m]
  BY SumIsSum
<1>4. PICK C : SumsOf(ab, C) /\ TotalSize(ab) = C[n + m]
  BY <1>1, SumIsSum
<1> HIDE DEF ab
<1>5. /\ A \in [0..n -> Nat] /\ A[0] = 0 /\ \A k \in 1..n : A[k] = A[k - 1] + a[k].size
      /\ B \in [0..m -> Nat] /\ B[0] = 0 /\ \A k \in 1..m : B[k] = B[k - 1] + b[k].size
      /\ C \in [0..n + m -> Nat] /\ C[0] = 0 /\ \A k \in 1..n + m : C[k] = C[k - 1] + ab[k].size
  BY <1>1, <1>2, <1>3, <1>4 DEF SumsOf
<1> HIDE DEF n, m
<1> DEFINE S == {k \in Nat : k <= n => C[k] = A[k]}
           T == {k \in Nat : k <= m => C[n + k] = A[n] + B[k]}
<1>6. 0 \in S
  BY <1>5
<1>7. ASSUME NEW k \in Nat, k \in S PROVE k + 1 \in S
  <2>1. ASSUME k + 1 <= n PROVE C[k + 1] = A[k + 1]
    <3>1. k + 1 \in 1..n /\ k + 1 \in 1..n + m /\ (k + 1) - 1 = k /\ k <= n
      BY <1>1, <2>1
    <3>2. C[k + 1] = C[k] + ab[k + 1].size /\ A[k + 1] = A[k] + a[k + 1].size
      BY <1>5, <3>1
    <3> QED BY <1>1, <1>7, <3>1, <3>2
  <2> QED BY <2>1
<1> HIDE DEF S
<1>8. n \in S
  BY <1>1, <1>6, <1>7, NatSetInduction
<1>9. C[n] = A[n]
  BY <1>1, <1>8 DEF S
<1>10. 0 \in T
  BY <1>1, <1>5, <1>9
<1>11. ASSUME NEW k \in Nat, k \in T PROVE k + 1 \in T
  <2>1. ASSUME k + 1 <= m PROVE C[n + (k + 1)] = A[n] + B[k + 1]
    <3>1. /\ k + 1 \in 1..m /\ n + (k + 1) \in 1..n + m /\ (n + (k + 1)) - 1 = n + k
          /\ (k + 1) - 1 = k /\ k <= m /\ k \in 0..m /\ n \in 0..n
      BY <1>1, <2>1
    <3>2. C[n + (k + 1)] = C[n + k] + ab[n + (k + 1)].size /\ B[k + 1] = B[k] + b[k + 1].size
      BY <1>5, <3>1
    <3>3. ab[n + (k + 1)] = b[k + 1] /\ b[k + 1].size \in Nat /\ A[n] \in Nat /\ B[k] \in Nat
      <4>1. b[k + 1] \in FileState
        BY <3>1 DEF m
      <4> QED BY <1>1, <1>5, <3>1, <4>1, SizeOfEntry
    <3> QED BY <1>11, <3>1, <3>2, <3>3, SMTT(20)
  <2> QED BY <2>1
<1> HIDE DEF T
<1>12. m \in T
  BY <1>1, <1>10, <1>11, NatSetInduction
<1>13. C[n + m] = A[n] + B[m] /\ A[n] \in Nat /\ B[m] \in Nat
  BY <1>1, <1>5, <1>12 DEF T
<1> QED BY <1>1, <1>2, <1>3, <1>4, <1>13 DEF ab

LEMMA SizeOfOne ==
  ASSUME NEW e \in FileState
  PROVE  TotalSize(<<e>>) = e.size
<1>1. <<e>> \in Seq(FileState) /\ Len(<<e>>) = 1 /\ <<e>>[1] = e
  OBVIOUS
<1>2. PICK P : SumsOf(<<e>>, P) /\ TotalSize(<<e>>) = P[1]
  BY <1>1, SumIsSum
<1>3. P[0] = 0 /\ P[1] = P[1 - 1] + e.size
  BY <1>1, <1>2 DEF SumsOf
<1> QED BY <1>2, <1>3, SizeOfEntry

LEMMA SizeOfNone == TotalSize(<<>>) = 0
<1>1. <<>> \in Seq(FileState) /\ Len(<<>>) = 0
  OBVIOUS
<1> QED BY <1>1, SumIsSum DEF SumsOf

-----------------------------------------------------------------------------
(***************************************************************************)
(* The cache: what get and insert make of its entries.                     *)
(***************************************************************************)
Accounts(s, b) ==
  /\ s \in Seq(FileState) /\ Distinct(s) /\ Len(s) <= MaxEntries
  /\ b = TotalSize(s) /\ (Len(s) > 1 => b <= MaxBytes)

LEMMA Parts ==
  ASSUME NEW s \in Seq(FileState), NEW p \in 0..Len(s)
  PROVE  /\ SubSeq(s, 1, p) \in Seq(FileState) /\ Len(SubSeq(s, 1, p)) = p
         /\ \A i \in 1..p : SubSeq(s, 1, p)[i] = s[i]
         /\ SubSeq(s, p + 1, Len(s)) \in Seq(FileState) /\ Len(SubSeq(s, p + 1, Len(s))) = Len(s) - p
         /\ \A i \in 1..Len(s) - p : SubSeq(s, p + 1, Len(s))[i] = s[p + i]
         /\ s = SubSeq(s, 1, p) \o SubSeq(s, p + 1, Len(s))
<1>1. Len(s) \in Nat /\ p \in Nat /\ p <= Len(s)
  OBVIOUS
<1> DEFINE a == SubSeq(s, 1, p)
           b == SubSeq(s, p + 1, Len(s))
<1>2. a \in Seq(FileState) /\ Len(a) = p /\ \A i \in 1..p : a[i] = s[i]
  BY <1>1
<1>3. b \in Seq(FileState) /\ Len(b) = Len(s) - p /\ \A i \in 1..Len(s) - p : b[i] = s[p + i]
  BY <1>1
<1> HIDE DEF a, b
<1>4. s = a \o b
  <2>1. /\ 1 \in 1..Len(s) + 1 /\ p \in 1 - 1..Len(s) /\ Len(s) \in p..Len(s)
    BY <1>1
  <2>2. SubSeq(s, 1, p) \o SubSeq(s, p + 1, Len(s)) = SubSeq(s, 1, Len(s))
    BY <2>1, ConcatAdjacentSubSeq
  <2>3. SubSeq(s, 1, Len(s)) = s
    BY SubSeqFull
  <2> QED BY <2>2, <2>3 DEF a, b
<1> QED BY <1>2, <1>3, <1>4 DEF a, b

LEMMA OthersFacts ==
  ASSUME cache \in Seq(FileState), Distinct(cache), NEW f
  PROVE  /\ Others(f) \in Seq(FileState) /\ Distinct(Others(f))
         /\ \A i \in 1..Len(Others(f)) :
              Others(f)[i].path # f /\ \E j \in 1..Len(cache) : Others(f)[i] = cache[j]
         /\ IF Places(f) = {} THEN Others(f) = cache
            ELSE /\ Place(f) \in 1..Len(cache) /\ cache[Place(f)].path = f
                 /\ cache[Place(f)] \in FileState
                 /\ Len(cache) = Len(Others(f)) + 1
                 /\ TotalSize(cache) = cache[Place(f)].size + TotalSize(Others(f))
<1>1. CASE Places(f) = {}
  <2>1. Others(f) = cache
    BY <1>1 DEF Others
  <2>2. \A i \in 1..Len(cache) : cache[i].path # f
    BY <1>1 DEF Places
  <2> QED BY <1>1, <2>1, <2>2
<1>2. CASE Places(f) # {}
  <2> DEFINE p == Place(f)
             n == Len(cache)
             a == SubSeq(cache, 1, p - 1)
             b == SubSeq(cache, p + 1, n)
  <2>1. p \in Places(f)
    BY <1>2 DEF Place
  <2>2. p \in 1..n /\ cache[p].path = f
    BY <2>1 DEF Places
  <2> HIDE DEF p
  <2>3. /\ n \in Nat /\ p \in Nat /\ p - 1 \in 0..n /\ p \in 0..n /\ cache[p] \in FileState
        /\ (p - 1) + 1 = p
    BY <2>2
  <2>4. /\ a \in Seq(FileState) /\ Len(a) = p - 1 /\ \A i \in 1..p - 1 : a[i] = cache[i]
        /\ b \in Seq(FileState) /\ Len(b) = n - p /\ \A i \in 1..n - p : b[i] = cache[p + i]
    BY <2>3, Parts
  <2>5. Others(f) = a \o b
    BY <1>2 DEF Others, RemoveAt, p
  <2> HIDE DEF a, b
  <2>6. /\ a \o b \in Seq(FileState) /\ Len(a \o b) = n - 1
        /\ \A i \in 1..n - 1 : (a \o b)[i] = IF i < p THEN cache[i] ELSE cache[i + 1]
    <3>1. a \o b \in Seq(FileState) /\ Len(a \o b) = n - 1
      <4>1. a \in Seq(FileState) /\ b \in Seq(FileState) /\ Len(a) + Len(b) = n - 1
        BY <2>3, <2>4
      <4>2. a \o b \in Seq(FileState) /\ Len(a \o b) = Len(a) + Len(b)
        BY <4>1
      <4> QED BY <4>1, <4>2
    <3>2. ASSUME NEW i \in 1..n - 1 PROVE (a \o b)[i] = IF i < p THEN cache[i] ELSE cache[i + 1]
      <4>1. CASE i < p
        <5>1. i \in 1..p - 1
          BY <2>3, <4>1
        <5> QED BY <2>3, <2>4, <4>1, <5>1
      <4>2. CASE ~(i < p)
        <5>1. i - (p - 1) \in 1..n - p /\ p + (i - (p - 1)) = i + 1
          BY <2>2, <2>3, <4>2
        <5>2. (a \o b)[i] = b[i - (p - 1)]
          BY <2>2, <2>3, <2>4, <4>2, <5>1
        <5> QED BY <2>4, <4>2, <5>1, <5>2
      <4> QED BY <4>1, <4>2
    <3> QED BY <3>1, <3>2
  <2>7. TotalSize(cache) = cache[p].size + TotalSize(a \o b)
    <3> DEFINE e == cache[p]
               c == SubSeq(cache, p, n)
    <3>1. c \in Seq(FileState) /\ cache = a \o c
      BY <2>3, Parts DEF a
    <3>2. c = <<e>> \o b
      <4>1. p \in 1..Len(cache) /\ Len(cache) \in p..Len(cache)
        BY <2>2, <2>3
      <4> QED BY <4>1, SubSeqRecursiveFirst DEF b
    <3> HIDE DEF c
    <3>3. TotalSize(cache) = TotalSize(a) + TotalSize(c) /\ TotalSize(a) \in Nat
      BY <2>4, <3>1, SizeOfConcat
    <3>4. TotalSize(c) = e.size + TotalSize(b) /\ e.size \in Nat /\ TotalSize(b) \in Nat
      <4>1. <<e>> \in Seq(FileState) /\ TotalSize(<<e>>) = e.size
        BY <2>3, SizeOfOne
      <4> HIDE DEF e
      <4> QED BY <2>4, <3>2, <4>1, SizeOfConcat
    <3>5. TotalSize(a \o b) = TotalSize(a) + TotalSize(b)
      BY <2>4, SizeOfConcat
    <3> QED BY <3>3, <3>4, <3>5
  <2>8. ASSUME NEW i \in 1..n - 1
        PROVE  (a \o b)[i].path # f /\ \E j \in 1..n : (a \o b)[i] = cache[j]
    <3>1. CASE i < p
      <4>1. i \in 1..n /\ i # p
        BY <2>3, <3>1
      <4> QED BY <2>2, <2>6, <3>1, <4>1 DEF Distinct
    <3>2. CASE ~(i < p)
      <4>1. i + 1 \in 1..n /\ i + 1 # p
        BY <2>3, <3>2
      <4> QED BY <2>2, <2>6, <3>2, <4>1 DEF Distinct
    <3> QED BY <3>1, <3>2
  <2>9. Distinct(a \o b)
    <3> SUFFICES ASSUME NEW i \in 1..n - 1, NEW j \in 1..n - 1, (a \o b)[i].path = (a \o b)[j].path
                 PROVE  i = j
      BY <2>6 DEF Distinct
    <3> DEFINE k(x) == IF x < p THEN x ELSE x + 1
    <3>1. k(i) \in 1..n /\ k(j) \in 1..n /\ (a \o b)[i] = cache[k(i)] /\ (a \o b)[j] = cache[k(j)]
      BY <2>3, <2>6, SMTT(20)
    <3>2. k(i) = k(j)
      <4> HIDE DEF k
      <4> QED BY <3>1 DEF Distinct
    <3> QED BY <2>3, <3>2
  <2> QED BY <1>2, <2>2, <2>3, <2>5, <2>6, <2>7, <2>8, <2>9 DEF p
<1> QED BY <1>1, <1>2

LEMMA LargestExists ==
  ASSUME NEW n \in Nat, NEW room \in SUBSET (0..n), room # {}
  PROVE  \E k \in room : \A m \in room : m <= k
<1> DEFINE Largest(T) == \E k \in T : \A m \in T : m <= k
           S == {i \in Nat : \A T \in SUBSET (0..i) : T # {} => Largest(T)}
<1>1. 0 \in S
  <2>1. ASSUME NEW T \in SUBSET (0..0), T # {} PROVE Largest(T)
    <3>1. \A m \in T : m = 0 /\ m <= 0
      OBVIOUS
    <3>2. PICK m \in T : TRUE
      BY <2>1
    <3> QED BY <3>1, <3>2
  <2> HIDE DEF Largest
  <2> QED BY <2>1
<1>2. ASSUME NEW i \in Nat, i \in S PROVE i + 1 \in S
  <2>1. ASSUME NEW T \in SUBSET (0..i + 1), T # {} PROVE Largest(T)
    <3>1. CASE i + 1 \in T
      BY <3>1
    <3>2. CASE i + 1 \notin T
      <4>1. T \in SUBSET (0..i)
        BY <3>2
      <4> HIDE DEF Largest
      <4> QED BY <1>2, <2>1, <4>1
    <3> QED BY <3>1, <3>2
  <2> HIDE DEF Largest
  <2> QED BY <2>1
<1> HIDE DEF S
<1>3. n \in S
  BY <1>1, <1>2, NatSetInduction
<1> QED BY <1>3 DEF S

(* An entry in front of entries of other paths.                            *)
LEMMA InFront ==
  ASSUME NEW e \in FileState, NEW s \in Seq(FileState), Distinct(s),
         \A i \in 1..Len(s) : s[i].path # e.path
  PROVE  /\ <<e>> \o s \in Seq(FileState) /\ Len(<<e>> \o s) = Len(s) + 1
         /\ \A i \in 1..Len(s) + 1 :
              (<<e>> \o s)[i] = e \/ \E j \in 1..Len(s) : (<<e>> \o s)[i] = s[j]
         /\ Distinct(<<e>> \o s)
         /\ TotalSize(<<e>> \o s) = e.size + TotalSize(s)
<1> DEFINE t == <<e>> \o s
<1>1. /\ t \in Seq(FileState) /\ Len(t) = Len(s) + 1 /\ t[1] = e /\ Len(s) \in Nat
      /\ \A i \in 1..Len(s) : t[i + 1] = s[i]
  OBVIOUS
<1>2. \A i \in 1..Len(s) + 1 : i # 1 => i - 1 \in 1..Len(s) /\ (i - 1) + 1 = i
  BY <1>1
<1>3. TotalSize(t) = e.size + TotalSize(s)
  <2>1. <<e>> \in Seq(FileState) /\ TotalSize(<<e>>) = e.size
    BY SizeOfOne
  <2> QED BY <2>1, SizeOfConcat
<1> HIDE DEF t
<1>4. \A i \in 1..Len(s) + 1 : IF i = 1 THEN t[i] = e ELSE i - 1 \in 1..Len(s) /\ t[i] = s[i - 1]
  <2> SUFFICES ASSUME NEW i \in 1..Len(s) + 1, i # 1
               PROVE  i - 1 \in 1..Len(s) /\ t[i] = s[i - 1]
    <3>1. t[1] = e
      BY <1>1
    <3> QED BY <3>1
  <2>1. i - 1 \in 1..Len(s) /\ (i - 1) + 1 = i
    BY <1>2
  <2>2. t[(i - 1) + 1] = s[i - 1]
    BY <1>1, <2>1
  <2> QED BY <2>1, <2>2
<1>5. Distinct(t)
  <2> SUFFICES ASSUME NEW i \in 1..Len(s) + 1, NEW j \in 1..Len(s) + 1, t[i].path = t[j].path
               PROVE  i = j
    BY <1>1 DEF Distinct
  <2>1. CASE i = 1 /\ j = 1
    BY <2>1
  <2>2. CASE i # 1 /\ j # 1
    <3>1. i - 1 = j - 1
      BY <1>4, <2>2 DEF Distinct
    <3> QED BY <1>1, <3>1
  <2>3. CASE i = 1 /\ j # 1
    BY <1>4, <2>3
  <2>4. CASE i # 1 /\ j = 1
    BY <1>4, <2>4
  <2> QED BY <2>1, <2>2, <2>3, <2>4
<1>6. \A i \in 1..Len(s) + 1 : t[i] = e \/ \E j \in 1..Len(s) : t[i] = s[j]
  BY <1>4
<1> QED BY <1>1, <1>3, <1>5, <1>6 DEF t

LEMMA TouchStep ==
  ASSUME Accounts(cache, bytes), NEW f, Touch(f)
  PROVE  /\ Accounts(cache', bytes')
         /\ \A i \in 1..Len(cache') : \E j \in 1..Len(cache) : cache'[i] = cache[j]
<1>1. CASE Places(f) = {}
  <2>1. cache' = cache /\ bytes' = bytes
    BY <1>1, OthersFacts DEF Touch, Accounts
  <2> QED BY <2>1
<1>2. CASE Places(f) # {}
  <2> DEFINE e == cache[Place(f)]
             s == Others(f)
  <2>1. cache' = <<e>> \o s /\ bytes' = bytes
    BY <1>2 DEF Touch
  <2>2. /\ s \in Seq(FileState) /\ Distinct(s) /\ e \in FileState /\ e.path = f
        /\ \A i \in 1..Len(s) : s[i].path # f /\ \E j \in 1..Len(cache) : s[i] = cache[j]
        /\ Place(f) \in 1..Len(cache)
        /\ Len(cache) = Len(s) + 1 /\ TotalSize(cache) = e.size + TotalSize(s)
    BY <1>2, OthersFacts DEF Accounts
  <2>3. \E j \in 1..Len(cache) : e = cache[j]
    BY <2>2
  <2> HIDE DEF e, s
  <2>4. /\ cache' \in Seq(FileState) /\ Len(cache') = Len(cache) /\ Distinct(cache')
        /\ TotalSize(cache') = TotalSize(cache)
        /\ \A i \in 1..Len(s) + 1 : cache'[i] = e \/ \E j \in 1..Len(s) : cache'[i] = s[j]
    BY <2>1, <2>2, InFront
  <2>5. ASSUME NEW i \in 1..Len(cache') PROVE \E j \in 1..Len(cache) : cache'[i] = cache[j]
    BY <2>2, <2>3, <2>4
  <2>6. Accounts(cache', bytes')
    BY <2>1, <2>4 DEF Accounts
  <2> QED BY <2>5, <2>6
<1> QED BY <1>1, <1>2

LEMMA InsertStep ==
  ASSUME Accounts(cache, bytes), NEW e \in FileState, Insert(e)
  PROVE  /\ Accounts(cache', bytes')
         /\ \A i \in 1..Len(cache') :
              cache'[i] = e \/ \E j \in 1..Len(cache) : cache'[i] = cache[j] /\ cache[j].path # e.path
<1> DEFINE others == Others(e.path)
           old == IF Places(e.path) = {} THEN 0 ELSE cache[Place(e.path)].size
           counted == Saturating(bytes, old)
           n == Len(others)
           Left(k) == Saturating(counted, TotalSize(SubSeq(others, k + 1, Len(others))))
           room == {k \in 0..Len(others) : k = 0 \/ Left(k) + e.size <= MaxBytes}
           kept == CHOOSE k \in room : \A m \in room : m <= k
           rest == IF kept < MaxEntries THEN kept ELSE MaxEntries - 1
           s == SubSeq(others, 1, rest)
<1>1. cache' = <<e>> \o s /\ bytes' = Left(rest) + e.size
  BY DEF Insert, InsertAbove
<1>2. /\ others \in Seq(FileState) /\ Distinct(others) /\ n \in Nat
      /\ \A i \in 1..n : others[i].path # e.path /\ \E j \in 1..Len(cache) : others[i] = cache[j]
  BY OthersFacts DEF Accounts
<1>3. counted = TotalSize(others)
  <2>1. TotalSize(others) \in Nat /\ bytes = TotalSize(cache)
    BY <1>2, SizeOfConcat DEF Accounts
  <2>2. CASE Places(e.path) = {}
    BY <2>1, <2>2, OthersFacts, SMTT(20) DEF Accounts, Saturating
  <2>3. CASE Places(e.path) # {}
    <3>1. cache[Place(e.path)].size \in Nat /\ bytes = cache[Place(e.path)].size + TotalSize(others)
      BY <2>1, <2>3, OthersFacts, SizeOfEntry DEF Accounts
    <3> QED BY <2>1, <2>3, <3>1 DEF Saturating
  <2> QED BY <2>2, <2>3
<1> HIDE DEF others, old, counted
<1>4. ASSUME NEW k \in 0..n
      PROVE  /\ Left(k) = TotalSize(SubSeq(others, 1, k)) /\ Left(k) \in Nat
             /\ TotalSize(SubSeq(others, k + 1, n)) \in Nat
  <2> DEFINE a == SubSeq(others, 1, k)
             b == SubSeq(others, k + 1, n)
  <2>1. a \in Seq(FileState) /\ b \in Seq(FileState) /\ others = a \o b
    BY <1>2, Parts
  <2>2. TotalSize(others) = TotalSize(a) + TotalSize(b) /\ TotalSize(a) \in Nat /\ TotalSize(b) \in Nat
    <3> HIDE DEF a, b
    <3> QED BY <2>1, SizeOfConcat
  <2> QED BY <1>3, <2>2 DEF Saturating
<1> HIDE DEF Left
<1>5. kept \in room /\ kept \in 0..n /\ (kept = 0 \/ Left(kept) + e.size <= MaxBytes)
  <2>1. room \in SUBSET (0..n) /\ 0 \in room
    BY <1>2
  <2> HIDE DEF room
  <2>2. \E k \in room : \A m \in room : m <= k
    BY <1>2, <2>1, LargestExists
  <2>3. kept \in room
    BY <2>2
  <2> HIDE DEF kept
  <2> QED BY <2>3 DEF room
<1> HIDE DEF room, kept
<1>6. /\ rest \in 0..n /\ rest + 1 <= MaxEntries /\ rest <= kept
      /\ MaxEntries \in Nat /\ MaxBytes \in Nat /\ e.size \in Nat
  BY <1>2, <1>5, FileToolsAssumption, SizeOfEntry
<1> HIDE DEF rest
<1>7. rest > 0 => Left(rest) + e.size <= MaxBytes
  <2>0. Left(rest) \in Nat /\ Left(kept) \in Nat /\ rest \in Nat /\ kept \in Nat
    BY <1>4, <1>5, <1>6
  <2> SUFFICES ASSUME rest > 0 PROVE Left(rest) <= Left(kept)
    <3>1. rest > 0 => kept # 0
      BY <1>6, <2>0
    <3> QED BY <1>5, <1>6, <2>0, <3>1
  <2> DEFINE a == SubSeq(others, 1, kept)
  <2>1. a \in Seq(FileState) /\ Len(a) = kept /\ kept \in Nat /\ rest \in Nat
    BY <1>2, <1>5, <1>6, Parts
  <2>2. s = SubSeq(a, 1, rest)
    <3>1. SubSeq(a, 1, rest) = SubSeq(others, 1 + 1 - 1, 1 + rest - 1)
      BY <1>2, <1>5, <1>6, <2>1, SubSeqOfSubSeq
    <3>2. 1 + 1 - 1 = 1 /\ 1 + rest - 1 = rest
      BY <2>1
    <3> HIDE DEF a
    <3> QED BY <3>1, <3>2
  <2> HIDE DEF a, s
  <2>3. /\ s \in Seq(FileState) /\ SubSeq(a, rest + 1, Len(a)) \in Seq(FileState)
        /\ a = s \o SubSeq(a, rest + 1, Len(a))
    BY <1>6, <2>1, <2>2, Parts
  <2>4. TotalSize(a) >= TotalSize(s)
    <3> DEFINE b == SubSeq(a, rest + 1, Len(a))
    <3> HIDE DEF b
    <3>1. TotalSize(s \o b) = TotalSize(s) + TotalSize(b) /\ TotalSize(s) \in Nat /\ TotalSize(b) \in Nat
      BY <2>3, SizeOfConcat DEF b
    <3>2. a = s \o b
      BY <2>3 DEF b
    <3> QED BY <3>1, <3>2
  <2> QED BY <1>4, <1>5, <1>6, <2>4 DEF a, s
<1>8. /\ s \in Seq(FileState) /\ Len(s) = rest /\ \A i \in 1..rest : s[i] = others[i]
      /\ Left(rest) = TotalSize(s)
  BY <1>2, <1>4, <1>6, Parts
<1>9. /\ \A i \in 1..rest : s[i].path # e.path /\ \E j \in 1..Len(cache) : s[i] = cache[j]
      /\ Distinct(s)
  <2>1. rest \in Nat /\ rest <= n
    BY <1>2, <1>6
  <2>2. \A i \in 1..rest : i \in 1..n
    BY <1>2, <2>1
  <2> HIDE DEF s
  <2>3. Distinct(s)
    BY <1>2, <1>8, <2>2 DEF Distinct
  <2>4. ASSUME NEW i \in 1..rest
        PROVE  s[i].path # e.path /\ \E j \in 1..Len(cache) : s[i] = cache[j]
    <3>1. i \in 1..n /\ s[i] = others[i]
      BY <1>8, <2>2
    <3> QED BY <1>2, <3>1
  <2> QED BY <2>3, <2>4
<1> HIDE DEF s
<1>10. /\ cache' \in Seq(FileState) /\ Len(cache') = rest + 1 /\ Distinct(cache')
       /\ TotalSize(cache') = e.size + TotalSize(s)
       /\ \A i \in 1..rest + 1 : cache'[i] = e \/ \E j \in 1..rest : cache'[i] = s[j]
  BY <1>1, <1>8, <1>9, InFront
<1>11. bytes' = TotalSize(cache') /\ (Len(cache') > 1 => bytes' <= MaxBytes)
  BY <1>1, <1>4, <1>6, <1>7, <1>8, <1>10
<1>12. Accounts(cache', bytes')
  BY <1>6, <1>10, <1>11 DEF Accounts
<1>13. \A i \in 1..Len(cache') :
         cache'[i] = e \/ \E j \in 1..Len(cache) : cache'[i] = cache[j] /\ cache[j].path # e.path
  BY <1>9, <1>10
<1> QED BY <1>12, <1>13

-----------------------------------------------------------------------------
(***************************************************************************)
(* The inductive invariant.  What the properties say of the moment of a    *)
(* stub or of an edit's write is decided earlier, when an entry is made    *)
(* and when the outside writes: a time stamp that matches an entry shows a *)
(* version that is the entry's, and the one last shown, or a raced one.    *)
(* Only the call that wrote the file and has not updated the cache may     *)
(* break this for its file, which is why no other call starts before.      *)
(***************************************************************************)
Trusted == seen \cup raced
Settling(f) == tool # None /\ tool.path = f /\ tool.step = "cache"

ShownIn(l, f) ==
  {i \in 1..Len(l) : l[i].kind \in {"content", "edited", "written"} /\ l[i].path = f}
LastIn(l, f) == {l[i].ver : i \in {j \in ShownIn(l, f) : \A k \in ShownIn(l, f) : k <= j}}

Fits(e) ==
  /\ <<e.path, e.ver>> \in Trusted
  /\ disk[e.path] # None /\ disk[e.path].mtime = e.mtime /\ ~Settling(e.path) =>
       \/ <<e.path, disk[e.path].ver>> \in raced
       \/ disk[e.path].ver = e.ver /\ LastIn(live, e.path) \subseteq {e.ver}

CacheInv == \A i \in 1..Len(cache) : Fits(cache[i])

(* An edit under way has been shown the file, or the file is raced; a call *)
(* that wrote has its version on disk, or a raced one.                     *)
CallInv ==
  tool # None =>
    /\ tool.op = "read" => tool.step = "read"
    /\ tool.op = "edit" /\ tool.step # "cache" /\ disk[tool.path] # None =>
         <<tool.path, disk[tool.path].ver>> \in Trusted
    /\ tool.step = "cache" =>
         /\ <<tool.path, tool.ver>> \in Trusted
         /\ disk[tool.path] # None =>
              disk[tool.path].ver = tool.ver \/ <<tool.path, disk[tool.path].ver>> \in raced

StubInv == Stubbed =>
  <<last.path, last.ver>> \in seen /\ LastIn(live, last.path) \subseteq {last.ver}

(* Types, with the accounting of the cache in one piece.                   *)
Typed ==
  /\ disk \in [Files -> [ver : 0..MaxWrites, mtime : 0..MaxClock] \cup {None}]
  /\ newest \in 0..MaxWrites /\ clock \in 0..MaxClock /\ calls \in 0..MaxCalls
  /\ tool \in Call \cup {None} /\ live \in Seq(Result) /\ last \in Result \cup {None}
  /\ seen \subseteq Versions /\ raced \subseteq Versions

FileTypes == Typed /\ Accounts(cache, bytes)

FileInv == FileTypes /\ CacheInv /\ CallInv /\ StubInv

LEMMA TypeParts == FileTypes <=> Typed /\ Accounts(cache, bytes)
BY DEF FileTypes

LEMMA InitFile == Init => FileInv
<1> SUFFICES ASSUME Init PROVE FileInv
  OBVIOUS
<1>1. Len(cache) = 0 /\ cache \in Seq(FileState) /\ live \in Seq(Result)
  BY DEF Init
<1>2. 0 \in 0..MaxWrites /\ 0 \in 0..MaxClock /\ 0 \in 0..MaxCalls
  BY FileToolsAssumption
<1>3. Typed
  <2>1. disk \in [Files -> [ver : 0..MaxWrites, mtime : 0..MaxClock] \cup {None}]
    BY <1>2 DEF Init
  <2> QED BY <1>1, <1>2, <2>1 DEF Init, Typed
<1>4. Accounts(cache, bytes)
  BY <1>1, SizeOfNone, FileToolsAssumption DEF Init, Accounts, Distinct
<1>5. CacheInv /\ CallInv /\ StubInv
  BY <1>1 DEF Init, CacheInv, CallInv, StubInv, Stubbed
<1> QED BY <1>3, <1>4, <1>5, TypeParts DEF FileInv

(* An entry still fits unless its file changed under its time stamp.       *)
LEMMA StillFits ==
  ASSUME NEW e, Fits(e), seen \subseteq seen', raced \subseteq raced',
         disk'[e.path] # None /\ disk'[e.path].mtime = e.mtime /\ ~(Settling(e.path))' =>
           \/ <<e.path, disk'[e.path].ver>> \in raced'
           \/ /\ disk'[e.path] = disk[e.path] /\ ~Settling(e.path)
              /\ LastIn(live', e.path) \subseteq LastIn(live, e.path) \cup {disk[e.path].ver}
  PROVE  Fits(e)'
<1>1. <<e.path, e.ver>> \in Trusted'
  BY DEF Fits, Trusted
<1>2. ASSUME disk'[e.path] # None, disk'[e.path].mtime = e.mtime, ~(Settling(e.path))'
      PROVE  \/ <<e.path, disk'[e.path].ver>> \in raced'
             \/ disk'[e.path].ver = e.ver /\ LastIn(live', e.path) \subseteq {e.ver}
  BY <1>2 DEF Fits
<1> QED BY <1>1, <1>2 DEF Fits

(* A result only shows a version if it is a content or what was written.   *)
LEMMA ShownAfterAppend ==
  ASSUME live \in Seq(Result), NEW x \in Result, NEW f
  PROVE  LastIn(Append(live, x), f)
           = IF x.kind \in {"content", "edited", "written"} /\ x.path = f THEN {x.ver}
             ELSE LastIn(live, f)
<1> DEFINE l == Append(live, x)
           n == Len(live)
<1>1. /\ n \in Nat /\ Len(l) = n + 1 /\ l[n + 1] = x /\ \A i \in 1..n : l[i] = live[i]
      /\ \A i \in 1..n + 1 : i \in 1..n \/ i = n + 1
      /\ \A i \in 1..n : i \in 1..n + 1 /\ i <= n + 1 /\ ~(n + 1 <= i)
  OBVIOUS
<1> HIDE DEF l, n
<1>2. CASE x.kind \in {"content", "edited", "written"} /\ x.path = f
  <2>1. n + 1 \in ShownIn(l, f) /\ \A i \in ShownIn(l, f) : i <= n + 1
    BY <1>1, <1>2 DEF ShownIn
  <2>2. \A j \in ShownIn(l, f) : (\A k \in ShownIn(l, f) : k <= j) => j = n + 1
    BY <1>1, <2>1 DEF ShownIn
  <2>3. {j \in ShownIn(l, f) : \A k \in ShownIn(l, f) : k <= j} = {n + 1}
    BY <2>1, <2>2
  <2> QED BY <1>1, <1>2, <2>3 DEF LastIn, l
<1>3. CASE ~(x.kind \in {"content", "edited", "written"} /\ x.path = f)
  <2>1. ShownIn(l, f) = ShownIn(live, f) /\ ShownIn(live, f) \subseteq 1..n
    BY <1>1, <1>3 DEF ShownIn, n
  <2>2. LastIn(l, f) = LastIn(live, f)
    BY <1>1, <2>1 DEF LastIn
  <2> QED BY <1>3, <2>2 DEF l
<1> QED BY <1>2, <1>3

(* Clearing old results shows nothing else.                                *)
LEMMA ShownAfterClearing ==
  ASSUME live \in Seq(Result), NEW m \in 0..Len(live), NEW f
  PROVE  LastIn(SubSeq(live, m + 1, Len(live)), f) \subseteq LastIn(live, f)
<1> DEFINE l == SubSeq(live, m + 1, Len(live))
           n == Len(live)
<1>1. /\ n \in Nat /\ m \in Nat /\ m <= n /\ Len(l) = n - m /\ \A i \in 1..n - m : l[i] = live[m + i]
  OBVIOUS
<1> HIDE DEF l, n
<1>2. \A i \in 1..n - m : i \in ShownIn(l, f) <=> m + i \in ShownIn(live, f)
  BY <1>1 DEF ShownIn, n
<1>3. ASSUME NEW j \in ShownIn(l, f), \A k \in ShownIn(l, f) : k <= j
      PROVE  m + j \in ShownIn(live, f) /\ \A k \in ShownIn(live, f) : k <= m + j
  <2>1. j \in 1..n - m /\ m + j \in ShownIn(live, f)
    BY <1>1, <1>2 DEF ShownIn
  <2>2. ASSUME NEW k \in ShownIn(live, f), ~(k <= m + j) PROVE FALSE
    <3>1. k \in 1..n
      BY DEF ShownIn, n
    <3>2. k - m \in 1..n - m /\ m + (k - m) = k /\ ~(k - m <= j)
      BY <1>1, <2>1, <2>2, <3>1
    <3>3. k - m \in ShownIn(l, f)
      BY <1>2, <3>2
    <3> QED BY <1>3, <3>2, <3>3
  <2> QED BY <2>1, <2>2
<1>4. \A j \in ShownIn(l, f) : l[j].ver = live[m + j].ver
  BY <1>1 DEF ShownIn
<1> QED BY <1>3, <1>4 DEF LastIn, l

-----------------------------------------------------------------------------
(***************************************************************************)
(* The steps, one lemma for each action.                                   *)
(***************************************************************************)
LEMMA TypeNext ==
  ASSUME Typed', Accounts(cache', bytes')
  PROVE  FileTypes'
BY DEF FileTypes, Typed, Accounts

LEMMA CachedFits ==
  ASSUME FileInv, NEW i \in 1..Len(cache)
  PROVE  cache[i] \in FileState /\ cache[i].path \in Files /\ Fits(cache[i])
<1>1. cache \in Seq(FileState)
  BY DEF FileInv, FileTypes, Typed, Accounts
<1>2. cache[i] \in FileState
  BY <1>1
<1> QED BY <1>2 DEF FileState, FileInv, CacheInv

LEMMA GiveFacts ==
  ASSUME live \in Seq(Result), NEW kind, NEW f \in Files, NEW ver \in 0..MaxWrites, NEW r \in Ranges,
         kind \in {"content", "stub", "edited", "written", "error", "other"},
         Give(kind, f, ver, r)
  PROVE  /\ tool' = None /\ last' = [kind |-> kind, path |-> f, ver |-> ver, range |-> r]
         /\ last' \in Result /\ live' \in Seq(Result)
         /\ \A g : LastIn(live', g) = IF kind \in {"content", "edited", "written"} /\ g = f THEN {ver}
                                      ELSE LastIn(live, g)
<1> DEFINE x == [kind |-> kind, path |-> f, ver |-> ver, range |-> r]
<1>1. tool' = None /\ last' = x /\ live' = Append(live, x)
  BY DEF Give
<1>2. x \in Result /\ x.kind = kind /\ x.path = f /\ x.ver = ver
  BY DEF Result
<1> HIDE DEF x
<1>3. ASSUME NEW g
      PROVE  LastIn(live', g) = IF kind \in {"content", "edited", "written"} /\ g = f THEN {ver}
                                ELSE LastIn(live, g)
  <2>1. LastIn(live', g) = IF x.kind \in {"content", "edited", "written"} /\ x.path = g THEN {x.ver}
                           ELSE LastIn(live, g)
    BY <1>1, <1>2, ShownAfterAppend
  <2> QED BY <1>2, <2>1
<1>4. live' \in Seq(Result)
  BY <1>1, <1>2
<1> QED BY <1>1, <1>2, <1>3, <1>4 DEF x

(* A failed call shows nothing and ends.                                   *)
LEMMA FailFacts ==
  ASSUME live \in Seq(Result), NEW f \in Files, Fail(f)
  PROVE  /\ tool' = None /\ last' \in Result /\ live' \in Seq(Result) /\ last'.kind = "error"
         /\ \A g : LastIn(live', g) = LastIn(live, g)
<1>1. 0 \in 0..MaxWrites /\ "all" \in Ranges
  BY FileToolsAssumption
<1>2. /\ tool' = None /\ last' = [kind |-> "error", path |-> f, ver |-> 0, range |-> "all"]
      /\ last' \in Result /\ live' \in Seq(Result)
      /\ \A g : LastIn(live', g) = IF "error" \in {"content", "edited", "written"} /\ g = f THEN {0}
                                   ELSE LastIn(live, g)
  BY <1>1, GiveFacts DEF Fail
<1> QED BY <1>2

LEMMA PutFacts ==
  ASSUME Typed, NEW f \in Files, Put(f)
  PROVE  /\ disk' \in [Files -> [ver : 0..MaxWrites, mtime : 0..MaxClock] \cup {None}]
         /\ newest' \in 0..MaxWrites /\ clock' = clock
         /\ disk'[f] = [ver |-> newest', mtime |-> clock]
         /\ \A g \in Files \ {f} : disk'[g] = disk[g]
         /\ <<f, newest'>> \in Versions
BY FileToolsAssumption DEF Typed, Put, Versions

LEMMA BeginFacts ==
  ASSUME Typed, Begin
  PROVE  tool = None /\ calls' \in 0..MaxCalls
BY FileToolsAssumption DEF Begin, Typed

(* Without a new result the last one stays true.                           *)
LEMMA StubKept ==
  ASSUME StubInv, last' = last, seen \subseteq seen', raced \subseteq raced',
         \A f : LastIn(live', f) \subseteq LastIn(live, f)
  PROVE  StubInv'
BY DEF StubInv, Stubbed

LEMMA StubOther ==
  ASSUME last'.kind # "stub"
  PROVE  StubInv'
BY DEF StubInv, Stubbed

LEMMA OutsideRemoveStep ==
  ASSUME FileInv, NEW f \in Files, OutsideRemove(f)
  PROVE  FileInv'
<1> USE DEF FileInv
<1>1. /\ disk' = [disk EXCEPT ![f] = None]
      /\ UNCHANGED <<newest, clock, cache, bytes, tool, calls, live, last, seen, raced>>
  BY DEF OutsideRemove, Known
<1>2. Typed /\ Accounts(cache, bytes)
  BY TypeParts
<1>3. /\ disk' \in [Files -> [ver : 0..MaxWrites, mtime : 0..MaxClock] \cup {None}]
      /\ disk'[f] = None /\ \A g \in Files \ {f} : disk'[g] = disk[g]
  BY <1>1, <1>2 DEF Typed
<1>4. FileTypes'
  <2>1. Typed' /\ Accounts(cache', bytes')
    BY <1>1, <1>2, <1>3 DEF Typed
  <2> QED BY <2>1, TypeNext
<1>5. CacheInv'
  <2> SUFFICES ASSUME NEW i \in 1..Len(cache) PROVE Fits(cache[i])'
    BY <1>1 DEF CacheInv
  <2> DEFINE e == cache[i]
  <2>1. e \in FileState /\ Fits(e) /\ e.path \in Files
    BY CachedFits
  <2>2. (Settling(e.path))' <=> Settling(e.path)
    BY <1>1 DEF Settling
  <2> QED BY <1>1, <1>3, <2>1, <2>2 DEF Fits, Trusted
<1>6. CallInv'
  <2>1. tool # None => tool.path \in Files
    BY <1>2 DEF Typed, Call
  <2> QED BY <1>1, <1>3, <2>1 DEF CallInv, Trusted
<1>7. StubInv'
  BY <1>1, StubKept
<1> QED BY <1>4, <1>5, <1>6, <1>7

(* What entries need of a write by anybody.                                *)
LEMMA FitsAfterPut ==
  ASSUME Typed, NEW f \in Files, Put(f), NEW e \in FileState, Fits(e),
         seen \subseteq seen', raced \subseteq raced',
         \A g : LastIn(live', g) = LastIn(live, g),
         e.path = f /\ clock = e.mtime => <<f, newest'>> \in raced' \/ (Settling(f))',
         \A g : g # f /\ Settling(g) => (Settling(g))'
  PROVE  Fits(e)'
<1>1. e.path \in Files
  BY DEF FileState
<1>2. CASE e.path = f
  BY <1>2, PutFacts, StillFits
<1>3. CASE e.path # f
  <2>1. disk'[e.path] = disk[e.path]
    BY <1>1, <1>3, PutFacts
  <2> QED BY <1>3, <2>1, StillFits DEF Fits
<1> QED BY <1>2, <1>3

LEMMA OutsideWriteStep ==
  ASSUME FileInv, NEW f \in Files, OutsideWrite(f)
  PROVE  FileInv'
<1>1. /\ Put(f) /\ UNCHANGED <<cache, bytes, tool, calls, live, last, seen>>
      /\ raced' = IF Window(f) \/ clock \in Recorded(f) THEN raced \cup {<<f, newest'>>} ELSE raced
  BY DEF OutsideWrite
<1>2. Typed /\ Accounts(cache, bytes) /\ CallInv /\ StubInv
  BY TypeParts DEF FileInv
<1>3. /\ disk' \in [Files -> [ver : 0..MaxWrites, mtime : 0..MaxClock] \cup {None}]
      /\ newest' \in 0..MaxWrites /\ clock' = clock
      /\ disk'[f] = [ver |-> newest', mtime |-> clock]
      /\ \A g \in Files \ {f} : disk'[g] = disk[g]
      /\ <<f, newest'>> \in Versions
  BY <1>1, <1>2, PutFacts
<1>4. FileTypes'
  <2>1. Typed' /\ Accounts(cache', bytes')
    BY <1>1, <1>2, <1>3 DEF Typed
  <2> QED BY <2>1, TypeNext
<1>5. CacheInv'
  <2> SUFFICES ASSUME NEW i \in 1..Len(cache) PROVE Fits(cache[i])'
    BY <1>1 DEF CacheInv
  <2> DEFINE e == cache[i]
  <2>1. e \in FileState /\ Fits(e)
    BY CachedFits
  <2>2. e.path = f /\ clock = e.mtime => <<f, newest'>> \in raced'
    <3> SUFFICES ASSUME e.path = f, clock = e.mtime PROVE clock \in Recorded(f)
      BY <1>1
    <3>1. e \in Cached(f)
      BY DEF Cached, ToSet, Accounts
    <3> QED BY <3>1 DEF Recorded
  <2>3. \A g : Settling(g) => (Settling(g))'
    BY <1>1 DEF Settling
  <2> QED BY <1>1, <1>2, <2>1, <2>2, <2>3, FitsAfterPut
<1>6. CallInv'
  <2>1. tool # None => tool.path \in Files
    BY <1>2 DEF Typed, Call
  <2>2. tool # None /\ tool.path = f /\ (tool.op = "edit" \/ tool.step = "cache") => <<f, newest'>> \in raced'
    BY <1>1 DEF Window
  <2>3. CASE tool # None /\ tool.path = f
    BY <1>1, <1>2, <1>3, <2>2, <2>3 DEF CallInv, Trusted
  <2>4. CASE tool # None /\ tool.path # f
    BY <1>1, <1>2, <1>3, <2>1, <2>4 DEF CallInv, Trusted
  <2>5. CASE tool = None
    BY <1>1, <2>5 DEF CallInv
  <2> QED BY <2>3, <2>4, <2>5
<1>7. StubInv'
  BY <1>1, <1>2, StubKept
<1> QED BY <1>4, <1>5, <1>6, <1>7 DEF FileInv

LEMMA TickStep ==
  ASSUME FileInv, Tick
  PROVE  FileInv'
<1>1. /\ clock' \in 0..MaxClock
      /\ UNCHANGED <<disk, newest, cache, bytes, tool, calls, live, last, seen, raced>>
  BY FileToolsAssumption DEF Tick, Known, FileInv, FileTypes, Typed
<1>2. FileTypes'
  BY <1>1 DEF FileInv, FileTypes, Typed
<1>3. CacheInv' /\ CallInv' /\ StubInv'
  BY <1>1 DEF FileInv, CacheInv, Fits, Settling, Trusted, CallInv, StubInv, Stubbed
<1> QED BY <1>2, <1>3 DEF FileInv

LEMMA ClearStep ==
  ASSUME FileInv, NEW m \in 0..Len(live), tool = None, Clear(m)
  PROVE  FileInv'
<1>1. /\ tool = None /\ live' = SubSeq(live, m + 1, Len(live)) /\ live \in Seq(Result)
      /\ UNCHANGED <<disk, newest, clock, cache, bytes, tool, calls, last, seen, raced>>
  BY DEF Clear, World, Known, FileInv, FileTypes, Typed
<1>2. \A g : LastIn(live', g) \subseteq LastIn(live, g)
  BY <1>1, ShownAfterClearing
<1>3. live' \in Seq(Result)
  BY <1>1
<1>4. FileTypes'
  BY <1>1, <1>3 DEF FileInv, FileTypes, Typed
<1>5. CacheInv'
  <2> SUFFICES ASSUME NEW i \in 1..Len(cache) PROVE Fits(cache[i])'
    BY <1>1 DEF CacheInv
  <2>1. Fits(cache[i]) /\ (Settling(cache[i].path))' = Settling(cache[i].path)
    BY <1>1, CachedFits DEF Settling
  <2> QED BY <1>1, <1>2, <2>1 DEF Fits, Trusted
<1>6. CallInv'
  BY <1>1 DEF CallInv
<1>7. StubInv'
  BY <1>1, <1>2, StubKept DEF FileInv
<1> QED BY <1>4, <1>5, <1>6, <1>7 DEF FileInv

(* Both compactions clear results.                                         *)
LEMMA Clears ==
  ASSUME FileInv, Microcompact \/ Autocompact
  PROVE  tool = None /\ \E m \in 0..Len(live) : Clear(m)
<1>1. Len(live) \in Nat /\ KeepRecent \in Nat
  BY FileToolsAssumption DEF FileInv, FileTypes, Typed
<1>2. CASE Microcompact
  <2>1. Len(live) - KeepRecent \in 0..Len(live) /\ Clear(Len(live) - KeepRecent)
    BY <1>1, <1>2 DEF Microcompact
  <2> QED BY <1>2, <2>1 DEF Microcompact
<1>3. CASE Autocompact
  BY <1>1, <1>3 DEF Autocompact
<1> QED BY <1>2, <1>3

(* A step of a call that leaves the world and the cache alone.             *)
LEMMA QuietStep ==
  ASSUME FileInv, UNCHANGED <<disk, newest, clock, calls, cache, bytes, seen, raced>>,
         tool' \in Call \cup {None}, live' \in Seq(Result), last' \in Result \cup {None},
         \A g : LastIn(live', g) = LastIn(live, g), \A g : ~Settling(g), CallInv', StubInv'
  PROVE  FileInv'
<1>1. FileTypes'
  BY DEF FileInv, FileTypes, Typed
<1>2. CacheInv'
  <2> SUFFICES ASSUME NEW i \in 1..Len(cache) PROVE Fits(cache[i])'
    BY DEF CacheInv
  <2>1. Fits(cache[i])
    BY CachedFits
  <2> QED BY <2>1 DEF Fits, Trusted
<1> QED BY <1>1, <1>2 DEF FileInv

LEMMA ReadBinaryStep ==
  ASSUME FileInv, ReadBinary
  PROVE  FileInv'
<1>1. /\ tool # None /\ tool.step = "read" /\ Give("other", tool.path, 0, tool.range)
      /\ UNCHANGED <<disk, newest, clock, calls, cache, bytes, seen, raced>>
  BY DEF ReadBinary, World, Known
<1>2. /\ tool.path \in Files /\ tool.range \in Ranges /\ 0 \in 0..MaxWrites /\ live \in Seq(Result)
  BY <1>1, FileToolsAssumption DEF FileInv, FileTypes, Typed, Call
<1>3. /\ tool' = None /\ last'.kind = "other" /\ last' \in Result /\ live' \in Seq(Result)
      /\ \A g : LastIn(live', g) = LastIn(live, g)
  <2>1. /\ tool' = None
        /\ last' = [kind |-> "other", path |-> tool.path, ver |-> 0, range |-> tool.range]
        /\ last' \in Result /\ live' \in Seq(Result)
        /\ \A g : LastIn(live', g) = IF "other" \in {"content", "edited", "written"} /\ g = tool.path
                                     THEN {0} ELSE LastIn(live, g)
    BY <1>1, <1>2, GiveFacts
  <2> QED BY <2>1
<1>4. \A g : ~Settling(g)
  BY <1>1 DEF Settling
<1>5. CallInv' /\ StubInv'
  BY <1>3, StubOther DEF CallInv
<1> QED BY <1>1, <1>3, <1>4, <1>5, QuietStep

LEMMA EditReadStep ==
  ASSUME FileInv, EditRead
  PROVE  FileInv'
<1>1. /\ tool # None /\ tool.op = "edit" /\ tool.step = "read"
      /\ UNCHANGED <<disk, newest, clock, calls, cache, bytes, seen, raced>>
  BY DEF EditRead, World, Known
<1>2. /\ tool \in Call /\ tool.path \in Files /\ live \in Seq(Result) /\ \A g : ~Settling(g)
      /\ disk \in [Files -> [ver : 0..MaxWrites, mtime : 0..MaxClock] \cup {None}]
  BY <1>1 DEF FileInv, FileTypes, Typed, Call, Settling
<1>3. CASE Fail(tool.path)
  <2>1. /\ tool' = None /\ last'.kind = "error" /\ last' \in Result /\ live' \in Seq(Result)
        /\ \A g : LastIn(live', g) = LastIn(live, g)
    BY <1>2, <1>3, FailFacts
  <2>2. CallInv' /\ StubInv'
    BY <2>1, StubOther DEF CallInv
  <2> QED BY <1>1, <1>2, <2>1, <2>2, QuietStep
<1>4. CASE disk[tool.path] # None /\ Continue([tool EXCEPT !.step = "write", !.ver = disk[tool.path].ver])
  <2>1. /\ tool' = [tool EXCEPT !.step = "write", !.ver = disk[tool.path].ver]
        /\ UNCHANGED <<live, last>> /\ disk[tool.path].ver \in 0..MaxWrites
    BY <1>2, <1>4 DEF Continue
  <2>2. tool' \in Call /\ tool'.op = "edit" /\ tool'.step = "write" /\ tool'.path = tool.path
    BY <1>1, <1>2, <2>1 DEF Call
  <2>3. CallInv'
    BY <1>1, <2>2 DEF FileInv, CallInv, Trusted
  <2>4. StubInv'
    BY <1>1, <2>1, StubKept DEF FileInv
  <2> QED BY <1>1, <1>2, <2>1, <2>2, <2>3, <2>4, QuietStep DEF FileInv, FileTypes, Typed
<1> QED BY <1>3, <1>4 DEF EditRead

(* A call that begins looks its file up, which changes the order of the    *)
(* entries at most.                                                        *)
LEMMA LookUp ==
  ASSUME FileInv, NEW f, Touch(f) \/ UNCHANGED <<cache, bytes>>, tool = None,
         UNCHANGED <<disk, newest, clock, seen, raced>>,
         calls' \in 0..MaxCalls, tool' \in Call \cup {None}, live' \in Seq(Result),
         last' \in Result \cup {None}, tool' # None => tool'.step = "read",
         \A g : LastIn(live', g) = LastIn(live, g)
  PROVE  FileTypes' /\ CacheInv'
<1>1. /\ Accounts(cache', bytes')
      /\ \A i \in 1..Len(cache') : \E j \in 1..Len(cache) : cache'[i] = cache[j]
  <2>1. Accounts(cache, bytes)
    BY TypeParts DEF FileInv
  <2>2. CASE Touch(f)
    BY <2>1, <2>2, TouchStep
  <2>3. CASE UNCHANGED <<cache, bytes>>
    BY <2>1, <2>3
  <2> QED BY <2>2, <2>3
<1>2. FileTypes'
  <2>1. Typed
    BY TypeParts DEF FileInv
  <2>2. Typed'
    BY <2>1 DEF Typed
  <2> QED BY <1>1, <2>2, TypeNext
<1>3. CacheInv'
  <2>1. \A g : ~Settling(g) /\ ~(Settling(g))'
    BY DEF Settling
  <2>2. ASSUME NEW e, Fits(e) PROVE Fits(e)'
    BY <2>1, <2>2 DEF Fits, Trusted
  <2> SUFFICES ASSUME NEW i \in 1..Len(cache') PROVE (Fits(cache[i]))'
    BY DEF CacheInv
  <2>3. PICK j \in 1..Len(cache) : cache'[i] = cache[j]
    BY <1>1
  <2>4. Fits(cache[j])
    BY CachedFits
  <2> QED BY <2>1, <2>3, <2>4 DEF Fits, Trusted
<1> QED BY <1>2, <1>3

LEMMA ReadStartStep ==
  ASSUME FileInv, NEW f \in Files, NEW r \in Ranges, ReadStart(f, r)
  PROVE  FileInv'
<1> DEFINE known == {e \in Cached(f) : e.range = r /\ e.mtime = Mtime(f)}
           t == [op |-> "read", path |-> f, range |-> r, mtime |-> Mtime(f), step |-> "read", ver |-> 0]
<1>1. /\ Typed /\ Accounts(cache, bytes) /\ tool = None /\ calls' \in 0..MaxCalls
      /\ Touch(f) \/ UNCHANGED <<cache, bytes>>
      /\ UNCHANGED <<disk, newest, clock, seen, raced>>
      /\ IF known # {} THEN Give("stub", f, disk[f].ver, r) ELSE Continue(t)
      /\ StubInv /\ live \in Seq(Result)
  BY TypeParts, BeginFacts DEF ReadStart, World, Known, FileInv, Typed
<1>2. CASE known # {}
  <2>1. PICK i \in 1..Len(cache) : cache[i].path = f /\ cache[i].mtime = Mtime(f)
    BY <1>2 DEF Cached, ToSet, known
  <2>2. cache[i] \in FileState /\ Fits(cache[i])
    BY CachedFits
  <2>3. disk[f] # None /\ disk[f].mtime = cache[i].mtime /\ disk[f].ver \in 0..MaxWrites
    <3>1. cache[i].mtime \in Nat
      BY <2>2, FileToolsAssumption DEF FileState
    <3>2. disk[f] # None /\ disk[f].mtime = cache[i].mtime
      BY <2>1, <3>1, NoneAssumption DEF Mtime
    <3> QED BY <1>1, <3>2 DEF Typed
  <2>4. ~Settling(f)
    BY <1>1 DEF Settling
  <2>5. /\ <<f, disk[f].ver>> \in Trusted
        /\ <<f, disk[f].ver>> \notin raced => LastIn(live, f) \subseteq {disk[f].ver}
    BY <2>1, <2>2, <2>3, <2>4 DEF Fits, Trusted
  <2>6. /\ tool' = None /\ last' = [kind |-> "stub", path |-> f, ver |-> disk[f].ver, range |-> r]
        /\ last' \in Result /\ live' \in Seq(Result)
        /\ \A g : LastIn(live', g) = IF "stub" \in {"content", "edited", "written"} /\ g = f
                                     THEN {disk[f].ver} ELSE LastIn(live, g)
    <3>1. Give("stub", f, disk[f].ver, r)
      BY <1>1, <1>2
    <3> QED BY <1>1, <2>3, <3>1, GiveFacts
  <2>7. last'.path = f /\ last'.ver = disk[f].ver /\ \A g : LastIn(live', g) = LastIn(live, g)
    BY <2>6
  <2>8. StubInv'
    BY <1>1, <2>5, <2>7 DEF StubInv, Stubbed, Trusted
  <2>9. CallInv'
    BY <2>6 DEF CallInv
  <2>10. FileTypes' /\ CacheInv'
    BY <1>1, <2>6, <2>7, LookUp
  <2> QED BY <2>8, <2>9, <2>10 DEF FileInv
<1>3. CASE known = {}
  <2>1. tool' = t /\ UNCHANGED <<live, last>>
    BY <1>1, <1>3 DEF Continue
  <2>2. t \in Call
    <3>1. Mtime(f) \in Times
      BY <1>1 DEF Mtime, Typed, Times
    <3>2. 0 \in 0..MaxWrites
      BY FileToolsAssumption
    <3> QED BY <3>1, <3>2 DEF Call
  <2>3. t.op = "read" /\ t.step = "read"
    OBVIOUS
  <2> HIDE DEF t, known
  <2>4. CallInv'
    BY <2>1, <2>3 DEF CallInv
  <2>5. StubInv'
    BY <1>1, <2>1, StubKept
  <2>6. FileTypes' /\ CacheInv'
    <3>1. live' \in Seq(Result) /\ last' \in Result \cup {None} /\ \A g : LastIn(live', g) = LastIn(live, g)
      BY <1>1, <2>1 DEF Typed
    <3> QED BY <1>1, <2>1, <2>2, <2>3, <3>1, LookUp
  <2> QED BY <2>4, <2>5, <2>6 DEF FileInv
<1> QED BY <1>2, <1>3

LEMMA EditStartStep ==
  ASSUME FileInv, NEW f \in Files, EditStart(f)
  PROVE  FileInv'
<1> DEFINE fresh == \E e \in Cached(f) : disk[f] = None \/ e.mtime = Mtime(f)
           t == [op |-> "edit", path |-> f, range |-> "all", mtime |-> None, step |-> "read", ver |-> 0]
<1>1. /\ Typed /\ tool = None /\ calls' \in 0..MaxCalls /\ Touch(f)
      /\ UNCHANGED <<disk, newest, clock, seen, raced>>
      /\ IF fresh THEN Continue(t) ELSE Fail(f)
      /\ StubInv /\ live \in Seq(Result)
  BY TypeParts, BeginFacts DEF EditStart, World, Known, FileInv, Typed
<1>2. CASE fresh
  <2>1. PICK i \in 1..Len(cache) : cache[i].path = f /\ (disk[f] = None \/ cache[i].mtime = Mtime(f))
    BY <1>2 DEF Cached, ToSet, fresh
  <2>2. ~Settling(f) /\ Fits(cache[i])
    BY <1>1, CachedFits DEF Settling
  <2>3. disk[f] # None => <<f, disk[f].ver>> \in Trusted
    BY <2>1, <2>2 DEF Fits, Trusted, Mtime
  <2>4. tool' = t /\ UNCHANGED <<live, last>>
    BY <1>1, <1>2 DEF Continue
  <2>5. t \in Call /\ t.op = "edit" /\ t.step = "read" /\ t.path = f
    BY FileToolsAssumption DEF Call, Times
  <2> HIDE DEF t, fresh
  <2>6. CallInv'
    BY <1>1, <2>3, <2>4, <2>5 DEF CallInv, Trusted
  <2>7. StubInv'
    BY <1>1, <2>4, StubKept
  <2>8. FileTypes' /\ CacheInv'
    <3>1. live' \in Seq(Result) /\ last' \in Result \cup {None} /\ \A g : LastIn(live', g) = LastIn(live, g)
      BY <1>1, <2>4 DEF Typed
    <3> QED BY <1>1, <2>4, <2>5, <3>1, LookUp
  <2> QED BY <2>6, <2>7, <2>8 DEF FileInv
<1>3. CASE ~fresh
  <2>1. /\ tool' = None /\ last' \in Result /\ live' \in Seq(Result) /\ last'.kind = "error"
        /\ \A g : LastIn(live', g) = LastIn(live, g)
    BY <1>1, <1>3, FailFacts
  <2>2. CallInv' /\ StubInv'
    BY <2>1, StubOther DEF CallInv
  <2>3. FileTypes' /\ CacheInv'
    BY <1>1, <2>1, LookUp
  <2> QED BY <2>2, <2>3 DEF FileInv
<1> QED BY <1>2, <1>3

(* A write that failed: the call ends, and the file may be cut short.      *)
LEMMA FailedWrite ==
  ASSUME FileInv, NEW f \in Files, Fail(f), Failed(f), UNCHANGED <<cache, bytes>>,
         calls' \in 0..MaxCalls, \A g : ~Settling(g)
  PROVE  FileInv'
<1>1. Typed /\ Accounts(cache, bytes) /\ live \in Seq(Result)
  BY TypeParts DEF FileInv, Typed
<1>2. /\ tool' = None /\ last' \in Result /\ live' \in Seq(Result) /\ last'.kind = "error"
      /\ \A g : LastIn(live', g) = LastIn(live, g)
  BY <1>1, FailFacts
<1>3. CallInv' /\ StubInv'
  BY <1>2, StubOther DEF CallInv
<1>4. CASE UNCHANGED <<World, raced>>
  <2>1. UNCHANGED <<disk, newest, clock, seen, raced>>
    BY <1>4 DEF World, Failed
  <2>2. Typed'
    BY <1>1, <1>2, <2>1 DEF Typed
  <2>3. CacheInv'
    <3> SUFFICES ASSUME NEW i \in 1..Len(cache) PROVE Fits(cache[i])'
      BY DEF CacheInv
    <3>1. Fits(cache[i])
      BY CachedFits
    <3> QED BY <1>2, <2>1, <3>1 DEF Fits, Trusted
  <2> QED BY <1>1, <1>3, <2>2, <2>3, TypeNext DEF FileInv
<1>5. CASE /\ Put(f)
           /\ raced' = IF clock \in {e.mtime : e \in Cached(f)} THEN raced \cup {<<f, newest'>>} ELSE raced
  <2>1. /\ disk' \in [Files -> [ver : 0..MaxWrites, mtime : 0..MaxClock] \cup {None}]
        /\ newest' \in 0..MaxWrites /\ clock' = clock /\ <<f, newest'>> \in Versions
    BY <1>1, <1>5, PutFacts
  <2>2. seen' = seen /\ raced \subseteq raced'
    BY <1>5 DEF Failed
  <2>3. Typed'
    BY <1>1, <1>2, <1>5, <2>1, <2>2 DEF Typed
  <2>4. CacheInv'
    <3> SUFFICES ASSUME NEW i \in 1..Len(cache) PROVE Fits(cache[i])'
      BY DEF CacheInv
    <3> DEFINE e == cache[i]
    <3>1. Fits(e) /\ e \in FileState
      BY CachedFits
    <3>2. e.path = f /\ clock = e.mtime => <<f, newest'>> \in raced'
      <4> SUFFICES ASSUME e.path = f, clock = e.mtime PROVE clock \in {x.mtime : x \in Cached(f)}
        BY <1>5
      <4>1. e \in Cached(f)
        BY <1>1 DEF Cached, ToSet, Accounts
      <4> QED BY <4>1
    <3> QED BY <1>1, <1>2, <1>5, <2>2, <3>1, <3>2, FitsAfterPut
  <2> QED BY <1>1, <1>3, <2>3, <2>4, TypeNext DEF FileInv
<1> QED BY <1>4, <1>5 DEF Failed

(* A write that succeeded: the cache is to follow, and its version is one  *)
(* the model knows or a raced one.                                         *)
LEMMA DoneWrite ==
  ASSUME FileInv, NEW f \in Files, Put(f), UNCHANGED <<cache, bytes, live, last>>,
         calls' \in 0..MaxCalls, \A g : ~Settling(g),
         tool' \in Call, tool'.path = f, tool'.step = "cache", tool'.op # "read", tool'.ver = newest',
         seen \subseteq seen', raced \subseteq raced', seen' \subseteq Versions, raced' \subseteq Versions,
         <<f, newest'>> \in Trusted'
  PROVE  FileInv'
<1>1. Typed /\ Accounts(cache, bytes) /\ StubInv
  BY TypeParts DEF FileInv
<1>2. /\ disk' \in [Files -> [ver : 0..MaxWrites, mtime : 0..MaxClock] \cup {None}]
      /\ newest' \in 0..MaxWrites /\ clock' = clock /\ disk'[f] = [ver |-> newest', mtime |-> clock]
  BY <1>1, PutFacts
<1>3. Typed'
  BY <1>1, <1>2 DEF Typed
<1>4. CacheInv'
  <2> SUFFICES ASSUME NEW i \in 1..Len(cache) PROVE Fits(cache[i])'
    BY DEF CacheInv
  <2>1. Fits(cache[i]) /\ cache[i] \in FileState
    BY CachedFits
  <2>2. (Settling(f))'
    BY NoneAssumption DEF Settling
  <2> QED BY <1>1, <2>1, <2>2, FitsAfterPut
<1>5. CallInv'
  BY <1>2 DEF CallInv
<1>6. StubInv'
  BY <1>1, StubKept
<1> QED BY <1>1, <1>3, <1>4, <1>5, <1>6, TypeNext DEF FileInv

LEMMA EditWriteStep ==
  ASSUME FileInv, EditWrite
  PROVE  FileInv'
<1> DEFINE f == tool.path
<1>1. /\ tool # None /\ tool.op = "edit" /\ tool.step = "write"
      /\ UNCHANGED <<calls, cache, bytes>>
  BY DEF EditWrite
<1>2. Typed /\ tool \in Call /\ f \in Files /\ calls' \in 0..MaxCalls /\ \A g : ~Settling(g)
  BY <1>1, TypeParts DEF FileInv, Typed, Call, Settling
<1>3. CASE Fail(f) /\ Failed(f)
  BY <1>1, <1>2, <1>3, FailedWrite
<1>4. CASE /\ Put(f) /\ Continue([tool EXCEPT !.step = "cache", !.ver = newest'])
           /\ IF <<f, tool.ver>> \in seen
                THEN seen' = seen \cup {<<f, newest'>>} /\ UNCHANGED raced
                ELSE raced' = raced \cup {<<f, newest'>>} /\ UNCHANGED seen
  <2>1. newest' \in 0..MaxWrites /\ <<f, newest'>> \in Versions
    BY <1>2, <1>4, PutFacts
  <2>2. tool' = [tool EXCEPT !.step = "cache", !.ver = newest'] /\ UNCHANGED <<live, last>>
    BY <1>4 DEF Continue
  <2>3. /\ tool' \in Call /\ tool'.path = f /\ tool'.step = "cache" /\ tool'.op = "edit"
        /\ tool'.ver = newest'
    BY <1>1, <1>2, <2>1, <2>2 DEF Call
  <2>4. /\ seen \subseteq seen' /\ raced \subseteq raced' /\ seen' \subseteq Versions
        /\ raced' \subseteq Versions /\ <<f, newest'>> \in Trusted'
    BY <1>2, <1>4, <2>1 DEF Typed, Trusted
  <2> HIDE DEF f
  <2> QED BY <1>1, <1>2, <1>4, <2>2, <2>3, <2>4, DoneWrite
<1> QED BY <1>3, <1>4 DEF EditWrite

LEMMA WriteStartStep ==
  ASSUME FileInv, NEW f \in Files, WriteStart(f)
  PROVE  FileInv'
<1> DEFINE t == [op |-> "write", path |-> f, range |-> "all", mtime |-> None, step |-> "cache",
                 ver |-> newest']
<1>1. Typed /\ tool = None /\ calls' \in 0..MaxCalls /\ UNCHANGED <<cache, bytes>>
  BY TypeParts, BeginFacts DEF FileInv, WriteStart
<1>2. \A g : ~Settling(g)
  BY <1>1 DEF Settling
<1>3. CASE Fail(f) /\ Failed(f)
  BY <1>1, <1>2, <1>3, FailedWrite
<1>4. CASE Put(f) /\ Continue(t) /\ seen' = seen \cup {<<f, newest'>>} /\ UNCHANGED raced
  <2>1. newest' \in 0..MaxWrites /\ <<f, newest'>> \in Versions
    BY <1>1, <1>4, PutFacts
  <2>2. tool' = t /\ UNCHANGED <<live, last>>
    BY <1>4 DEF Continue
  <2>3. /\ tool' \in Call /\ tool'.path = f /\ tool'.step = "cache" /\ tool'.op = "write"
        /\ tool'.ver = newest'
    BY <2>1, <2>2, FileToolsAssumption DEF Call, Times
  <2>4. /\ seen \subseteq seen' /\ raced \subseteq raced' /\ seen' \subseteq Versions
        /\ raced' \subseteq Versions /\ <<f, newest'>> \in Trusted'
    BY <1>1, <1>4, <2>1 DEF Typed, Trusted
  <2> HIDE DEF t
  <2> QED BY <1>1, <1>2, <1>4, <2>2, <2>3, <2>4, DoneWrite
<1> QED BY <1>3, <1>4 DEF WriteStart

(* A new entry, shown by the result of the same step.                      *)
LEMMA Remembered ==
  ASSUME FileInv, NEW e \in FileState, Insert(e), UNCHANGED <<disk, newest, clock, calls>>,
         seen \subseteq seen', raced \subseteq raced', seen' \subseteq Versions, raced' \subseteq Versions,
         tool' = None, live' \in Seq(Result), last' \in Result, last'.kind # "stub",
         \A g : Settling(g) => g = e.path,
         \A g : g # e.path => LastIn(live', g) = LastIn(live, g),
         Fits(e)'
  PROVE  FileInv'
<1>1. Typed /\ Accounts(cache, bytes)
  BY TypeParts DEF FileInv
<1>2. /\ Accounts(cache', bytes')
      /\ \A i \in 1..Len(cache') :
           cache'[i] = e \/ \E j \in 1..Len(cache) : cache'[i] = cache[j] /\ cache[j].path # e.path
  BY <1>1, InsertStep
<1>3. Typed'
  BY <1>1 DEF Typed
<1>4. CacheInv'
  <2>1. ASSUME NEW x, Fits(x), x.path # e.path PROVE Fits(x)'
    BY <2>1 DEF Fits, Trusted
  <2> SUFFICES ASSUME NEW i \in 1..Len(cache') PROVE (Fits(cache[i]))'
    BY DEF CacheInv
  <2>2. CASE cache'[i] = e
    BY <2>2 DEF Fits, Trusted, Settling
  <2>3. CASE \E j \in 1..Len(cache) : cache'[i] = cache[j] /\ cache[j].path # e.path
    <3>1. PICK j \in 1..Len(cache) : cache'[i] = cache[j] /\ cache[j].path # e.path
      BY <2>3
    <3>2. Fits(cache[j])
      BY CachedFits
    <3> QED BY <3>1, <3>2 DEF Fits, Trusted, Settling
  <2> QED BY <1>2, <2>2, <2>3
<1>5. CallInv' /\ StubInv'
  BY StubOther DEF CallInv
<1> QED BY <1>2, <1>3, <1>4, <1>5, TypeNext DEF FileInv

(* A result that shows a version, without a new entry: the file is not     *)
(* there any more, or had no time stamp when the read began.               *)
LEMMA NotRemembered ==
  ASSUME FileInv, NEW f \in Files, NEW v, UNCHANGED <<disk, newest, clock, calls, cache, bytes>>,
         seen \subseteq seen', raced \subseteq raced', seen' \subseteq Versions, raced' \subseteq Versions,
         tool' = None, live' \in Seq(Result), last' \in Result, last'.kind # "stub",
         \A g : Settling(g) => g = f /\ disk[f] = None,
         \A g : LastIn(live', g) = IF g = f THEN {v} ELSE LastIn(live, g),
         disk[f] # None => v = disk[f].ver
  PROVE  FileInv'
<1>1. Typed /\ Accounts(cache, bytes)
  BY TypeParts DEF FileInv
<1>2. Typed'
  BY <1>1 DEF Typed
<1>3. CacheInv'
  <2> SUFFICES ASSUME NEW i \in 1..Len(cache) PROVE Fits(cache[i])'
    BY DEF CacheInv
  <2> DEFINE e == cache[i]
  <2>1. Fits(e)
    BY CachedFits
  <2> HIDE DEF e
  <2>2. CASE e.path = f
    BY <2>1, <2>2 DEF Fits, Trusted, e
  <2>3. CASE e.path # f
    BY <2>1, <2>3 DEF Fits, Trusted, e
  <2> QED BY <2>2, <2>3
<1>4. CallInv' /\ StubInv'
  BY StubOther DEF CallInv
<1> QED BY <1>1, <1>2, <1>3, <1>4, TypeNext DEF FileInv

LEMMA UpdateCacheStep ==
  ASSUME FileInv, UpdateCache
  PROVE  FileInv'
<1> DEFINE f == tool.path
           kind == IF tool.op = "edit" THEN "edited" ELSE "written"
<1>1. /\ tool # None /\ tool.step = "cache" /\ Give(kind, f, tool.ver, "all")
      /\ UNCHANGED <<disk, newest, clock, calls, seen, raced>>
  BY DEF UpdateCache, World, Known
<1>2. /\ Typed /\ tool \in Call /\ f \in Files /\ tool.ver \in 0..MaxWrites /\ "all" \in Ranges
      /\ live \in Seq(Result) /\ \A g : Settling(g) => g = f
  BY <1>1, TypeParts, FileToolsAssumption DEF FileInv, Typed, Call, Settling
<1>3. /\ tool' = None /\ last' \in Result /\ live' \in Seq(Result) /\ last'.kind # "stub"
      /\ \A g : LastIn(live', g) = IF g = f THEN {tool.ver} ELSE LastIn(live, g)
  <2>1. kind \in {"edited", "written"}
    OBVIOUS
  <2> HIDE DEF kind, f
  <2>2. /\ tool' = None /\ last' = [kind |-> kind, path |-> f, ver |-> tool.ver, range |-> "all"]
        /\ last' \in Result /\ live' \in Seq(Result)
        /\ \A g : LastIn(live', g) = IF kind \in {"content", "edited", "written"} /\ g = f THEN {tool.ver}
                                     ELSE LastIn(live, g)
    <3>1. f \in Files /\ tool.ver \in 0..MaxWrites /\ live \in Seq(Result) /\ Give(kind, f, tool.ver, "all")
      BY <1>1, <1>2
    <3>2. kind \in {"content", "stub", "edited", "written", "error", "other"}
      BY <2>1
    <3> DEFINE ver == tool.ver
    <3> HIDE DEF ver
    <3>3. ver \in 0..MaxWrites /\ Give(kind, f, ver, "all")
      BY <3>1 DEF ver
    <3>4. /\ tool' = None /\ last' = [kind |-> kind, path |-> f, ver |-> ver, range |-> "all"]
          /\ last' \in Result /\ live' \in Seq(Result)
          /\ \A g : LastIn(live', g) = IF kind \in {"content", "edited", "written"} /\ g = f THEN {ver}
                                       ELSE LastIn(live, g)
      BY <1>2, <3>1, <3>2, <3>3, GiveFacts
    <3> QED BY <3>4 DEF ver
  <2> QED BY <2>1, <2>2
<1>4. /\ <<f, tool.ver>> \in Trusted
      /\ disk[f] # None => disk[f].ver = tool.ver \/ <<f, disk[f].ver>> \in raced
  BY <1>1 DEF FileInv, CallInv
<1>5. seen' \subseteq Versions /\ raced' \subseteq Versions
  BY <1>1, <1>2 DEF Typed
<1>6. CASE disk[f] = None
  <2>1. UNCHANGED <<cache, bytes>>
    BY <1>6 DEF UpdateCache
  <2> HIDE DEF f, kind
  <2> QED BY <1>1, <1>2, <1>3, <1>5, <1>6, <2>1, NotRemembered
<1>7. CASE disk[f] # None
  <2>1. Mtime(f) \in 0..MaxClock /\ Mtime(f) = disk[f].mtime
    BY <1>2, <1>7 DEF Mtime, Typed
  <2>2. PICK e \in FileState : Insert(e) /\ e.path = f /\ e.ver = tool.ver
    <3>1. PICK n \in Sizes :
            Insert([path |-> f, ver |-> tool.ver, range |-> "all", mtime |-> Mtime(f), size |-> n])
      BY <1>7 DEF UpdateCache
    <3> DEFINE x == [path |-> f, ver |-> tool.ver, range |-> "all", mtime |-> Mtime(f), size |-> n]
    <3> HIDE DEF f
    <3>2. x \in FileState /\ x.path = f /\ x.ver = tool.ver
      BY <1>2, <2>1 DEF FileState
    <3>3. Insert(x)
      BY <3>1
    <3> HIDE DEF x
    <3> QED BY <3>2, <3>3
  <2> HIDE DEF f, kind
  <2>3. Fits(e)'
    <3>1. disk' = disk /\ seen' = seen /\ raced' = raced
      BY <1>1
    <3>2. LastIn(live', e.path) = {e.ver}
      BY <1>3, <2>2
    <3> QED BY <1>4, <1>7, <2>2, <3>1, <3>2 DEF Fits, Trusted
  <2> QED BY <1>1, <1>2, <1>3, <1>5, <2>2, <2>3, Remembered
<1> QED BY <1>6, <1>7

LEMMA ReadFileStep ==
  ASSUME FileInv, ReadFile
  PROVE  FileInv'
<1> DEFINE f == tool.path
<1>1. /\ tool # None /\ tool.op = "read" /\ tool.step = "read"
      /\ UNCHANGED <<disk, newest, clock, calls, raced>>
  BY DEF ReadFile, World
<1>2. /\ Typed /\ tool \in Call /\ f \in Files /\ tool.range \in Ranges /\ tool.mtime \in Times
      /\ live \in Seq(Result) /\ \A g : ~Settling(g)
  BY <1>1, TypeParts DEF FileInv, Typed, Call, Settling
<1>3. CASE disk[f] = None /\ Fail(f) /\ UNCHANGED <<cache, bytes, seen>>
  <2>1. /\ tool' = None /\ last'.kind = "error" /\ last' \in Result /\ live' \in Seq(Result)
        /\ \A g : LastIn(live', g) = LastIn(live, g)
    BY <1>2, <1>3, FailFacts
  <2>2. CallInv' /\ StubInv'
    BY <2>1, StubOther DEF CallInv
  <2> HIDE DEF f
  <2> QED BY <1>1, <1>2, <1>3, <2>1, <2>2, QuietStep
<1>4. CASE /\ disk[f] # None /\ Give("content", f, disk[f].ver, tool.range)
           /\ seen' = seen \cup {<<f, disk[f].ver>>}
           /\ IF tool.mtime = None
                THEN UNCHANGED <<cache, bytes>>
                ELSE \E n \in Sizes :
                       Insert([path |-> f, ver |-> disk[f].ver, range |-> tool.range,
                               mtime |-> tool.mtime, size |-> n])
  <2>1. disk[f].ver \in 0..MaxWrites /\ seen' \subseteq Versions /\ raced' \subseteq Versions
    BY <1>1, <1>2, <1>4 DEF Typed, Versions
  <2>2. /\ tool' = None /\ last' \in Result /\ live' \in Seq(Result) /\ last'.kind # "stub"
        /\ \A g : LastIn(live', g) = IF g = f THEN {disk[f].ver} ELSE LastIn(live, g)
    <3>1. /\ tool' = None
          /\ last' = [kind |-> "content", path |-> f, ver |-> disk[f].ver, range |-> tool.range]
          /\ last' \in Result /\ live' \in Seq(Result)
          /\ \A g : LastIn(live', g) = IF "content" \in {"content", "edited", "written"} /\ g = f
                                       THEN {disk[f].ver} ELSE LastIn(live, g)
      <4> HIDE DEF f
      <4> QED BY <1>2, <1>4, <2>1, GiveFacts
    <3> QED BY <3>1
  <2>3. CASE tool.mtime = None
    <3>1. UNCHANGED <<cache, bytes>>
      BY <1>4, <2>3
    <3> HIDE DEF f
    <3> QED BY <1>1, <1>2, <1>4, <2>1, <2>2, <3>1, NotRemembered
  <2>4. CASE tool.mtime # None
    <3>1. PICK e \in FileState : Insert(e) /\ e.path = f /\ e.ver = disk[f].ver
      <4>1. PICK n \in Sizes :
              Insert([path |-> f, ver |-> disk[f].ver, range |-> tool.range,
                      mtime |-> tool.mtime, size |-> n])
        BY <1>4, <2>4
      <4> DEFINE x == [path |-> f, ver |-> disk[f].ver, range |-> tool.range,
                       mtime |-> tool.mtime, size |-> n]
      <4>2. tool.mtime \in 0..MaxClock
        BY <1>2, <2>4 DEF Times
      <4> HIDE DEF f
      <4>3. x \in FileState /\ x.path = f /\ x.ver = disk[f].ver
        BY <1>2, <2>1, <4>2 DEF FileState
      <4>4. Insert(x)
        BY <4>1
      <4> HIDE DEF x
      <4> QED BY <4>3, <4>4
    <3> HIDE DEF f
    <3>2. Fits(e)'
      <4>1. disk' = disk /\ <<e.path, e.ver>> \in seen'
        BY <1>1, <1>4, <3>1
      <4>2. LastIn(live', e.path) = {e.ver}
        BY <2>2, <3>1
      <4> QED BY <3>1, <4>1, <4>2 DEF Fits, Trusted
    <3> QED BY <1>1, <1>2, <1>4, <2>1, <2>2, <3>1, <3>2, Remembered
  <2> QED BY <2>3, <2>4
<1> QED BY <1>3, <1>4 DEF ReadFile

-----------------------------------------------------------------------------
(***************************************************************************)
(* The theorems.                                                           *)
(***************************************************************************)
LEMMA FileStep == FileInv /\ [Next]_vars => FileInv'
<1> SUFFICES ASSUME FileInv, [Next]_vars PROVE FileInv'
  OBVIOUS
<1>1. ASSUME UNCHANGED vars PROVE FileInv'
  <2>1. UNCHANGED <<disk, newest, clock, cache, bytes, tool, calls, live, last, seen, raced>>
    BY <1>1 DEF vars
  <2> QED BY <2>1 DEF FileInv, FileTypes, Typed, CacheInv, Fits, Settling, Trusted, CallInv, StubInv, Stubbed
<1>2. ASSUME NEW f \in Files, NEW r \in Ranges, ReadStart(f, r) PROVE FileInv'
  BY <1>2, ReadStartStep
<1>3. ASSUME NEW f \in Files, EditStart(f) \/ WriteStart(f) PROVE FileInv'
  BY <1>3, EditStartStep, WriteStartStep
<1>4. ASSUME NEW f \in Files, OutsideWrite(f) \/ OutsideRemove(f) PROVE FileInv'
  BY <1>4, OutsideWriteStep, OutsideRemoveStep
<1>5. ASSUME ReadFile \/ ReadBinary \/ EditRead \/ EditWrite \/ UpdateCache PROVE FileInv'
  BY <1>5, ReadFileStep, ReadBinaryStep, EditReadStep, EditWriteStep, UpdateCacheStep
<1>6. ASSUME Microcompact \/ Autocompact \/ Tick PROVE FileInv'
  BY <1>6, Clears, ClearStep, TickStep
<1> QED BY <1>1, <1>2, <1>3, <1>4, <1>5, <1>6 DEF Next

-----------------------------------------------------------------------------
(***************************************************************************)
(* What a stub refers to.  An entry of the cache stands for a result of    *)
(* Read that was given, or for what an Edit or a Write left; what was      *)
(* given stays so, in the conversation or cleared from it.                 *)
(***************************************************************************)
ReadsIn(l) == {l[i] : i \in {j \in 1..Len(l) : l[j].kind = "content"}}
Given == cleared \cup {<<<<x.path, x.ver>>, x.range>> : x \in ReadsIn(live)}
Referred(f, v, r) == <<<<f, v>>, r>> \in Given \/ (r = "all" /\ <<f, v>> \in written)

MarksTyped == written \subseteq Versions /\ cleared \subseteq Versions \X Ranges
EntriesReferred ==
  \A i \in 1..Len(cache) : Referred(cache[i].path, cache[i].ver, cache[i].range)
CallOwned == tool # None /\ tool.step = "cache" => <<tool.path, tool.ver>> \in written
StubReferred == Stubbed => Referred(last.path, last.ver, last.range)

ReferInv == MarksTyped /\ EntriesReferred /\ CallOwned /\ StubReferred

LEMMA TypesTogether == FileTypes /\ MarksTyped => TypeOK
BY DEF FileTypes, Typed, Accounts, MarksTyped, TypeOK

LEMMA InvImplies == FileInv /\ ReferInv => TypeOK /\ CacheAgreesWithModel
<1> SUFFICES ASSUME FileInv, ReferInv PROVE TypeOK /\ CacheAgreesWithModel
  OBVIOUS
<1>1. EditOverwritesSeen
  BY DEF FileInv, CallInv, EditOverwritesSeen, Trusted
<1>2. StubHidesNothing
  BY DEF FileInv, StubInv, StubHidesNothing
<1>3. LastShown(last.path) = LastIn(live, last.path)
  BY DEF LastShown, LastIn, ShownIn
<1>4. StubMatchesLastShown
  BY <1>3 DEF FileInv, StubInv, StubMatchesLastShown
<1>5. StubRefersToRead
  <2> SUFFICES ASSUME Stubbed, last.range # "all" \/ <<last.path, last.ver>> \notin written,
                      <<<<last.path, last.ver>>, last.range>> \notin cleared
               PROVE  \E x \in Reads : x.path = last.path /\ x.ver = last.ver /\ x.range = last.range
    BY DEF StubRefersToRead
  <2>1. <<<<last.path, last.ver>>, last.range>> \in Given
    BY DEF ReferInv, StubReferred, Referred
  <2>2. Reads = ReadsIn(live)
    BY DEF Reads, ReadsIn
  <2> QED BY <2>1, <2>2 DEF Given
<1>6. TypeOK
  BY TypesTogether DEF FileInv, ReferInv
<1> QED BY <1>1, <1>2, <1>4, <1>5, <1>6 DEF CacheAgreesWithModel

LEMMA InitRefers == Init => ReferInv
<1> SUFFICES ASSUME Init PROVE ReferInv
  OBVIOUS
<1>1. Len(cache) = 0 /\ written = {} /\ cleared = {} /\ tool = None /\ last = None
  BY DEF Init
<1> QED BY <1>1 DEF ReferInv, MarksTyped, EntriesReferred, CallOwned, StubReferred, Stubbed

LEMMA ReadsAfterAppend ==
  ASSUME live \in Seq(Result), NEW x \in Result
  PROVE  /\ ReadsIn(live) \subseteq ReadsIn(Append(live, x))
         /\ x.kind = "content" => x \in ReadsIn(Append(live, x))
<1> DEFINE l == Append(live, x)
<1>1. /\ Len(live) \in Nat /\ Len(l) = Len(live) + 1 /\ l[Len(live) + 1] = x
      /\ \A i \in 1..Len(live) : i \in 1..Len(l) /\ l[i] = live[i]
      /\ Len(live) + 1 \in 1..Len(l)
  OBVIOUS
<1> HIDE DEF l
<1>2. ReadsIn(live) \subseteq ReadsIn(l) /\ (x.kind = "content" => x \in ReadsIn(l))
  BY <1>1 DEF ReadsIn
<1> QED BY <1>2 DEF l

(* A result forgets no read.                                               *)
LEMMA GiveKeeps ==
  ASSUME live \in Seq(Result), NEW kind, NEW f \in Files, NEW ver \in 0..MaxWrites, NEW r \in Ranges,
         kind \in {"content", "stub", "edited", "written", "error", "other"},
         Give(kind, f, ver, r)
  PROVE  /\ Given \subseteq Given' /\ cleared' = cleared
         /\ kind = "content" => <<<<f, ver>>, r>> \in Given'
<1> DEFINE x == [kind |-> kind, path |-> f, ver |-> ver, range |-> r]
<1>1. x \in Result /\ x.kind = kind /\ x.path = f /\ x.ver = ver /\ x.range = r
  BY DEF Result
<1>2. live' = Append(live, x) /\ cleared' = cleared
  BY DEF Give
<1> HIDE DEF x
<1>3. ReadsIn(live) \subseteq ReadsIn(live') /\ (kind = "content" => x \in ReadsIn(live'))
  BY <1>1, <1>2, ReadsAfterAppend
<1> QED BY <1>1, <1>2, <1>3 DEF Given

LEMMA FailKeeps ==
  ASSUME live \in Seq(Result), NEW f \in Files, Fail(f)
  PROVE  Given \subseteq Given' /\ cleared' = cleared
<1>1. 0 \in 0..MaxWrites /\ "all" \in Ranges
  BY FileToolsAssumption
<1> QED BY <1>1, GiveKeeps DEF Fail

(* Nor does a compaction: what it clears is marked.                        *)
LEMMA ClearKeeps ==
  ASSUME live \in Seq(Result), NEW m \in 0..Len(live), Clear(m)
  PROVE  Given \subseteq Given'
<1> DEFINE l == SubSeq(live, m + 1, Len(live))
           n == Len(live)
<1>1. /\ n \in Nat /\ m \in Nat /\ Len(l) = n - m /\ \A i \in 1..n - m : l[i] = live[m + i]
      /\ live' = l
      /\ cleared' = cleared \cup
           {<<<<live[i].path, live[i].ver>>, live[i].range>> : i \in {j \in 1..m : live[j].kind = "content"}}
  BY DEF Clear
<1> HIDE DEF l
<1>2. ASSUME NEW i \in 1..n, live[i].kind = "content"
      PROVE  <<<<live[i].path, live[i].ver>>, live[i].range>> \in Given'
  <2>1. CASE i \in 1..m
    BY <1>1, <1>2, <2>1 DEF Given
  <2>2. CASE i \notin 1..m
    <3>1. i - m \in 1..n - m /\ m + (i - m) = i
      BY <1>1, <2>2
    <3>2. live[i] \in ReadsIn(l)
      BY <1>1, <1>2, <3>1 DEF ReadsIn
    <3> QED BY <1>1, <3>2 DEF Given
  <2> QED BY <2>1, <2>2
<1>3. ASSUME NEW x \in ReadsIn(live) PROVE <<<<x.path, x.ver>>, x.range>> \in Given'
  <2>1. PICK i \in 1..n : live[i].kind = "content" /\ x = live[i]
    BY <1>3 DEF ReadsIn
  <2> QED BY <1>2, <2>1
<1>4. cleared \subseteq Given'
  BY <1>1 DEF Given
<1> QED BY <1>3, <1>4 DEF Given

(* What is left to show of a step: what it adds.                           *)
LEMMA RefersKept ==
  ASSUME FileInv, ReferInv, Given \subseteq Given', written \subseteq written', raced \subseteq raced',
         MarksTyped', CallOwned',
         \A i \in 1..Len(cache') : \/ \E j \in 1..Len(cache) : cache'[i] = cache[j]
                                   \/ (Referred(cache[i].path, cache[i].ver, cache[i].range))',
         last' = last \/ last'.kind # "stub" \/ StubReferred'
  PROVE  ReferInv'
<1>1. ASSUME NEW f, NEW v, NEW r, Referred(f, v, r)
      PROVE  <<<<f, v>>, r>> \in Given' \/ (r = "all" /\ <<f, v>> \in written')
  BY <1>1 DEF Referred
<1>2. EntriesReferred'
  <2> SUFFICES ASSUME NEW i \in 1..Len(cache')
               PROVE  (Referred(cache[i].path, cache[i].ver, cache[i].range))'
    BY DEF EntriesReferred
  <2>1. CASE \E j \in 1..Len(cache) : cache'[i] = cache[j]
    <3>1. PICK j \in 1..Len(cache) : cache'[i] = cache[j]
      BY <2>1
    <3>2. Referred(cache[j].path, cache[j].ver, cache[j].range)
      BY DEF ReferInv, EntriesReferred
    <3> QED BY <1>1, <3>1, <3>2 DEF Referred
  <2> QED BY <2>1
<1>3. StubReferred'
  <2>1. CASE last' = last
    <3> SUFFICES ASSUME Stubbed' PROVE (Referred(last.path, last.ver, last.range))'
      BY DEF StubReferred
    <3>1. Stubbed
      BY <2>1 DEF Stubbed
    <3>2. Referred(last.path, last.ver, last.range)
      BY <3>1 DEF ReferInv, StubReferred
    <3> QED BY <1>1, <2>1, <3>2 DEF Referred
  <2>2. CASE last'.kind # "stub"
    BY <2>2 DEF StubReferred, Stubbed
  <2> QED BY <2>1, <2>2
<1> QED BY <1>2, <1>3 DEF ReferInv

(* Steps that insert no entry.                                             *)
LEMMA LookUpRefers ==
  ASSUME FileInv, ReferInv, UNCHANGED <<written, raced>>, Given \subseteq Given', MarksTyped',
         NEW f, Touch(f) \/ UNCHANGED cache,
         tool' # None => tool'.step # "cache",
         last' = last \/ last'.kind # "stub" \/ StubReferred'
  PROVE  ReferInv'
<1>1. \A i \in 1..Len(cache') : \E j \in 1..Len(cache) : cache'[i] = cache[j]
  <2>1. CASE Touch(f)
    BY <2>1, TouchStep DEF FileInv, FileTypes
  <2> QED BY <2>1
<1>2. CallOwned'
  BY DEF CallOwned
<1> QED BY <1>1, <1>2, RefersKept

LEMMA ReadStartRefers ==
  ASSUME FileInv, ReferInv, NEW f \in Files, NEW r \in Ranges, ReadStart(f, r)
  PROVE  ReferInv'
<1> DEFINE known == {e \in Cached(f) : e.range = r /\ e.mtime = Mtime(f)}
           t == [op |-> "read", path |-> f, range |-> r, mtime |-> Mtime(f), step |-> "read", ver |-> 0]
<1>1. /\ Typed /\ tool = None /\ live \in Seq(Result)
      /\ Touch(f) \/ UNCHANGED cache
      /\ UNCHANGED <<disk, raced, written>>
      /\ IF known # {} THEN Give("stub", f, disk[f].ver, r) ELSE Continue(t)
  BY DEF ReadStart, Begin, World, Known, FileInv, FileTypes, Typed
<1>2. CASE known # {}
  <2>1. PICK i \in 1..Len(cache) : cache[i].path = f /\ cache[i].range = r /\ cache[i].mtime = Mtime(f)
    BY <1>2 DEF Cached, ToSet, known
  <2>2. cache[i] \in FileState /\ Fits(cache[i]) /\ Referred(f, cache[i].ver, r)
    BY <2>1, CachedFits DEF ReferInv, EntriesReferred
  <2>3. disk[f] # None /\ disk[f].mtime = cache[i].mtime /\ disk[f].ver \in 0..MaxWrites
    <3>1. cache[i].mtime \in Nat
      BY <2>2, FileToolsAssumption DEF FileState
    <3>2. disk[f] # None /\ disk[f].mtime = cache[i].mtime
      BY <2>1, <3>1, NoneAssumption DEF Mtime
    <3> QED BY <1>1, <3>2 DEF Typed
  <2>4. <<f, disk[f].ver>> \notin raced => Referred(f, disk[f].ver, r)
    BY <1>1, <2>1, <2>2, <2>3 DEF Fits, Settling
  <2> HIDE DEF known
  <2>5. Give("stub", f, disk[f].ver, r)
    BY <1>1, <1>2
  <2>6. Given \subseteq Given' /\ cleared' = cleared
    BY <1>1, <2>3, <2>5, GiveKeeps
  <2>7. tool' = None /\ last' = [kind |-> "stub", path |-> f, ver |-> disk[f].ver, range |-> r]
    BY <2>5 DEF Give
  <2>8. StubReferred'
    <3> SUFFICES ASSUME Stubbed' PROVE (Referred(last.path, last.ver, last.range))'
      BY DEF StubReferred
    <3>1. <<f, disk[f].ver>> \notin raced
      BY <1>1, <2>7 DEF Stubbed
    <3>2. last'.path = f /\ last'.ver = disk[f].ver /\ last'.range = r
      BY <2>7
    <3> QED BY <1>1, <2>4, <2>6, <3>1, <3>2 DEF Referred
  <2>9. MarksTyped'
    BY <1>1, <2>6 DEF ReferInv, MarksTyped
  <2> QED BY <1>1, <2>6, <2>7, <2>8, <2>9, LookUpRefers
<1>3. CASE known = {}
  <2>1. tool' = t /\ UNCHANGED <<live, last, cleared>>
    BY <1>1, <1>3 DEF Continue
  <2>2. Given' = Given /\ MarksTyped'
    BY <1>1, <2>1 DEF Given, ReferInv, MarksTyped
  <2>3. tool'.step = "read"
    BY <2>1
  <2> HIDE DEF t, known
  <2> QED BY <1>1, <2>1, <2>2, <2>3, LookUpRefers
<1> QED BY <1>2, <1>3

(* A call that fails or goes on, and the outside world.                    *)
LEMMA EditStartRefers ==
  ASSUME FileInv, ReferInv, NEW f \in Files, EditStart(f)
  PROVE  ReferInv'
<1>1. /\ live \in Seq(Result) /\ Touch(f) /\ UNCHANGED <<raced, written>>
      /\ \/ Continue([op |-> "edit", path |-> f, range |-> "all", mtime |-> None, step |-> "read", ver |-> 0])
         \/ Fail(f)
  BY DEF EditStart, Known, FileInv, FileTypes, Typed
<1>2. /\ Given \subseteq Given' /\ cleared' = cleared
      /\ tool' # None => tool'.step # "cache"
      /\ last' = last \/ last'.kind # "stub"
  <2>1. CASE Fail(f)
    BY <1>1, <2>1, FailKeeps, FailFacts
  <2>2. CASE Continue([op |-> "edit", path |-> f, range |-> "all", mtime |-> None, step |-> "read", ver |-> 0])
    BY <2>2 DEF Continue, Given
  <2> QED BY <1>1, <2>1, <2>2
<1>3. MarksTyped'
  BY <1>1, <1>2 DEF ReferInv, MarksTyped
<1> QED BY <1>1, <1>2, <1>3, LookUpRefers

LEMMA EditReadRefers ==
  ASSUME FileInv, ReferInv, EditRead \/ ReadBinary
  PROVE  ReferInv'
<1>1. /\ tool # None /\ tool.step = "read" /\ live \in Seq(Result) /\ tool \in Call
      /\ tool.path \in Files /\ tool.range \in Ranges /\ 0 \in 0..MaxWrites
      /\ UNCHANGED <<raced, written, cache>>
  BY FileToolsAssumption DEF EditRead, ReadBinary, Known, FileInv, FileTypes, Typed, Call
<1>2. /\ Given \subseteq Given' /\ cleared' = cleared
      /\ tool' # None => tool'.step # "cache"
      /\ last' = last \/ last'.kind # "stub"
  <2>1. CASE Fail(tool.path)
    BY <1>1, <2>1, FailKeeps, FailFacts
  <2>2. CASE Continue([tool EXCEPT !.step = "write", !.ver = disk[tool.path].ver])
    BY <1>1, <2>2 DEF Continue, Given, Call
  <2>3. CASE Give("other", tool.path, 0, tool.range)
    <3>1. Given \subseteq Given' /\ cleared' = cleared
      BY <1>1, <2>3, GiveKeeps
    <3> QED BY <2>3, <3>1 DEF Give
  <2> QED BY <2>1, <2>2, <2>3 DEF EditRead, ReadBinary
<1>3. MarksTyped'
  BY <1>1, <1>2 DEF ReferInv, MarksTyped
<1> QED BY <1>1, <1>2, <1>3, LookUpRefers

LEMMA ElsewhereRefers ==
  ASSUME FileInv, ReferInv, UNCHANGED <<cache, last, tool, written>>, raced \subseteq raced',
         Given \subseteq Given', MarksTyped'
  PROVE  ReferInv'
<1>1. CallOwned'
  BY DEF ReferInv, CallOwned
<1>2. \A i \in 1..Len(cache') : \E j \in 1..Len(cache) : cache'[i] = cache[j]
  OBVIOUS
<1> QED BY <1>1, <1>2, RefersKept

LEMMA OutsideRefers ==
  ASSUME FileInv, ReferInv, NEW f \in Files, OutsideWrite(f) \/ OutsideRemove(f)
  PROVE  ReferInv'
<1>1. UNCHANGED <<cache, last, tool, written, live, cleared>> /\ raced \subseteq raced'
  BY DEF OutsideWrite, OutsideRemove, Known
<1>2. Given' = Given /\ MarksTyped'
  BY <1>1 DEF Given, ReferInv, MarksTyped
<1> QED BY <1>1, <1>2, ElsewhereRefers

LEMMA CompactRefers ==
  ASSUME FileInv, ReferInv, Microcompact \/ Autocompact
  PROVE  ReferInv'
<1>1. PICK m \in 0..Len(live) : Clear(m)
  BY Clears
<1>2. live \in Seq(Result)
  BY DEF FileInv, FileTypes, Typed
<1>3. UNCHANGED <<cache, last, tool, written, raced>> /\ Given \subseteq Given'
  BY <1>1, <1>2, ClearKeeps DEF Clear, Known
<1>4. MarksTyped'
  <2> DEFINE S == {<<<<live[i].path, live[i].ver>>, live[i].range>> : i \in {j \in 1..m : live[j].kind = "content"}}
  <2>1. \A i \in 1..m : live[i] \in Result
    BY <1>2
  <2>2. \A i \in 1..m : <<<<live[i].path, live[i].ver>>, live[i].range>> \in Versions \X Ranges
    BY <2>1 DEF Result, Versions
  <2>3. S \subseteq Versions \X Ranges
    BY <2>2
  <2>4. cleared' = cleared \cup S
    BY <1>1 DEF Clear
  <2> HIDE DEF S
  <2> QED BY <1>3, <2>3, <2>4 DEF ReferInv, MarksTyped
<1> QED BY <1>3, <1>4, ElsewhereRefers

(* A write that succeeded marks its version; one that failed, nothing.     *)
LEMMA WriteRefers ==
  ASSUME FileInv, ReferInv, NEW f \in Files, UNCHANGED cache, raced \subseteq raced',
         \/ Fail(f) /\ Failed(f)
         \/ /\ Put(f) /\ tool'.path = f /\ tool'.ver = newest' /\ UNCHANGED <<live, last, cleared>>
            /\ written' = written \cup {<<f, newest'>>}
  PROVE  ReferInv'
<1>1. live \in Seq(Result) /\ Typed
  BY DEF FileInv, FileTypes, Typed
<1>2. \A i \in 1..Len(cache') : \E j \in 1..Len(cache) : cache'[i] = cache[j]
  OBVIOUS
<1>3. CASE Fail(f) /\ Failed(f)
  <2>1. /\ Given \subseteq Given' /\ cleared' = cleared /\ tool' = None /\ last'.kind # "stub"
        /\ written' = written
    BY <1>1, <1>3, FailKeeps, FailFacts DEF Failed
  <2>2. MarksTyped' /\ CallOwned'
    BY <2>1 DEF ReferInv, MarksTyped, CallOwned
  <2> QED BY <1>2, <2>1, <2>2, RefersKept
<1>4. CASE /\ Put(f) /\ tool'.path = f /\ tool'.ver = newest' /\ UNCHANGED <<live, last, cleared>>
           /\ written' = written \cup {<<f, newest'>>}
  <2>1. <<f, newest'>> \in Versions
    BY <1>1, <1>4, PutFacts
  <2>2. Given' = Given /\ MarksTyped' /\ CallOwned'
    BY <1>4, <2>1 DEF Given, ReferInv, MarksTyped, CallOwned
  <2> QED BY <1>2, <1>4, <2>2, RefersKept
<1> QED BY <1>3, <1>4

LEMMA WriteStartRefers ==
  ASSUME FileInv, ReferInv, NEW f \in Files, WriteStart(f)
  PROVE  ReferInv'
<1>1. UNCHANGED cache /\ raced \subseteq raced'
  BY DEF WriteStart, Failed
<1> QED BY <1>1, WriteRefers DEF WriteStart, Continue

LEMMA EditWriteRefers ==
  ASSUME FileInv, ReferInv, EditWrite
  PROVE  ReferInv'
<1>1. UNCHANGED cache /\ raced \subseteq raced' /\ tool.path \in Files /\ tool \in Call
  BY DEF EditWrite, Failed, FileInv, FileTypes, Typed, Call
<1>2. CASE Fail(tool.path) /\ Failed(tool.path)
  BY <1>1, <1>2, WriteRefers
<1>3. CASE /\ Put(tool.path) /\ Continue([tool EXCEPT !.step = "cache", !.ver = newest'])
           /\ written' = written \cup {<<tool.path, newest'>>}
  <2>1. tool'.path = tool.path /\ tool'.ver = newest' /\ UNCHANGED <<live, last, cleared>>
    BY <1>1, <1>3 DEF Continue, Call
  <2> QED BY <1>1, <1>3, <2>1, WriteRefers
<1> QED BY <1>2, <1>3 DEF EditWrite

(* A new entry stands for the result of its step, or for what was written. *)
LEMMA InsertRefers ==
  ASSUME FileInv, ReferInv, NEW e \in FileState, Insert(e), UNCHANGED <<written, raced, cleared>>,
         Given \subseteq Given', tool' = None, last'.kind # "stub",
         (Referred(e.path, e.ver, e.range))'
  PROVE  ReferInv'
<1>1. \A i \in 1..Len(cache') :
        cache'[i] = e \/ \E j \in 1..Len(cache) : cache'[i] = cache[j] /\ cache[j].path # e.path
  <2>1. Accounts(cache, bytes)
    BY DEF FileInv, FileTypes
  <2> QED BY <2>1, InsertStep
<1>2. \A i \in 1..Len(cache') : \/ \E j \in 1..Len(cache) : cache'[i] = cache[j]
                                \/ (Referred(cache[i].path, cache[i].ver, cache[i].range))'
  <2> SUFFICES ASSUME NEW i \in 1..Len(cache'), cache'[i] = e
               PROVE  (Referred(cache[i].path, cache[i].ver, cache[i].range))'
    BY <1>1
  <2> QED BY DEF Referred
<1>3. MarksTyped' /\ CallOwned'
  BY DEF ReferInv, MarksTyped, CallOwned
<1> QED BY <1>2, <1>3, RefersKept

(* A result without a new entry.                                           *)
LEMMA ResultRefers ==
  ASSUME FileInv, ReferInv, UNCHANGED <<cache, written, raced, cleared>>,
         Given \subseteq Given', tool' = None, last'.kind # "stub"
  PROVE  ReferInv'
<1>1. MarksTyped' /\ CallOwned'
  BY DEF ReferInv, MarksTyped, CallOwned
<1>2. \A i \in 1..Len(cache') : \E j \in 1..Len(cache) : cache'[i] = cache[j]
  OBVIOUS
<1> QED BY <1>1, <1>2, RefersKept

LEMMA UpdateCacheRefers ==
  ASSUME FileInv, ReferInv, UpdateCache
  PROVE  ReferInv'
<1>1. /\ tool # None /\ tool.step = "cache" /\ UNCHANGED <<disk, raced, written>>
      /\ Typed /\ tool \in Call /\ tool.path \in Files /\ tool.ver \in 0..MaxWrites /\ "all" \in Ranges
      /\ live \in Seq(Result)
      /\ <<tool.path, tool.ver>> \in written
  BY FileToolsAssumption DEF UpdateCache, World, Known, FileInv, FileTypes, Typed, Call, ReferInv, CallOwned
<1>2. PICK f \in Files, v \in 0..MaxWrites : f = tool.path /\ v = tool.ver
  BY <1>1
<1>3. PICK kind \in {"edited", "written"} : Give(kind, f, v, "all")
  BY <1>2 DEF UpdateCache
<1>4. Given \subseteq Given' /\ cleared' = cleared
  BY <1>1, <1>3, GiveKeeps
<1>5. tool' = None /\ last'.kind # "stub"
  BY <1>3 DEF Give
<1>6. CASE disk[f] = None
  <2>1. UNCHANGED cache
    BY <1>2, <1>6 DEF UpdateCache
  <2> QED BY <1>1, <1>4, <1>5, <2>1, ResultRefers
<1>7. CASE disk[f] # None
  <2>1. PICK n \in Sizes : Insert([path |-> f, ver |-> v, range |-> "all", mtime |-> Mtime(f), size |-> n])
    BY <1>2, <1>7 DEF UpdateCache
  <2>2. Mtime(f) \in 0..MaxClock
    BY <1>1, <1>7 DEF Mtime, Typed
  <2>3. PICK x \in FileState : x.path = f /\ x.ver = v /\ x.range = "all" /\ Insert(x)
    <3> DEFINE y == [path |-> f, ver |-> v, range |-> "all", mtime |-> Mtime(f), size |-> n]
    <3>1. y \in FileState /\ y.path = f /\ y.ver = v /\ y.range = "all" /\ Insert(y)
      BY <1>1, <2>1, <2>2 DEF FileState
    <3> HIDE DEF y
    <3> QED BY <3>1
  <2>4. (Referred(x.path, x.ver, x.range))'
    BY <1>1, <1>2, <2>3 DEF Referred
  <2> QED BY <1>1, <1>4, <1>5, <2>3, <2>4, InsertRefers
<1> QED BY <1>6, <1>7

LEMMA ReadFileRefers ==
  ASSUME FileInv, ReferInv, ReadFile
  PROVE  ReferInv'
<1>1. /\ tool # None /\ UNCHANGED <<disk, raced, written>>
      /\ Typed /\ tool \in Call /\ tool.path \in Files /\ tool.range \in Ranges /\ tool.mtime \in Times
      /\ live \in Seq(Result)
  BY DEF ReadFile, World, FileInv, FileTypes, Typed, Call
<1>2. PICK f \in Files, r \in Ranges : f = tool.path /\ r = tool.range
  BY <1>1
<1>3. CASE Fail(f) /\ UNCHANGED cache
  <2>1. Given \subseteq Given' /\ cleared' = cleared /\ tool' = None /\ last'.kind # "stub"
    BY <1>1, <1>3, FailKeeps, FailFacts
  <2> QED BY <1>1, <1>3, <2>1, ResultRefers
<1>4. CASE /\ disk[f] # None /\ Give("content", f, disk[f].ver, r)
           /\ IF tool.mtime = None
                THEN UNCHANGED cache
                ELSE \E n \in Sizes :
                       Insert([path |-> f, ver |-> disk[f].ver, range |-> r, mtime |-> tool.mtime, size |-> n])
  <2>1. PICK v \in 0..MaxWrites : v = disk[f].ver
    BY <1>1, <1>4 DEF Typed
  <2>2. Given \subseteq Given' /\ cleared' = cleared /\ <<<<f, v>>, r>> \in Given'
    BY <1>1, <1>4, <2>1, GiveKeeps
  <2>3. tool' = None /\ last'.kind # "stub"
    BY <1>4 DEF Give
  <2>4. CASE tool.mtime = None
    BY <1>1, <1>4, <2>2, <2>3, <2>4, ResultRefers
  <2>5. CASE tool.mtime # None
    <3>1. PICK n \in Sizes :
            Insert([path |-> f, ver |-> v, range |-> r, mtime |-> tool.mtime, size |-> n])
      BY <1>4, <2>1, <2>5
    <3>2. PICK x \in FileState : x.path = f /\ x.ver = v /\ x.range = r /\ Insert(x)
      <4> DEFINE y == [path |-> f, ver |-> v, range |-> r, mtime |-> tool.mtime, size |-> n]
      <4>1. y \in FileState /\ y.path = f /\ y.ver = v /\ y.range = r /\ Insert(y)
        BY <1>1, <2>5, <3>1 DEF FileState, Times
      <4> HIDE DEF y
      <4> QED BY <4>1
    <3>3. (Referred(x.path, x.ver, x.range))'
      BY <2>2, <3>2 DEF Referred
    <3> QED BY <1>1, <2>2, <2>3, <3>2, <3>3, InsertRefers
  <2> QED BY <2>4, <2>5
<1> QED BY <1>2, <1>3, <1>4 DEF ReadFile

LEMMA ReferStep == FileInv /\ ReferInv /\ [Next]_vars => ReferInv'
<1> SUFFICES ASSUME FileInv, ReferInv, [Next]_vars PROVE ReferInv'
  OBVIOUS
<1>1. ASSUME UNCHANGED vars PROVE ReferInv'
  <2>1. UNCHANGED <<cache, last, tool, written, live, cleared, raced>>
    BY <1>1 DEF vars
  <2>2. Given' = Given /\ MarksTyped'
    BY <2>1 DEF Given, ReferInv, MarksTyped
  <2> QED BY <2>1, <2>2, ElsewhereRefers
<1>2. ASSUME NEW f \in Files, NEW r \in Ranges, ReadStart(f, r) PROVE ReferInv'
  BY <1>2, ReadStartRefers
<1>3. ASSUME NEW f \in Files, EditStart(f) \/ WriteStart(f) PROVE ReferInv'
  BY <1>3, EditStartRefers, WriteStartRefers
<1>4. ASSUME NEW f \in Files, OutsideWrite(f) \/ OutsideRemove(f) PROVE ReferInv'
  BY <1>4, OutsideRefers
<1>5. ASSUME ReadFile \/ ReadBinary \/ EditRead \/ EditWrite \/ UpdateCache PROVE ReferInv'
  BY <1>5, ReadFileRefers, EditReadRefers, EditWriteRefers, UpdateCacheRefers
<1>6. ASSUME Microcompact \/ Autocompact PROVE ReferInv'
  BY <1>6, CompactRefers
<1>7. ASSUME Tick PROVE ReferInv'
  <2>1. UNCHANGED <<cache, last, tool, written, live, cleared, raced>>
    BY <1>7 DEF Tick, Known
  <2>2. Given' = Given /\ MarksTyped'
    BY <2>1 DEF Given, ReferInv, MarksTyped
  <2> QED BY <2>1, <2>2, ElsewhereRefers
<1> QED BY <1>1, <1>2, <1>3, <1>4, <1>5, <1>6, <1>7 DEF Next

LEMMA FileInvariant == Spec => [](FileInv /\ ReferInv)
<1>1. Init => FileInv /\ ReferInv
  BY InitFile, InitRefers
<1>2. (FileInv /\ ReferInv) /\ [Next]_vars => (FileInv /\ ReferInv)'
  BY FileStep, ReferStep
<1> QED BY <1>1, <1>2, PTL DEF Spec

(* The byte counter of the cache is the sum of its entries and the limits  *)
(* on bytes and entries hold after any inserts and evictions, whatever     *)
(* they are, and a path has one entry (FileStateCache::insert).            *)
THEOREM CacheAccountsExact == Spec => []TypeOK
BY FileInvariant, InvImplies, PTL

(* No edit overwrites a version the model has not seen, no stub hides one, *)
(* a stub agrees with what the conversation shows last, and refers to a    *)
(* result of Read that is there: except for writes of others that no time  *)
(* stamp shows, and, for the last, entries that an Edit or a Write left    *)
(* and results that a compaction cleared (read.rs, edit.rs).               *)
THEOREM TimeStampsSuffice == Spec => []CacheAgreesWithModel
BY FileInvariant, InvImplies, PTL

-----------------------------------------------------------------------------
(***************************************************************************)
(* The MCP client.  The invariant of a connection: whatever line or debt   *)
(* of a server is about, is the request under way or one left without its  *)
(* answer; the answer to the request under way is in one place at most;    *)
(* and an id, other than the zero of the tool calls, tells a request.      *)
(***************************************************************************)
Stages == Connecting \cup {"idle", "up", "failed"}
Slots == UNION {[S -> Nat] : S \in SUBSET Ids}
Connection ==
  [stage : Stages, alive : BOOLEAN, request : Request \cup {Nil},
   post : {"none", "flying", "arrived", "done"}, reply : Line \cup {Nil},
   slot : Slots, owed : SUBSET Request, wire : Seq(Line), tools : Offers \cup {{}},
   resources : {"no", "yes", "listed"}, sent : Nat, abandoned : SUBSET Nat]

(***************************************************************************)
(* The request of a connection under way has the last number, the method   *)
(* of its stage and the id of its method.                                  *)
(***************************************************************************)
Asked(k) ==
  LET r == k.request IN
  /\ r.n \in 1..k.sent /\ r.n \notin k.abandoned
  /\ \/ k.stage = "initialize" /\ r.method = "initialize" /\ r.id = 1
     \/ k.stage = "tools" /\ r.method = "tools/list" /\ r.id = 2
     \/ k.stage = "up" /\ r.method = "tools/call" /\ r.id = 0
     \/ k.stage = "up" /\ r.method \in ResourceCalls /\ r.id >= 10

(* The number belongs to the request under way or to one that was left     *)
(* without its answer.                                                     *)
Due(k, n) == n \in k.abandoned \/ (k.request # Nil /\ n = k.request.n)

(* An id says which request is meant, except zero.                         *)
Told(k, lim, id, n) ==
  /\ id \in Nat /\ id < lim
  /\ k.stage \in {"initialize", "notify"} => id = 1
  /\ k.request # Nil /\ id = k.request.id /\ n # k.request.n => k.request.method = "tools/call"

Ours(c, k, lim, l) ==
  \/ l.body = "stray" /\ l.n = 0
  \/ /\ Due(k, l.n) /\ Told(k, lim, l.id, l.n)
     /\ Transport[c] = "http" => k.request # Nil /\ l.n = k.request.n

Owes(c, k, lim, r) ==
  /\ \/ r.n \in k.abandoned
     \/ k.request # Nil /\ r = k.request
  /\ Told(k, lim, r.id, r.n)
  /\ Transport[c] = "http" => k.request # Nil /\ r = k.request

(* The answer to the request under way is in one place at most.            *)
NotOwed(k) == \A r \in k.owed : r.n # k.request.n
NotOnWire(k) == \A i \in 1..Len(k.wire) : k.wire[i].n # k.request.n
NotHeard(k) == k.reply # Nil => k.reply.n # k.request.n
OneAnswer(k) ==
  k.request # Nil =>
    /\ NotOwed(k) \/ (NotOnWire(k) /\ NotHeard(k))
    /\ NotOnWire(k) \/ NotHeard(k)
    /\ \A i, j \in 1..Len(k.wire) :
         k.wire[i].n = k.request.n /\ k.wire[j].n = k.request.n => i = j
    /\ k.post = "flying" => NotOwed(k) /\ NotOnWire(k) /\ NotHeard(k)

SlotsKept(c, k) ==
  \A i \in DOMAIN k.slot :
    /\ k.slot[i] \in 1..k.sent /\ Transport[c] = "sse"
    /\ k.request # Nil /\ k.slot[i] = k.request.n => i = k.request.id

Sound(c, k, lim) ==
  /\ k \in Connection
  /\ (k.post = "none") = (k.request = Nil)
  /\ k.request # Nil => Asked(k) /\ k.request.id < lim
  /\ k.reply # Nil => Transport[c] = "sse" /\ k.request # Nil /\ k.reply.id = k.request.id
  /\ k.abandoned \subseteq 1..k.sent
  /\ SlotsKept(c, k)
  /\ k.stage \in {"idle", "opening", "failed"} =>
       k.owed = {} /\ Len(k.wire) = 0 /\ k.request = Nil
  /\ k.stage \in {"idle", "opening"} => ~k.alive
  /\ \A r \in k.owed : Owes(c, k, lim, r)
  /\ \A i \in 1..Len(k.wire) : Ours(c, k, lim, k.wire[i])
  /\ k.reply # Nil => Ours(c, k, lim, k.reply)
  /\ OneAnswer(k)

(***************************************************************************)
(* Fields.                                                                 *)
(***************************************************************************)
LEMMA FreshSound ==
  ASSUME NEW c \in Conns, NEW lim \in Nat
  PROVE  Sound(c, Fresh(c), lim)
<1> DEFINE k == Fresh(c)
<1>1. k \in Connection
  <2>1. <<>> \in Slots
    <3>1. <<>> \in [{} -> Nat]
      OBVIOUS
    <3> QED BY <3>1 DEF Slots
  <2> QED BY <2>1 DEF Fresh, Connection, Stages, Connecting
<1>2. DOMAIN k.slot = {} /\ Len(k.wire) = 0 /\ k.owed = {}
  BY DEF Fresh
<1> QED BY <1>1, <1>2, NilAssumption DEF Fresh, Sound, SlotsKept, OneAnswer

LEMMA SoundGrows ==
  ASSUME NEW c \in Conns, NEW lim \in Nat, NEW to \in Nat, lim <= to,
         NEW k, Sound(c, k, lim)
  PROVE  Sound(c, k, to)
<1>1. \A id : id \in Nat /\ id < lim => id < to
  OBVIOUS
<1>2. k.request # Nil => k.request.id \in Nat
  BY DEF Sound, Asked, ResourceCalls, Connection, Request
<1> QED BY <1>1, <1>2 DEF Sound, Ours, Owes, Told

(* A connection that is dropped.                                           *)
LEMMA DroppedSound ==
  ASSUME NEW c \in Conns, NEW lim \in Nat, NEW k \in Connection, k.abandoned \subseteq 1..k.sent
  PROVE  Sound(c, Dropped(c, k), lim)
<1> DEFINE d == Dropped(c, k)
<1>1. d \in Connection
  <2>1. Fresh(c) \in Connection
    BY FreshSound DEF Sound
  <2>2. ASSUME NEW f \in Connection, NEW v \in BOOLEAN, NEW n \in Nat, NEW A \in SUBSET Nat
        PROVE  [f EXCEPT !.stage = "failed", !.alive = v, !.sent = n, !.abandoned = A] \in Connection
    <3>1. "failed" \in Stages
      BY DEF Stages
    <3> QED BY <3>1 DEF Connection
  <2>3. (k.alive /\ Transport[c] # "stdio") \in BOOLEAN
    OBVIOUS
  <2>4. k.sent \in Nat /\ k.abandoned \in SUBSET Nat
    BY DEF Connection
  <2> QED BY <2>1, <2>2, <2>3, <2>4, Zenon DEF Dropped
<1>2. DOMAIN d.slot = {} /\ Len(d.wire) = 0 /\ d.owed = {}
  BY DEF Fresh, Dropped
<1> QED BY <1>1, <1>2, NilAssumption DEF Fresh, Dropped, Sound, SlotsKept, OneAnswer

(* A request that is sent.                                                 *)
LEMMA SendingSound ==
  ASSUME NEW c \in Conns, nextId \in Nat, nextId >= 10, NEW lim \in Nat, lim >= nextId,
         NEW k, Sound(c, k, nextId), k.request = Nil, NEW m \in Methods,
         m \in ResourceCalls => lim > nextId,
         \/ k.stage = "initialize" /\ m = "initialize" /\ k.owed = {} /\ Len(k.wire) = 0
         \/ /\ k.stage = "tools" /\ m = "tools/list"
            /\ \A r \in k.owed : r.id = 1
            /\ \A i \in 1..Len(k.wire) : 
                 k.wire[i].id = 1 \/ (k.wire[i].body = "stray" /\ k.wire[i].n = 0)
         \/ k.stage = "up" /\ m \in ResourceCalls \cup {"tools/call"}
  PROVE  Sound(c, Sending(c, k, m), lim)
<1> DEFINE r == [n |-> k.sent + 1, id |-> RequestId(m), method |-> m]
           s == Sending(c, k, m)
<1>1. k \in Connection /\ k.sent \in Nat /\ k.slot \in Slots
  BY DEF Sound, Connection
<1>2. /\ RequestId(m) \in Nat /\ RequestId(m) < lim
      /\ m \in ResourceCalls => RequestId(m) = nextId
      /\ m = "tools/call" => RequestId(m) = 0
      /\ m = "initialize" => RequestId(m) = 1
      /\ m = "tools/list" => RequestId(m) = 2
  BY DEF RequestId, ResourceCalls, Methods
<1>3. r \in Request
  BY <1>1, <1>2 DEF Request
<1>4. /\ s.request = r /\ s.post = "flying" /\ s.sent = k.sent + 1 /\ s.owed = k.owed
      /\ s.wire = k.wire /\ s.stage = k.stage /\ s.alive = k.alive /\ s.abandoned = k.abandoned
      /\ s.reply = k.reply
  BY <1>1 DEF Sending, Connection
<1>5. s.slot = IF Transport[c] = "sse"
                THEN [i \in DOMAIN k.slot \cup {r.id} |-> IF i = r.id THEN r.n ELSE k.slot[i]]
                ELSE k.slot
  BY <1>1 DEF Sending, Connection
<1>6. /\ Transport[c] = "sse" => DOMAIN s.slot = DOMAIN k.slot \cup {r.id}
      /\ Transport[c] = "sse" => s.slot[r.id] = r.n
      /\ Transport[c] = "sse" => \A i \in DOMAIN k.slot : i # r.id => s.slot[i] = k.slot[i]
      /\ Transport[c] # "sse" => s.slot = k.slot
  BY <1>5
<1>7. s.slot \in Slots
  <2>1. PICK S \in SUBSET Ids : k.slot \in [S -> Nat]
    BY <1>1 DEF Slots
  <2>2. S \cup {r.id} \in SUBSET Ids /\ r.n \in Nat
    <3>1. r.n = k.sent + 1 /\ r.id = RequestId(m)
      OBVIOUS
    <3>2. r.n \in Nat /\ r.id \in Ids
      BY <1>1, <1>2, <3>1 DEF Ids
    <3> HIDE DEF r
    <3> QED BY <3>2
  <2>3. [i \in DOMAIN k.slot \cup {r.id} |-> IF i = r.id THEN r.n ELSE k.slot[i]] \in [S \cup {r.id} -> Nat]
    BY <2>1, <2>2
  <2>4. [i \in DOMAIN k.slot \cup {r.id} |-> IF i = r.id THEN r.n ELSE k.slot[i]] \in Slots
    BY <2>2, <2>3 DEF Slots
  <2> HIDE DEF s, r
  <2> QED BY <1>1, <1>5, <2>4
<1>8. s \in Connection
  <2>1. ASSUME NEW q \in Request, NEW sl \in Slots, NEW n \in Nat
        PROVE  [k EXCEPT !.request = q, !.post = "flying", !.sent = n, !.slot = sl] \in Connection
    BY <1>1 DEF Connection
  <2>2. s = [k EXCEPT !.request = r, !.post = "flying", !.sent = k.sent + 1, !.slot = s.slot]
    BY <1>1, <1>5 DEF Sending, Connection
  <2>3. k.sent + 1 \in Nat
    BY <1>1
  <2> HIDE DEF s, r
  <2>4. [k EXCEPT !.request = r, !.post = "flying", !.sent = k.sent + 1, !.slot = s.slot] \in Connection
    BY <1>3, <1>7, <2>1, <2>3
  <2> QED BY <2>2, <2>4, Zenon
<1>9. r.n = k.sent + 1 /\ r.id = RequestId(m) /\ r.method = m
  OBVIOUS
<1>10. k.post = "none" /\ k.reply = Nil /\ k.abandoned \subseteq 1..k.sent /\ SlotsKept(c, k)
  BY DEF Sound
<1> HIDE DEF s, r
<1>12. \A n : n \in k.abandoned => n # k.sent + 1
  BY <1>1, <1>10
<1>11. s.request # Nil /\ Asked(s) /\ s.request.id < lim
  BY <1>1, <1>2, <1>3, <1>4, <1>9, <1>12, NilAssumption DEF Asked, ResourceCalls
<1>13. SlotsKept(c, s)
  BY <1>1, <1>4, <1>6, <1>9, <1>10 DEF SlotsKept
<1>14. \A r2 \in k.owed : r2.n \in k.abandoned /\ Told(k, nextId, r2.id, r2.n) /\ Transport[c] # "http"
  BY DEF Sound, Owes
<1>15. \A i \in 1..Len(k.wire) :
         \/ k.wire[i].body = "stray" /\ k.wire[i].n = 0
         \/ /\ k.wire[i].n \in k.abandoned /\ Told(k, nextId, k.wire[i].id, k.wire[i].n)
            /\ Transport[c] # "http"
  BY DEF Sound, Ours, Due
<1>20. /\ k.stage = "initialize" => \A i \in 1..Len(k.wire) : FALSE
       /\ k.stage = "tools" => \A i \in 1..Len(k.wire) :
            k.wire[i].id = 1 \/ (k.wire[i].body = "stray" /\ k.wire[i].n = 0)
  <2>1. k.wire \in Seq(Line) /\ Len(k.wire) \in Nat
    BY <1>1 DEF Connection
  <2> QED BY <2>1
<1>16. \A id, n : Told(k, nextId, id, n) /\ (k.stage = "tools" => id = 1) /\ n \in k.abandoned
         /\ k.stage # "initialize"
         => Told(s, lim, id, n)
  BY <1>2, <1>4, <1>9 DEF Told, ResourceCalls
<1>17. \A r2 \in k.owed : Owes(c, s, lim, r2)
  BY <1>4, <1>14, <1>16 DEF Owes
<1>18. \A i \in 1..Len(k.wire) : Ours(c, s, lim, k.wire[i])
  <2> TAKE i \in 1..Len(k.wire)
  <2>1. CASE k.wire[i].body = "stray" /\ k.wire[i].n = 0
    BY <2>1 DEF Ours
  <2>2. CASE ~(k.wire[i].body = "stray" /\ k.wire[i].n = 0)
    <3>1. k.wire[i].n \in k.abandoned /\ Told(k, nextId, k.wire[i].id, k.wire[i].n) /\ Transport[c] # "http"
      BY <1>15, <2>2
    <3>2. k.stage = "tools" => k.wire[i].id = 1
      BY <2>2, <1>20
    <3>3. k.stage # "initialize"
      BY <1>20
    <3> QED BY <1>4, <1>16, <3>1, <3>2, <3>3 DEF Ours, Due
  <2> QED BY <2>1, <2>2
<1>19. OneAnswer(s)
  BY <1>1, <1>4, <1>9, <1>10, <1>12, <1>14, <1>15 DEF OneAnswer, NotOwed, NotOnWire, NotHeard
<1>21. k.stage \in {"initialize", "tools", "up"}
  OBVIOUS
<1>22. (s.post = "none") = (s.request = Nil)
  BY <1>4, <1>11
<1>23. s.abandoned \subseteq 1..s.sent
  BY <1>1, <1>4, <1>10
<1>24. /\ s.reply = Nil /\ s.stage \notin {"idle", "opening", "failed"}
       /\ s.owed = k.owed /\ s.wire = k.wire
  BY <1>4, <1>10, <1>21
<1>25. (\A r2 \in s.owed : Owes(c, s, lim, r2)) /\ \A i \in 1..Len(s.wire) : Ours(c, s, lim, s.wire[i])
  BY <1>17, <1>18, <1>24
<1>26. Sound(c, s, lim)
  BY <1>8, <1>11, <1>13, <1>19, <1>22, <1>23, <1>24, <1>25 DEF Sound
<1> QED BY <1>26 DEF s

(***************************************************************************)
(* A connection without a request whose stage moves on.                    *)
(***************************************************************************)
Onward(from, to) ==
  \/ from = to
  \/ from = "idle" /\ to = "opening"
  \/ from = "opening" /\ to = "initialize"
  \/ from = "initialize" /\ to = "notify"
  \/ from = "notify" /\ to = "tools"
  \/ from = "tools" /\ to = "up"

LEMMA RestagedSound ==
  ASSUME NEW c \in Conns, NEW lim \in Nat, NEW k, Sound(c, k, lim), k.request = Nil,
         NEW s \in Connection, s.request = Nil, s.post = "none", s.reply = Nil,
         s.slot = k.slot, s.owed = k.owed, s.wire = k.wire, s.sent = k.sent,
         s.abandoned = k.abandoned, Onward(k.stage, s.stage),
         s.stage \in {"idle", "opening"} => ~s.alive
  PROVE  Sound(c, s, lim)
<1>1. /\ k \in Connection /\ k.abandoned \subseteq 1..k.sent /\ SlotsKept(c, k)
      /\ k.stage \in {"idle", "opening", "failed"} => k.owed = {} /\ Len(k.wire) = 0
  BY DEF Sound
<1>2. SlotsKept(c, s) /\ OneAnswer(s)
  BY <1>1 DEF SlotsKept, OneAnswer
<1>3. k.stage \in {"idle", "opening", "failed"} =>
        (\A r \in k.owed : FALSE) /\ (\A i \in 1..Len(k.wire) : FALSE)
  BY <1>1
<1>4. \A id, n : Told(k, lim, id, n) /\ k.stage \notin {"idle", "opening", "failed"} => Told(s, lim, id, n)
  BY DEF Told, Onward
<1>5. (\A r \in k.owed : Owes(c, k, lim, r)) /\ \A i \in 1..Len(k.wire) : Ours(c, k, lim, k.wire[i])
  BY DEF Sound
<1>6. \A r \in s.owed : Owes(c, s, lim, r)
  BY <1>3, <1>4, <1>5 DEF Owes
<1>7. \A i \in 1..Len(s.wire) : Ours(c, s, lim, s.wire[i])
  BY <1>3, <1>4, <1>5 DEF Ours, Due
<1>8. s.stage \in {"idle", "opening", "failed"} => k.stage \in {"idle", "opening", "failed"}
  BY DEF Onward
<1> QED BY <1>1, <1>2, <1>6, <1>7, <1>8 DEF Sound

(***************************************************************************)
(* A request that returned, with the line it took.                         *)
(***************************************************************************)
Taken(k, line) ==
  line # Nil /\ line.n = k.request.n => NotOwed(k) /\ NotOnWire(k)

LEMMA SettledSound ==
  ASSUME NEW c \in Conns, NEW lim \in Nat, NEW k, Sound(c, k, lim), k.request # Nil,
         NEW line, Taken(k, line)
  PROVE  LET s == Settled(c, k, line) IN
         /\ Sound(c, s, lim)
         /\ s.request = Nil /\ s.stage = k.stage /\ s.alive = k.alive /\ s.tools = k.tools
         /\ k.abandoned \subseteq s.abandoned
         /\ ~(line # Nil /\ line.n = k.request.n) => k.request.n \in s.abandoned
<1> DEFINE own == line # Nil /\ line.n = k.request.n
           A == IF own THEN k.abandoned ELSE k.abandoned \cup {k.request.n}
           left == [k EXCEPT !.request = Nil, !.post = "none", !.reply = Nil, !.abandoned = A]
           s == IF Transport[c] = "http" THEN [left EXCEPT !.wire = <<>>, !.owed = {}] ELSE left
<1>1. Settled(c, k, line) = s
  BY DEF Settled
<1>2. /\ k \in Connection /\ k.request \in Request /\ Asked(k) /\ k.sent \in Nat
      /\ k.abandoned \subseteq 1..k.sent /\ SlotsKept(c, k) /\ OneAnswer(k)
  BY DEF Sound, Connection
<1>3. A \subseteq 1..k.sent /\ A \in SUBSET Nat /\ k.abandoned \subseteq A /\ (~own => k.request.n \in A)
  BY <1>2 DEF Asked
<1>4. left \in Connection
  <2> HIDE DEF A
  <2> QED BY <1>2, <1>3 DEF Connection
<1>5. <<>> \in Seq(Line)
  OBVIOUS
<1>6. s \in Connection
  <2> HIDE DEF left
  <2>1. [left EXCEPT !.wire = <<>>, !.owed = {}] \in Connection
    BY <1>4, <1>5 DEF Connection
  <2> QED BY <1>4, <2>1
<1>7. /\ s.request = Nil /\ s.post = "none" /\ s.reply = Nil /\ s.abandoned = A
      /\ s.stage = k.stage /\ s.alive = k.alive /\ s.tools = k.tools /\ s.sent = k.sent
      /\ s.slot = k.slot
  <2> HIDE DEF A
  <2> QED BY <1>2 DEF Connection
<1>8. /\ Transport[c] = "http" => s.owed = {} /\ s.wire = <<>>
      /\ Transport[c] # "http" => s.owed = k.owed /\ s.wire = k.wire
  <2> HIDE DEF A
  <2> QED BY <1>2 DEF Connection
<1> HIDE DEF s, left
<1>9. \A id, n : Told(k, lim, id, n) => Told(s, lim, id, n)
  BY <1>7 DEF Told
<1>10. SlotsKept(c, s) /\ OneAnswer(s)
  BY <1>2, <1>7 DEF SlotsKept, OneAnswer
<1>11. \A r \in s.owed : Owes(c, s, lim, r)
  <2>1. CASE Transport[c] = "http"
    BY <1>8, <2>1
  <2>2. CASE Transport[c] # "http"
    <3> TAKE r \in s.owed
    <3>1. r \in k.owed /\ Owes(c, k, lim, r)
      BY <1>8, <2>2 DEF Sound
    <3>2. Told(s, lim, r.id, r.n)
      BY <1>9, <3>1 DEF Owes
    <3>3. r.n \in A
      BY <1>2, <3>1 DEF Owes, Taken, NotOwed
    <3> QED BY <1>7, <2>2, <3>2, <3>3 DEF Owes
  <2> QED BY <2>1, <2>2
<1>12. \A i \in 1..Len(s.wire) : Ours(c, s, lim, s.wire[i])
  <2>1. CASE Transport[c] = "http"
    <3>1. Len(s.wire) = 0
      BY <1>8, <2>1
    <3> QED BY <3>1
  <2>2. CASE Transport[c] # "http"
    <3> TAKE i \in 1..Len(s.wire)
    <3> DEFINE l == k.wire[i]
    <3>1. i \in 1..Len(k.wire) /\ s.wire[i] = l /\ Ours(c, k, lim, l)
      BY <1>8, <2>2 DEF Sound
    <3> HIDE DEF l
    <3>2. CASE l.body = "stray" /\ l.n = 0
      BY <3>1, <3>2 DEF Ours
    <3>3. CASE Due(k, l.n) /\ Told(k, lim, l.id, l.n)
      <4>1. Told(s, lim, l.id, l.n)
        BY <1>9, <3>3
      <4>2. l.n \in A
        BY <3>1, <3>3 DEF l, Due, Taken, NotOnWire
      <4> QED BY <1>7, <2>2, <3>1, <4>1, <4>2 DEF Ours, Due
    <3> QED BY <3>1, <3>2, <3>3 DEF Ours
  <2> QED BY <2>1, <2>2
<1>13. s.stage \in {"idle", "opening", "failed"} => FALSE
  BY <1>7 DEF Sound
<1>15. Sound(c, s, lim)
  BY <1>3, <1>6, <1>7, <1>10, <1>11, <1>12, <1>13 DEF Sound
<1> QED BY <1>1, <1>3, <1>7, <1>15

(***************************************************************************)
(* What a step of a connection leaves of it.                               *)
(***************************************************************************)
Keeps(k, s) ==
  /\ k.abandoned \subseteq s.abandoned
  /\ s.stage = k.stage \/ (k.stage \in Connecting /\ s.stage \notin {"idle", "opening"})
  /\ k.stage = "up" => s.tools = k.tools
  /\ s.request # Nil => s.stage \in {"initialize", "tools", "up"}
  /\ s.stage = "up" /\ s.request # Nil => k.stage = "up" /\ k.request # Nil

(* An outcome that may be the answer to another request.                   *)
Excused(k, c, o) ==
  (o # Nil /\ o.got # o.n) =>
    /\ o.got \in k.abandoned
    /\ Transport[c] # "http"
    /\ Transport[c] = "sse" => o.method = "tools/call"

Reported(c, s) ==
  \/ outcome' = outcome
  \/ outcome' = Nil
  \/ outcome'.conn = c /\ Excused(s, c, outcome')

Steps(c, lim) ==
  \E s : Become(c, s) /\ Sound(c, s, lim) /\ Keeps(conn[c], s) /\ Reported(c, s)

Answers(c, k, lim, line) ==
  line # Nil =>
    /\ Ours(c, k, lim, line)
    /\ Transport[c] = "sse" => line.id = k.request.id

LEMMA ReturnSteps ==
  ASSUME NEW c \in Conns, NEW lim \in Nat, NEW k, Sound(c, k, lim), k.request # Nil,
         Sound(c, conn[c], lim), k.stage = conn[c].stage, k.tools = conn[c].tools,
         k.abandoned = conn[c].abandoned, conn[c].request # Nil,
         NEW line, Taken(k, line), Answers(c, k, lim, line), Return(c, k, line)
  PROVE  Steps(c, lim)
<1> DEFINE m == k.request.method
           ok == line # Nil /\ line.body = "result" /\ line.method = m
           left == Settled(c, k, line)
<1>1. /\ Sound(c, left, lim)
      /\ left.request = Nil /\ left.stage = k.stage /\ left.alive = k.alive /\ left.tools = k.tools
      /\ k.abandoned \subseteq left.abandoned
      /\ ~(line # Nil /\ line.n = k.request.n) => k.request.n \in left.abandoned
  BY SettledSound
<1>2. left \in Connection /\ left.post = "none" /\ left.reply = Nil /\ left.abandoned \subseteq 1..left.sent
  BY <1>1 DEF Sound
<1>3. Asked(k)
  BY DEF Sound
<1> HIDE DEF left
<1>4. CASE /\ m = "initialize" /\ ok
           /\ \E res \in {"no", "yes"} : Become(c, [left EXCEPT !.stage = "notify", !.resources = res])
           /\ UNCHANGED outcome
  <2>1. PICK res \in {"no", "yes"} : Become(c, [left EXCEPT !.stage = "notify", !.resources = res])
    BY <1>4
  <2> DEFINE s == [left EXCEPT !.stage = "notify", !.resources = res]
  <2>2. s \in Connection
    BY <1>2 DEF Connection, Stages, Connecting
  <2>3. /\ s.request = Nil /\ s.post = "none" /\ s.reply = Nil /\ s.slot = left.slot
        /\ s.owed = left.owed /\ s.wire = left.wire /\ s.sent = left.sent
        /\ s.abandoned = left.abandoned /\ s.stage = "notify"
    BY <1>1, <1>2 DEF Connection
  <2>4. k.stage = "initialize"
    BY <1>3, <1>4 DEF Asked, ResourceCalls
  <2> HIDE DEF s
  <2>5. Sound(c, s, lim)
    BY <1>1, <2>2, <2>3, <2>4, RestagedSound DEF Onward
  <2>6. Keeps(conn[c], s) /\ Reported(c, s)
    BY <1>1, <1>4, <2>3, <2>4 DEF Keeps, Reported, Connecting
  <2> QED BY <2>1, <2>5, <2>6 DEF Steps, s
<1>5. CASE /\ m = "tools/list" /\ ok
           /\ \E offered \in Offers : Become(c, [left EXCEPT !.stage = "up", !.tools = offered])
           /\ UNCHANGED outcome
  <2>1. PICK offered \in Offers : Become(c, [left EXCEPT !.stage = "up", !.tools = offered])
    BY <1>5
  <2> DEFINE s == [left EXCEPT !.stage = "up", !.tools = offered]
  <2>2. s \in Connection
    BY <1>2 DEF Connection, Stages, Connecting
  <2>3. /\ s.request = Nil /\ s.post = "none" /\ s.reply = Nil /\ s.slot = left.slot
        /\ s.owed = left.owed /\ s.wire = left.wire /\ s.sent = left.sent
        /\ s.abandoned = left.abandoned /\ s.stage = "up"
    BY <1>1, <1>2 DEF Connection
  <2>4. k.stage = "tools"
    BY <1>3, <1>5 DEF Asked, ResourceCalls
  <2> HIDE DEF s
  <2>5. Sound(c, s, lim)
    BY <1>1, <2>2, <2>3, <2>4, RestagedSound DEF Onward
  <2>6. Keeps(conn[c], s) /\ Reported(c, s)
    BY <1>1, <1>5, <2>3, <2>4 DEF Keeps, Reported, Connecting
  <2> QED BY <2>1, <2>5, <2>6 DEF Steps, s
<1>6. CASE /\ m \in {"initialize", "tools/list"} /\ ~ok
           /\ Become(c, Dropped(c, left)) /\ UNCHANGED outcome
  <2> DEFINE s == Dropped(c, left)
  <2>1. Sound(c, s, lim)
    BY <1>2, DroppedSound
  <2>2. s.abandoned = left.abandoned /\ s.stage = "failed" /\ s.request = Nil
    BY DEF Dropped, Fresh
  <2>3. k.stage \in {"initialize", "tools"}
    BY <1>3, <1>6 DEF Asked, ResourceCalls
  <2> HIDE DEF s
  <2>4. Keeps(conn[c], s) /\ Reported(c, s)
    BY <1>1, <1>6, <2>2, <2>3 DEF Keeps, Reported, Connecting
  <2> QED BY <1>6, <2>1, <2>4 DEF Steps, s
<1>7. CASE /\ m \in ResourceCalls \cup {"tools/call"}
           /\ Become(c, IF ok /\ m = "resources/list" THEN [left EXCEPT !.resources = "listed"] ELSE left)
           /\ outcome' = IF ok THEN [conn |-> c, n |-> k.request.n, got |-> line.n, method |-> m] ELSE Nil
  <2> DEFINE s == IF ok /\ m = "resources/list" THEN [left EXCEPT !.resources = "listed"] ELSE left
  <2>1. [left EXCEPT !.resources = "listed"] \in Connection
    BY <1>2 DEF Connection
  <2>2. /\ s \in Connection
        /\ s.request = Nil /\ s.post = "none" /\ s.reply = Nil /\ s.slot = left.slot
        /\ s.owed = left.owed /\ s.wire = left.wire /\ s.sent = left.sent
        /\ s.abandoned = left.abandoned /\ s.stage = left.stage /\ s.alive = left.alive
        /\ s.tools = left.tools
    BY <1>1, <1>2, <2>1 DEF Connection
  <2>3. k.stage = "up"
    BY <1>3, <1>7 DEF Asked, ResourceCalls
  <2>4. Become(c, s)
    BY <1>7
  <2> HIDE DEF s
  <2>5. Sound(c, s, lim)
    BY <1>1, <2>2, <2>3, RestagedSound DEF Onward
  <2>6. Keeps(conn[c], s)
    BY <1>1, <2>2, <2>3 DEF Keeps, Connecting
  <2>7. Reported(c, s)
    <3>1. CASE ~ok
      BY <1>7, <3>1 DEF Reported
    <3>2. CASE ok
      <4>1. /\ outcome'.conn = c /\ outcome'.n = k.request.n /\ outcome'.got = line.n
            /\ outcome'.method = m
        BY <1>7, <3>2
      <4>2. /\ Due(k, line.n) /\ Told(k, lim, line.id, line.n)
            /\ Transport[c] = "http" => line.n = k.request.n
            /\ Transport[c] = "sse" => line.id = k.request.id
        BY <3>2 DEF Answers, Ours
      <4>3. ASSUME line.n # k.request.n
            PROVE  /\ line.n \in left.abandoned /\ Transport[c] # "http"
                   /\ Transport[c] = "sse" => m = "tools/call"
        BY <1>1, <4>2, <4>3 DEF Due, Told
      <4> HIDE DEF m
      <4> QED BY <2>2, <4>1, <4>3 DEF Reported, Excused
    <3> QED BY <3>1, <3>2
  <2> QED BY <2>4, <2>5, <2>6, <2>7 DEF Steps
<1> QED BY <1>4, <1>5, <1>6, <1>7 DEF Return, left

Ready(c) == nextId \in Nat /\ nextId >= 10 /\ Sound(c, conn[c], nextId)

LEMMA StepsWith ==
  ASSUME NEW c \in Conns, NEW s, Become(c, s), Sound(c, s, nextId), Keeps(conn[c], s), Reported(c, s)
  PROVE  Steps(c, nextId)
BY DEF Steps

LEMMA DropSteps ==
  ASSUME NEW c \in Conns, Ready(c), conn[c].stage \in Connecting,
         Become(c, Dropped(c, conn[c])), UNCHANGED outcome
  PROVE  Steps(c, nextId)
<1> DEFINE s == Dropped(c, conn[c])
<1>1. Sound(c, s, nextId)
  BY DroppedSound DEF Sound, Ready
<1>2. s.abandoned = conn[c].abandoned /\ s.stage = "failed" /\ s.request = Nil
  BY DEF Dropped, Fresh
<1> HIDE DEF s
<1>3. Keeps(conn[c], s) /\ Reported(c, s)
  BY <1>2 DEF Keeps, Reported, Connecting
<1> QED BY <1>1, <1>3, StepsWith DEF s

LEMMA OpenSteps ==
  ASSUME NEW c \in Conns, Ready(c), Open(c)
  PROVE  Steps(c, nextId)
<1> DEFINE k == conn[c]
           o == [k EXCEPT !.stage = "initialize", !.alive = TRUE]
           s == Sending(c, o, "initialize")
<1>1. k \in Connection /\ k.stage = "opening"
  BY DEF Open, Ready, Sound
<1>2. /\ k.owed = {} /\ Len(k.wire) = 0 /\ k.request = Nil /\ k.post = "none" /\ k.reply = Nil
  BY <1>1 DEF Ready, Sound
<1>3. o \in Connection
  BY <1>1 DEF Connection, Stages, Connecting
<1>4. /\ o.request = Nil /\ o.post = "none" /\ o.reply = Nil /\ o.slot = k.slot
      /\ o.owed = k.owed /\ o.wire = k.wire /\ o.sent = k.sent
      /\ o.abandoned = k.abandoned /\ o.stage = "initialize"
  BY <1>1, <1>2 DEF Connection
<1> HIDE DEF o, k
<1>5. Sound(c, o, nextId)
  BY <1>1, <1>2, <1>3, <1>4, RestagedSound DEF Onward, Ready, k
<1>6. Sound(c, s, nextId)
  BY <1>2, <1>4, <1>5, SendingSound DEF Ready, Methods, ResourceCalls
<1>7. s.stage = "initialize" /\ s.abandoned = k.abandoned
  BY <1>3, <1>4 DEF Sending, Connection
<1> HIDE DEF s
<1>8. Keeps(k, s) /\ Reported(c, s)
  BY <1>1, <1>7 DEF Keeps, Reported, Connecting, Open
<1> QED BY <1>6, <1>8, StepsWith DEF Open, s, o, k

LEMMA NotifySteps ==
  ASSUME NEW c \in Conns, Ready(c), Notify(c)
  PROVE  Steps(c, nextId)
<1> DEFINE k == conn[c]
           o == [k EXCEPT !.stage = "tools"]
           s == Sending(c, o, "tools/list")
<1>1. k \in Connection /\ k.stage = "notify"
  BY DEF Notify, Ready, Sound
<1>2. k.request = Nil /\ k.post = "none" /\ k.reply = Nil
  BY <1>1 DEF Ready, Sound, Asked
<1>3. o \in Connection
  BY <1>1 DEF Connection, Stages, Connecting
<1>4. /\ o.request = Nil /\ o.post = "none" /\ o.reply = Nil /\ o.slot = k.slot
      /\ o.owed = k.owed /\ o.wire = k.wire /\ o.sent = k.sent
      /\ o.abandoned = k.abandoned /\ o.stage = "tools"
  BY <1>1, <1>2 DEF Connection
<1>5. /\ \A r \in k.owed : r.id = 1
      /\ \A i \in 1..Len(k.wire) : k.wire[i].id = 1 \/ (k.wire[i].body = "stray" /\ k.wire[i].n = 0)
  BY <1>1 DEF Ready, Sound, Owes, Ours, Told
<1> HIDE DEF o, k
<1>6. Sound(c, o, nextId)
  BY <1>1, <1>2, <1>3, <1>4, RestagedSound DEF Onward, Ready, k
<1>7. Sound(c, s, nextId)
  BY <1>4, <1>5, <1>6, SendingSound DEF Ready, Methods, ResourceCalls
<1>8. s.stage = "tools" /\ s.abandoned = k.abandoned
  BY <1>3, <1>4 DEF Sending, Connection
<1> HIDE DEF s
<1>9. Keeps(k, s) /\ Reported(c, s)
  BY <1>1, <1>8 DEF Keeps, Reported, Connecting, Notify
<1> QED BY <1>7, <1>9, StepsWith DEF Notify, s, o, k

(***************************************************************************)
(* A request handed over: the server owes an answer.                       *)
(***************************************************************************)
LEMMA OwedSteps ==
  ASSUME NEW c \in Conns, Ready(c), NEW post \in {"arrived", "done"}, conn[c].post = "flying",
         Become(c, [conn[c] EXCEPT !.post = post, !.owed = @ \cup {conn[c].request}]),
         UNCHANGED outcome
  PROVE  Steps(c, nextId)
<1> DEFINE k == conn[c]
           s == [k EXCEPT !.post = post, !.owed = @ \cup {k.request}]
<1>1. k \in Connection /\ k.request # Nil /\ k.request \in Request
  BY DEF Ready, Sound, Connection
<1>2. s \in Connection
  BY <1>1 DEF Connection
<1>3. /\ s.request = k.request /\ s.post = post /\ s.reply = k.reply /\ s.slot = k.slot
      /\ s.owed = k.owed \cup {k.request} /\ s.wire = k.wire /\ s.sent = k.sent
      /\ s.abandoned = k.abandoned /\ s.stage = k.stage /\ s.tools = k.tools /\ s.alive = k.alive
  BY <1>1 DEF Connection
<1>4. Sound(c, k, nextId) /\ Asked(k) /\ k.request.id < nextId
  BY <1>1 DEF Ready, Sound
<1>5. Become(c, s)
  OBVIOUS
<1> HIDE DEF s, k
<1>6. \A id, n : Told(k, nextId, id, n) => Told(s, nextId, id, n)
  BY <1>3 DEF Told
<1>7. Told(s, nextId, k.request.id, k.request.n)
  BY <1>1, <1>3, <1>4 DEF Told, Asked, Request
<1>8. \A r \in s.owed : Owes(c, s, nextId, r)
  BY <1>1, <1>3, <1>4, <1>6, <1>7 DEF Sound, Owes
<1>9. \A i \in 1..Len(s.wire) : Ours(c, s, nextId, s.wire[i])
  BY <1>3, <1>4, <1>6 DEF Sound, Ours, Due
<1>10. s.reply # Nil => Ours(c, s, nextId, s.reply)
  BY <1>3, <1>4, <1>6 DEF Sound, Ours, Due
<1>11. OneAnswer(k) /\ k.post = "flying"
  BY <1>4 DEF Sound, k
<1>12. OneAnswer(s)
  BY <1>1, <1>3, <1>11 DEF OneAnswer, NotOwed, NotOnWire, NotHeard
<1>13. SlotsKept(c, s) /\ Asked(s)
  BY <1>3, <1>4 DEF Sound, SlotsKept, Asked
<1>14. s.stage \notin {"idle", "opening", "failed"}
  BY <1>1, <1>3, <1>4 DEF Sound
<1>15. s.post # "none"
  BY <1>3
<1>16. Sound(c, s, nextId)
  BY <1>1, <1>2, <1>3, <1>4, <1>8, <1>9, <1>10, <1>12, <1>13, <1>14, <1>15 DEF Sound
<1>17. Keeps(k, s) /\ Reported(c, s)
  BY <1>1, <1>3, <1>4 DEF Keeps, Reported, Asked
<1> QED BY <1>5, <1>16, <1>17, StepsWith DEF k

(***************************************************************************)
(* A connection some of whose lines, debts and senders are gone.           *)
(***************************************************************************)
Thinned(c, k, s, d) ==
  /\ s.request = k.request /\ s.stage = k.stage /\ s.sent = k.sent
  /\ s.abandoned = k.abandoned /\ s.tools = k.tools
  /\ s.alive => k.alive
  /\ (s.post = "none") = (k.post = "none")
  /\ s.owed \subseteq k.owed
  /\ \A i \in 1..Len(s.wire) : i + d \in 1..Len(k.wire) /\ s.wire[i] = k.wire[i + d]
  /\ \A i \in DOMAIN s.slot : i \in DOMAIN k.slot /\ s.slot[i] = k.slot[i]

LEMMA ThinnedSound ==
  ASSUME NEW c \in Conns, NEW lim \in Nat, NEW k, Sound(c, k, lim),
         NEW s \in Connection, NEW d \in Nat, Thinned(c, k, s, d), OneAnswer(s),
         s.reply # Nil => /\ Transport[c] = "sse" /\ k.request # Nil /\ s.reply.id = k.request.id
                          /\ Ours(c, k, lim, s.reply)
  PROVE  Sound(c, s, lim) /\ Keeps(k, s)
<1>1. \A id, n : Told(k, lim, id, n) => Told(s, lim, id, n)
  BY DEF Told, Thinned
<1>2. \A r \in s.owed : Owes(c, s, lim, r)
  BY <1>1 DEF Sound, Owes, Thinned
<1>3. \A l : Ours(c, k, lim, l) => Ours(c, s, lim, l)
  BY <1>1 DEF Ours, Due, Thinned
<1>4. \A i \in 1..Len(s.wire) : Ours(c, s, lim, s.wire[i])
  BY <1>3 DEF Sound, Thinned
<1>5. SlotsKept(c, s)
  BY DEF Sound, SlotsKept, Thinned
<1>6. s.request # Nil => Asked(s) /\ s.request.id < lim
  BY DEF Sound, Asked, Thinned
<1>7. s.stage \in {"idle", "opening", "failed"} => s.owed = {} /\ Len(s.wire) = 0 /\ s.request = Nil
  <2>1. ASSUME s.stage \in {"idle", "opening", "failed"} PROVE Len(s.wire) = 0
    <3>1. Len(k.wire) = 0
      BY <2>1 DEF Sound, Thinned
    <3>2. \A i \in 1..Len(s.wire) : FALSE
      BY <3>1 DEF Thinned
    <3>3. s.wire \in Seq(Line) /\ Len(s.wire) \in Nat
      BY DEF Connection
    <3> QED BY <3>2, <3>3
  <2> QED BY <2>1 DEF Sound, Thinned
<1>8. s.reply # Nil => Ours(c, s, lim, s.reply)
  BY <1>3
<1>9. Sound(c, s, lim)
  BY <1>2, <1>4, <1>5, <1>6, <1>7, <1>8 DEF Sound, Thinned
<1> QED BY <1>6, <1>9 DEF Keeps, Thinned, Asked

(* The first line taken from the wire.                                     *)
LEMMA HeadTaken ==
  ASSUME NEW c \in Conns, NEW lim \in Nat, NEW k, Sound(c, k, lim), k.wire # <<>>
  PROVE  LET s == [k EXCEPT !.wire = Tail(@)]
             l == Head(k.wire) IN
         /\ Sound(c, s, lim) /\ Keeps(k, s)
         /\ l \in Line /\ Ours(c, k, lim, l)
         /\ k.request # Nil /\ l.n = k.request.n => NotOwed(s) /\ NotOnWire(s) /\ NotHeard(s)
         /\ s.request = k.request /\ s.stage = k.stage /\ s.tools = k.tools /\ s.alive = k.alive
         /\ s.abandoned = k.abandoned /\ s.reply = k.reply /\ s.post = k.post /\ s.slot = k.slot
         /\ s.owed = k.owed /\ s.sent = k.sent /\ s.wire = Tail(k.wire)
<1> DEFINE s == [k EXCEPT !.wire = Tail(@)]
           l == Head(k.wire)
<1>1. k \in Connection /\ k.wire \in Seq(Line) /\ OneAnswer(k)
  BY DEF Sound, Connection
<1>2. /\ Tail(k.wire) \in Seq(Line) /\ l \in Line /\ l = k.wire[1] /\ 1 \in 1..Len(k.wire)
      /\ Len(Tail(k.wire)) = Len(k.wire) - 1 /\ Len(k.wire) \in Nat
      /\ \A i \in 1..Len(Tail(k.wire)) : i + 1 \in 1..Len(k.wire) /\ Tail(k.wire)[i] = k.wire[i + 1]
  BY <1>1
<1>3. s \in Connection
  BY <1>1, <1>2 DEF Connection
<1>4. /\ s.request = k.request /\ s.stage = k.stage /\ s.tools = k.tools /\ s.alive = k.alive
      /\ s.abandoned = k.abandoned /\ s.reply = k.reply /\ s.post = k.post /\ s.slot = k.slot
      /\ s.owed = k.owed /\ s.sent = k.sent /\ s.wire = Tail(k.wire)
  BY <1>1 DEF Connection
<1> HIDE DEF s, l
<1>5. Thinned(c, k, s, 1)
  BY <1>2, <1>4 DEF Thinned
<1>6. \A i \in 1..Len(s.wire) : i + 1 \in 1..Len(k.wire) /\ s.wire[i] = k.wire[i + 1] /\ i + 1 # 1
  BY <1>2, <1>4
<1>7. k.request # Nil => (NotOnWire(k) => NotOnWire(s)) /\ (NotOwed(k) => NotOwed(s)) /\ (NotHeard(k) => NotHeard(s))
  BY <1>4, <1>6 DEF NotOnWire, NotOwed, NotHeard
<1>8. ASSUME k.request # Nil
      PROVE  \A i, j \in 1..Len(s.wire) : s.wire[i].n = k.request.n /\ s.wire[j].n = k.request.n => i = j
  <2>1. \A i, j \in 1..Len(k.wire) : k.wire[i].n = k.request.n /\ k.wire[j].n = k.request.n => i = j
    BY <1>1, <1>8 DEF OneAnswer
  <2> TAKE i, j \in 1..Len(s.wire)
  <2>2. s.wire[i].n = k.request.n /\ s.wire[j].n = k.request.n => i + 1 = j + 1
    BY <1>6, <2>1
  <2> QED BY <2>2
<1>9. OneAnswer(s)
  BY <1>1, <1>4, <1>7, <1>8 DEF OneAnswer
<1>13. s.reply # Nil => /\ Transport[c] = "sse" /\ k.request # Nil /\ s.reply.id = k.request.id
                        /\ Ours(c, k, lim, s.reply)
  BY <1>4 DEF Sound
<1>10. Sound(c, s, lim) /\ Keeps(k, s)
  BY <1>3, <1>5, <1>9, <1>13, ThinnedSound
<1>11. Ours(c, k, lim, l)
  BY <1>2 DEF Sound
<1>12. ASSUME k.request # Nil, l.n = k.request.n
       PROVE  NotOwed(s) /\ NotOnWire(s) /\ NotHeard(s)
  <2>1. ~NotOnWire(k)
    BY <1>2, <1>12 DEF NotOnWire
  <2>2. NotOwed(k) /\ NotHeard(k)
    BY <1>1, <1>12, <2>1 DEF OneAnswer
  <2>3. \A i \in 1..Len(s.wire) : s.wire[i].n # k.request.n
    BY <1>1, <1>2, <1>6, <1>12 DEF OneAnswer
  <2> QED BY <1>4, <1>7, <1>12, <2>2, <2>3 DEF NotOnWire
<1> QED BY <1>2, <1>4, <1>10, <1>11, <1>12 DEF s, l

LEMMA ReadSteps ==
  ASSUME NEW c \in Conns, Ready(c), Transport[c] # "sse", conn[c].post = "done", conn[c].wire # <<>>,
         Return(c, [conn[c] EXCEPT !.wire = Tail(@)], Head(conn[c].wire))
  PROVE  Steps(c, nextId)
<1> DEFINE k == conn[c]
           s == [k EXCEPT !.wire = Tail(@)]
           l == Head(k.wire)
<1>1. Sound(c, k, nextId) /\ k.request # Nil /\ nextId \in Nat
  BY DEF Ready, Sound
<1>2. /\ Sound(c, s, nextId) /\ Keeps(k, s)
      /\ l \in Line /\ Ours(c, k, nextId, l)
      /\ k.request # Nil /\ l.n = k.request.n => NotOwed(s) /\ NotOnWire(s) /\ NotHeard(s)
      /\ s.request = k.request /\ s.stage = k.stage /\ s.tools = k.tools
      /\ s.abandoned = k.abandoned
  BY <1>1, HeadTaken, ZenonT(60)
<1> HIDE DEF s, l
<1>3. Taken(s, l)
  BY <1>1, <1>2 DEF Taken
<1>4. Answers(c, s, nextId, l)
  BY <1>2 DEF Answers, Ours, Due, Told
<1>5. Return(c, s, l)
  BY DEF s, l
<1> HIDE DEF k
<1> QED BY <1>1, <1>2, <1>3, <1>4, <1>5, ReturnSteps DEF k

(* A request that returns with an error before any line.                   *)
LEMMA FailSteps ==
  ASSUME NEW c \in Conns, Ready(c), NEW k, Sound(c, k, nextId),
         k.request = conn[c].request, k.stage = conn[c].stage, k.tools = conn[c].tools,
         k.abandoned = conn[c].abandoned, conn[c].post # "none", Return(c, k, Nil)
  PROVE  Steps(c, nextId)
<1>1. conn[c].request # Nil
  BY DEF Ready, Sound
<1>2. Taken(k, Nil) /\ Answers(c, k, nextId, Nil)
  BY DEF Taken, Answers
<1> QED BY <1>1, <1>2, ReturnSteps DEF Ready

LEMMA RefusedSteps ==
  ASSUME NEW c \in Conns, Ready(c), PostRefused(c)
  PROVE  Steps(c, nextId)
<1> DEFINE k == conn[c]
           f == [i \in DOMAIN k.slot \ {k.request.id} |-> k.slot[i]]
           s == [k EXCEPT !.slot = f]
<1>1. k \in Connection /\ Sound(c, k, nextId) /\ nextId \in Nat
  BY DEF Ready, Sound
<1>2. f \in Slots
  <2>1. PICK S \in SUBSET Ids : k.slot \in [S -> Nat]
    BY <1>1 DEF Slots, Connection
  <2>2. f \in [S \ {k.request.id} -> Nat]
    BY <2>1
  <2> QED BY <2>2 DEF Slots
<1>3. \A i \in DOMAIN f : i \in DOMAIN k.slot /\ f[i] = k.slot[i]
  OBVIOUS
<1>4. Return(c, s, Nil) /\ k.post # "none"
  BY DEF PostRefused
<1> HIDE DEF f
<1>5. s \in Connection
  BY <1>1, <1>2 DEF Connection
<1>6. /\ s.request = k.request /\ s.stage = k.stage /\ s.tools = k.tools /\ s.alive = k.alive
      /\ s.abandoned = k.abandoned /\ s.reply = k.reply /\ s.post = k.post /\ s.slot = f
      /\ s.owed = k.owed /\ s.sent = k.sent /\ s.wire = k.wire
  BY <1>1 DEF Connection
<1> HIDE DEF s
<1>7. Len(k.wire) \in Nat
  BY <1>1 DEF Connection
<1>8. Thinned(c, k, s, 0)
  BY <1>3, <1>6, <1>7 DEF Thinned
<1>9. OneAnswer(s)
  BY <1>1, <1>6 DEF Sound, OneAnswer, NotOwed, NotOnWire, NotHeard
<1>10. s.reply # Nil => /\ Transport[c] = "sse" /\ k.request # Nil /\ s.reply.id = k.request.id
                        /\ Ours(c, k, nextId, s.reply)
  BY <1>1, <1>6 DEF Sound
<1>11. Sound(c, s, nextId)
  BY <1>1, <1>5, <1>8, <1>9, <1>10, ThinnedSound
<1> HIDE DEF k
<1> QED BY <1>4, <1>6, <1>11, FailSteps DEF k

LEMMA AcceptedSteps ==
  ASSUME NEW c \in Conns, Ready(c), PostAccepted(c)
  PROVE  Steps(c, nextId)
<1> DEFINE k == conn[c]
           s == [k EXCEPT !.post = "done"]
<1>1. k \in Connection /\ Sound(c, k, nextId) /\ nextId \in Nat /\ k.post = "arrived"
  BY DEF Ready, Sound, PostAccepted
<1>2. s \in Connection
  BY <1>1 DEF Connection
<1>3. /\ s.request = k.request /\ s.stage = k.stage /\ s.tools = k.tools /\ s.alive = k.alive
      /\ s.abandoned = k.abandoned /\ s.reply = k.reply /\ s.post = "done" /\ s.slot = k.slot
      /\ s.owed = k.owed /\ s.sent = k.sent /\ s.wire = k.wire
  BY <1>1 DEF Connection
<1>4. Become(c, s) /\ UNCHANGED outcome
  BY DEF PostAccepted
<1> HIDE DEF s
<1>5. Len(k.wire) \in Nat
  BY <1>1 DEF Connection
<1>6. Thinned(c, k, s, 0)
  BY <1>1, <1>3, <1>5 DEF Thinned
<1>7. OneAnswer(s)
  BY <1>1, <1>3 DEF Sound, OneAnswer, NotOwed, NotOnWire, NotHeard
<1>8. s.reply # Nil => /\ Transport[c] = "sse" /\ k.request # Nil /\ s.reply.id = k.request.id
                       /\ Ours(c, k, nextId, s.reply)
  BY <1>1, <1>3 DEF Sound
<1>9. Sound(c, s, nextId) /\ Keeps(k, s)
  BY <1>1, <1>2, <1>6, <1>7, <1>8, ThinnedSound
<1> HIDE DEF k
<1> QED BY <1>4, <1>9, StepsWith DEF Reported, k

LEMMA DieSteps ==
  ASSUME NEW c \in Conns, Ready(c), Die(c)
  PROVE  Steps(c, nextId)
<1> DEFINE k == conn[c]
           s == [k EXCEPT !.alive = FALSE, !.owed = {}]
<1>1. k \in Connection /\ Sound(c, k, nextId) /\ nextId \in Nat
  BY DEF Ready, Sound
<1>2. s \in Connection
  BY <1>1 DEF Connection
<1>3. /\ s.request = k.request /\ s.stage = k.stage /\ s.tools = k.tools /\ s.alive = FALSE
      /\ s.abandoned = k.abandoned /\ s.reply = k.reply /\ s.post = k.post /\ s.slot = k.slot
      /\ s.owed = {} /\ s.sent = k.sent /\ s.wire = k.wire
  BY <1>1 DEF Connection
<1>4. Become(c, s) /\ UNCHANGED outcome
  BY DEF Die
<1> HIDE DEF s
<1>5. Len(k.wire) \in Nat
  BY <1>1 DEF Connection
<1>6. Thinned(c, k, s, 0)
  BY <1>1, <1>3, <1>5 DEF Thinned
<1>7. OneAnswer(s)
  BY <1>1, <1>3 DEF Sound, OneAnswer, NotOwed, NotOnWire, NotHeard
<1>8. s.reply # Nil => /\ Transport[c] = "sse" /\ k.request # Nil /\ s.reply.id = k.request.id
                       /\ Ours(c, k, nextId, s.reply)
  BY <1>1, <1>3 DEF Sound
<1>9. Sound(c, s, nextId) /\ Keeps(k, s)
  BY <1>1, <1>2, <1>6, <1>7, <1>8, ThinnedSound
<1> HIDE DEF k
<1> QED BY <1>4, <1>9, StepsWith DEF Reported, k

LEMMA TakeReplySteps ==
  ASSUME NEW c \in Conns, Ready(c), TakeReply(c)
  PROVE  Steps(c, nextId)
<1> DEFINE k == conn[c]
<1>1. /\ Sound(c, k, nextId) /\ nextId \in Nat /\ k.reply # Nil /\ k.request # Nil /\ OneAnswer(k)
      /\ Return(c, k, k.reply)
  BY DEF Ready, Sound, TakeReply
<1>2. Taken(k, k.reply)
  BY <1>1 DEF Taken, OneAnswer, NotHeard
<1>3. Answers(c, k, nextId, k.reply)
  BY <1>1 DEF Answers, Sound
<1> HIDE DEF k
<1> QED BY <1>1, <1>2, <1>3, ReturnSteps DEF k

LEMMA ListenSteps ==
  ASSUME NEW c \in Conns, Ready(c), Listen(c)
  PROVE  Steps(c, nextId)
<1> DEFINE k == conn[c]
           line == Head(k.wire)
           hit == line.id \in DOMAIN k.slot
           heard == hit /\ k.request # Nil /\ k.slot[line.id] = k.request.n
           slot == IF hit THEN [i \in DOMAIN k.slot \ {line.id} |-> k.slot[i]] ELSE k.slot
           reply == IF heard THEN line ELSE k.reply
           s == [k EXCEPT !.wire = Tail(@), !.slot = slot, !.reply = reply]
           t == [k EXCEPT !.wire = Tail(@)]
<1>1. /\ k \in Connection /\ Sound(c, k, nextId) /\ nextId \in Nat /\ Transport[c] = "sse"
      /\ k.wire # <<>> /\ SlotsKept(c, k)
  BY DEF Ready, Sound, Listen
<1>2. /\ Sound(c, t, nextId) /\ Keeps(k, t)
      /\ line \in Line /\ Ours(c, k, nextId, line)
      /\ k.request # Nil /\ line.n = k.request.n => NotOwed(t) /\ NotOnWire(t) /\ NotHeard(t)
      /\ t.request = k.request /\ t.stage = k.stage /\ t.tools = k.tools /\ t.alive = k.alive
      /\ t.abandoned = k.abandoned /\ t.reply = k.reply /\ t.post = k.post /\ t.slot = k.slot
      /\ t.owed = k.owed /\ t.sent = k.sent /\ t.wire = Tail(k.wire)
  BY <1>1, HeadTaken, ZenonT(60)
<1>3. slot \in Slots
  <2>1. PICK S \in SUBSET Ids : k.slot \in [S -> Nat]
    BY <1>1 DEF Slots, Connection
  <2>2. [i \in DOMAIN k.slot \ {line.id} |-> k.slot[i]] \in [S \ {line.id} -> Nat]
    BY <2>1
  <2>3. [i \in DOMAIN k.slot \ {line.id} |-> k.slot[i]] \in Slots
    BY <2>2 DEF Slots
  <2> QED BY <1>1, <2>3 DEF Connection
<1>4. \A i \in DOMAIN slot : i \in DOMAIN k.slot /\ slot[i] = k.slot[i]
  OBVIOUS
<1>5. reply \in Line \cup {Nil}
  BY <1>1, <1>2 DEF Connection
<1>6. heard => k.request # Nil /\ line.id = k.request.id
  BY <1>1 DEF SlotsKept
<1>7. Become(c, s) /\ UNCHANGED outcome
  BY DEF Listen
<1>8. Tail(k.wire) \in Seq(Line)
  BY <1>1 DEF Connection
<1>9. reply = k.reply \/ (reply = line /\ heard)
  OBVIOUS
<1> HIDE DEF slot, reply, heard, line, t
<1>10. s \in Connection
  BY <1>1, <1>3, <1>5, <1>8 DEF Connection
<1>11. /\ s.request = k.request /\ s.stage = k.stage /\ s.tools = k.tools /\ s.alive = k.alive
       /\ s.abandoned = k.abandoned /\ s.reply = reply /\ s.post = k.post /\ s.slot = slot
       /\ s.owed = k.owed /\ s.sent = k.sent /\ s.wire = Tail(k.wire)
  BY <1>1 DEF Connection
<1> HIDE DEF s
<1>12. Len(t.wire) \in Nat
  BY <1>2 DEF Sound, Connection
<1>13. Thinned(c, t, s, 0)
  BY <1>2, <1>4, <1>11, <1>12 DEF Thinned
<1>14. OneAnswer(t)
  BY <1>2 DEF Sound
<1>15. OneAnswer(s)
  <2>1. CASE reply = k.reply
    BY <1>2, <1>11, <1>14, <2>1 DEF OneAnswer, NotOwed, NotOnWire, NotHeard
  <2>2. CASE reply = line /\ heard
    <3>1. CASE line.n = k.request.n
      <4>1. NotOwed(t) /\ NotOnWire(t) /\ k.post # "flying"
        <5>1. ~NotOnWire(k)
          <6>1. line = k.wire[1] /\ 1 \in 1..Len(k.wire)
            BY <1>1 DEF Connection, line
          <6> QED BY <3>1, <6>1 DEF NotOnWire
        <5> QED BY <1>1, <1>2, <1>6, <2>2, <3>1, <5>1 DEF Sound, OneAnswer
      <4> QED BY <1>2, <1>11, <1>14, <4>1 DEF OneAnswer, NotOwed, NotOnWire, NotHeard
    <3>2. CASE line.n # k.request.n
      <4>1. NotHeard(s)
        BY <1>11, <2>2, <3>2 DEF NotHeard
      <4> QED BY <1>2, <1>11, <1>14, <4>1 DEF OneAnswer, NotOwed, NotOnWire
    <3> QED BY <3>1, <3>2
  <2> QED BY <1>9, <2>1, <2>2
<1>16. Ours(c, t, nextId, line)
  BY <1>2 DEF Ours, Due, Told
<1>17. s.reply # Nil => /\ Transport[c] = "sse" /\ t.request # Nil /\ s.reply.id = t.request.id
                        /\ Ours(c, t, nextId, s.reply)
  BY <1>1, <1>2, <1>6, <1>9, <1>11, <1>16 DEF Sound
<1>18. Sound(c, s, nextId) /\ Keeps(t, s)
  BY <1>1, <1>2, <1>10, <1>13, <1>15, <1>17, ThinnedSound
<1>19. Keeps(k, s)
  BY <1>2, <1>11, <1>18 DEF Keeps
<1> HIDE DEF k
<1> QED BY <1>7, <1>18, <1>19, StepsWith DEF Reported, k

(***************************************************************************)
(* A line a server writes.                                                 *)
(***************************************************************************)
LEMMA AppendedSteps ==
  ASSUME NEW c \in Conns, Ready(c), conn[c].alive, conn[c].stage # "failed",
         NEW l \in Line, Ours(c, conn[c], nextId, l), NEW owed \in SUBSET conn[c].owed,
         conn[c].request # Nil /\ l.n = conn[c].request.n =>
           /\ NotOnWire(conn[c]) /\ NotHeard(conn[c]) /\ conn[c].post # "flying"
           /\ \A r \in owed : r.n # conn[c].request.n,
         Become(c, [conn[c] EXCEPT !.owed = owed, !.wire = Append(@, l)]), UNCHANGED outcome
  PROVE  Steps(c, nextId)
<1> DEFINE k == conn[c]
           s == [k EXCEPT !.owed = owed, !.wire = Append(@, l)]
<1>1. k \in Connection /\ Sound(c, k, nextId) /\ nextId \in Nat /\ OneAnswer(k) /\ k.wire \in Seq(Line)
  BY DEF Ready, Sound, Connection
<1>2. /\ Append(k.wire, l) \in Seq(Line) /\ Len(k.wire) \in Nat
      /\ Len(Append(k.wire, l)) = Len(k.wire) + 1 /\ Append(k.wire, l)[Len(k.wire) + 1] = l
      /\ \A i \in 1..Len(k.wire) : Append(k.wire, l)[i] = k.wire[i]
  BY <1>1
<1>3. owed \in SUBSET Request
  BY <1>1 DEF Connection
<1>4. s \in Connection
  BY <1>1, <1>2, <1>3 DEF Connection
<1>5. /\ s.request = k.request /\ s.stage = k.stage /\ s.tools = k.tools /\ s.alive = k.alive
      /\ s.abandoned = k.abandoned /\ s.reply = k.reply /\ s.post = k.post /\ s.slot = k.slot
      /\ s.owed = owed /\ s.sent = k.sent /\ s.wire = Append(k.wire, l)
  BY <1>1 DEF Connection
<1>6. Become(c, s)
  OBVIOUS
<1> HIDE DEF s
<1>7. \A i \in 1..Len(s.wire) :
        \/ i \in 1..Len(k.wire) /\ s.wire[i] = k.wire[i]
        \/ i = Len(k.wire) + 1 /\ s.wire[i] = l
  BY <1>2, <1>5
<1>8. \A id, n : Told(k, nextId, id, n) => Told(s, nextId, id, n)
  BY <1>5 DEF Told
<1>9. \A x : Ours(c, k, nextId, x) => Ours(c, s, nextId, x)
  BY <1>5, <1>8 DEF Ours, Due
<1>10. \A i \in 1..Len(s.wire) : Ours(c, s, nextId, s.wire[i])
  BY <1>1, <1>7, <1>9 DEF Sound
<1>11. \A r \in s.owed : Owes(c, s, nextId, r)
  BY <1>1, <1>5, <1>8 DEF Sound, Owes
<1>12. s.reply # Nil => Ours(c, s, nextId, s.reply)
  BY <1>1, <1>5, <1>9 DEF Sound
<1>13. /\ SlotsKept(c, s)
       /\ s.request # Nil => Asked(s) /\ s.request.id < nextId
  BY <1>1, <1>5 DEF Sound, SlotsKept, Asked
<1>14. s.stage \notin {"idle", "opening", "failed"}
  BY <1>1, <1>5 DEF Sound
<1>15. OneAnswer(s)
  <2>1. CASE k.request = Nil
    BY <1>5, <2>1 DEF OneAnswer
  <2>2. CASE k.request # Nil /\ l.n # k.request.n
    <3>1. NotOnWire(k) => NotOnWire(s)
      BY <1>5, <1>7, <2>2 DEF NotOnWire
    <3>2. (NotOwed(k) => NotOwed(s)) /\ (NotHeard(k) => NotHeard(s))
      BY <1>5 DEF NotOwed, NotHeard
    <3>3. \A i, j \in 1..Len(s.wire) : s.wire[i].n = k.request.n /\ s.wire[j].n = k.request.n => i = j
      BY <1>1, <1>7, <2>2 DEF OneAnswer
    <3> QED BY <1>1, <1>5, <2>2, <3>1, <3>2, <3>3 DEF OneAnswer
  <2>3. CASE k.request # Nil /\ l.n = k.request.n
    <3>1. NotOnWire(k) /\ NotHeard(k) /\ k.post # "flying" /\ \A r \in owed : r.n # k.request.n
      BY <2>3
    <3>2. NotOwed(s) /\ NotHeard(s)
      BY <1>5, <3>1 DEF NotOwed, NotHeard
    <3>3. \A i \in 1..Len(s.wire) : s.wire[i].n = k.request.n => i = Len(k.wire) + 1
      BY <1>7, <3>1 DEF NotOnWire
    <3> HIDE DEF k
    <3>4. \A i, j \in 1..Len(s.wire) : s.wire[i].n = k.request.n /\ s.wire[j].n = k.request.n => i = j
      BY <3>3
    <3> QED BY <1>5, <3>1, <3>2, <3>4 DEF OneAnswer
  <2> QED BY <2>1, <2>2, <2>3
<1>16. Sound(c, s, nextId)
  BY <1>1, <1>4, <1>5, <1>10, <1>11, <1>12, <1>13, <1>14, <1>15 DEF Sound
<1>17. Keeps(k, s) /\ Reported(c, s)
  BY <1>5, <1>13 DEF Keeps, Reported, Asked
<1> HIDE DEF k
<1> QED BY <1>6, <1>16, <1>17, StepsWith DEF k

LEMMA AnswerSteps ==
  ASSUME NEW c \in Conns, Ready(c), Answer(c)
  PROVE  Steps(c, nextId)
<1> DEFINE k == conn[c]
           l(r, b) == [id |-> r.id, n |-> r.n, method |-> r.method, body |-> b]
<1>1. PICK r \in k.owed, b \in {"result", "error"} :
        Become(c, [k EXCEPT !.owed = @ \ {r}, !.wire = Append(@, l(r, b))])
  BY DEF Answer
<1>2. k \in Connection /\ k.alive /\ Sound(c, k, nextId) /\ UNCHANGED outcome
  BY DEF Ready, Sound, Answer
<1>3. k.owed \ {r} \in SUBSET k.owed /\ r \in Request
  BY <1>2 DEF Connection
<1>4. l(r, b) \in Line
  BY <1>3 DEF Request, Line, Ids
<1>5. k.stage # "failed" /\ Owes(c, k, nextId, r) /\ OneAnswer(k)
  BY <1>2 DEF Sound
<1> DEFINE x == l(r, b)
<1>6. x.id = r.id /\ x.n = r.n
  OBVIOUS
<1>7. Become(c, [k EXCEPT !.owed = k.owed \ {r}, !.wire = Append(@, x)])
  BY <1>1
<1>8. x \in Line
  BY <1>4
<1> HIDE DEF x, l
<1>9. Ours(c, k, nextId, x)
  BY <1>5, <1>6 DEF Owes, Ours, Due
<1>10. ASSUME k.request # Nil, x.n = k.request.n
       PROVE  /\ NotOnWire(k) /\ NotHeard(k) /\ k.post # "flying"
              /\ \A q \in k.owed \ {r} : q.n # k.request.n
  <2>1. ~NotOwed(k)
    BY <1>6, <1>10 DEF NotOwed
  <2>2. k.request.n \notin k.abandoned
    BY <1>2, <1>10 DEF Sound, Asked
  <2>3. \A q \in k.owed : q.n = k.request.n => q = k.request
    BY <1>2, <2>2 DEF Sound, Owes
  <2> QED BY <1>5, <1>6, <1>10, <2>1, <2>3 DEF OneAnswer
<1> HIDE DEF k
<1> QED BY <1>2, <1>3, <1>5, <1>7, <1>8, <1>9, <1>10, AppendedSteps DEF k

LEMMA StraySteps ==
  ASSUME NEW c \in Conns, Ready(c), Stray(c)
  PROVE  Steps(c, nextId)
<1> DEFINE k == conn[c]
           l(i) == [id |-> i, n |-> 0, method |-> Nil, body |-> "stray"]
<1>1. PICK i \in {0, Nil} : Become(c, [k EXCEPT !.wire = Append(@, l(i))])
  BY DEF Stray
<1>2. k \in Connection /\ k.alive /\ Sound(c, k, nextId) /\ UNCHANGED outcome /\ k.stage # "failed"
  BY DEF Ready, Sound, Stray
<1>3. l(i) \in Line
  BY DEF Line, Ids
<1> DEFINE x == l(i)
<1>4. x.n = 0 /\ x.body = "stray"
  OBVIOUS
<1>5. [k EXCEPT !.wire = Append(@, x)] = [k EXCEPT !.owed = k.owed, !.wire = Append(@, x)]
  BY <1>2 DEF Connection
<1>6. Become(c, [k EXCEPT !.owed = k.owed, !.wire = Append(@, x)])
  BY <1>1, <1>5
<1>7. x \in Line
  BY <1>3
<1> HIDE DEF x, l
<1>8. Ours(c, k, nextId, x)
  BY <1>4 DEF Ours
<1>9. k.request # Nil => x.n # k.request.n
  BY <1>2, <1>4 DEF Sound, Asked
<1> HIDE DEF k
<1> QED BY <1>2, <1>6, <1>7, <1>8, <1>9, AppendedSteps DEF k

(***************************************************************************)
(* Every step of a client or a server.                                     *)
(***************************************************************************)
LEMMA OneSteps ==
  ASSUME NEW c \in Conns, Ready(c), ClientStep(c) \/ Answer(c) \/ Stray(c) \/ Die(c)
  PROVE  Steps(c, nextId)
<1> DEFINE k == conn[c]
<1>1. /\ Sound(c, k, nextId) /\ k \in Connection
      /\ k.post \in {"flying", "arrived", "done"} => k.post # "none" /\ k.request # Nil
  BY DEF Ready, Sound
<1>2. CASE WriteLine(c)
  <2>1. CASE k.alive
    <3>1. Become(c, [k EXCEPT !.post = "done", !.owed = @ \cup {k.request}]) /\ UNCHANGED outcome
      BY <1>2, <2>1 DEF WriteLine
    <3> QED BY <1>2, <3>1, OwedSteps DEF WriteLine
  <2>2. CASE ~k.alive
    BY <1>1, <1>2, <2>2, FailSteps DEF WriteLine
  <2> QED BY <2>1, <2>2
<1>3. CASE Arrive(c)
  BY <1>3, OwedSteps DEF Arrive
<1>4. CASE ReadLine(c)
  BY <1>4, ReadSteps DEF ReadLine
<1>5. CASE ReadBody(c)
  BY <1>5, ReadSteps DEF ReadBody
<1>6. CASE ReadEof(c)
  BY <1>1, <1>6, FailSteps DEF ReadEof
<1>7. CASE BodyEnds(c)
  BY <1>1, <1>7, FailSteps DEF BodyEnds
<1>8. CASE PostFails(c)
  BY <1>1, <1>8, FailSteps DEF PostFails
<1>9. CASE OpenFails(c) \/ NotifyFails(c) \/ StartupTimeout(c)
  BY <1>9, DropSteps DEF OpenFails, NotifyFails, StartupTimeout, Connecting
<1> QED BY <1>2, <1>3, <1>4, <1>5, <1>6, <1>7, <1>8, <1>9, OpenSteps, NotifySteps, RefusedSteps,
           AcceptedSteps, ListenSteps, TakeReplySteps, AnswerSteps, StraySteps, DieSteps DEF ClientStep

-----------------------------------------------------------------------------
(***************************************************************************)
(* Where a connection can be in each phase of the session.                 *)
(***************************************************************************)
Added == deployment.added
Decided == {"up", "failed"}

Placed(c, k) ==
  /\ c \notin Configured \cup Added => k.stage = "idle"
  /\ phase \in {"connect", "skills"} => (c \in Added => k.stage = "idle")
  /\ phase \in {"connect", "inject"} => (k.stage = "up" => k.request = Nil)
  /\ phase \in {"skills", "inject"} => (c \in Configured => k.stage \in Decided)
  /\ phase = "inject" => (c \in ready => k.stage \in Decided)
  /\ phase \in {"serve", "closed"} => k.stage \in Decided \cup {"idle"}
  /\ phase = "closed" => k.request = Nil

Phases ==
  /\ deployment \in Deployments /\ phase \in {"connect", "skills", "inject", "serve", "closed"}
  /\ nextId \in Nat /\ nextId >= 10 /\ faults \in 0..MaxFaults
  /\ ready \subseteq Added /\ (phase \in {"connect", "skills"} => ready = {})

Alone ==
  phase \in {"skills", "serve"} =>
    \A c, d \in Conns : conn[c].request # Nil /\ conn[d].request # Nil => c = d

Offered == \A e \in registry :
  e.conn \in Conns /\ conn[e.conn].stage = "up" /\ e.tool \in conn[e.conn].tools

OutcomeExcused == outcome # Nil =>
  outcome.conn \in Conns /\ Excused(conn[outcome.conn], outcome.conn, outcome)

McpInv ==
  /\ Phases
  /\ conn \in [Conns -> Connection]
  /\ \A c \in Conns : Sound(c, conn[c], nextId) /\ Placed(c, conn[c])
  /\ Alone /\ Offered /\ OutcomeExcused

LEMMA Groups ==
  ASSUME Phases
  PROVE  Configured \subseteq Conns /\ Added \subseteq Conns \ Configured
BY McpAssumption DEF Phases, Configured, Added

LEMMA McpInitInv == McpInit => McpInv
<1> SUFFICES ASSUME McpInit PROVE McpInv
  OBVIOUS
<1>1. Phases
  BY McpAssumption DEF McpInit, Phases
<1>2. \A c \in Conns : conn[c] = Fresh(c) /\ Sound(c, conn[c], nextId)
  BY FreshSound DEF McpInit
<1>3. conn \in [Conns -> Connection]
  BY <1>2 DEF McpInit, Sound
<1>4. \A c \in Conns : Placed(c, conn[c])
  BY <1>1, <1>2, Groups DEF Placed, Fresh, McpInit
<1>5. Alone /\ Offered /\ OutcomeExcused
  BY DEF McpInit, Alone, Offered, OutcomeExcused
<1> QED BY <1>1, <1>2, <1>3, <1>4, <1>5 DEF McpInv

LEMMA StepKeeps ==
  ASSUME NEW c \in Conns, McpInv, Steps(c, nextId), UNCHANGED manager, faults' \in 0..MaxFaults
  PROVE  McpInv'
<1>1. PICK s : Become(c, s) /\ Sound(c, s, nextId) /\ Keeps(conn[c], s) /\ Reported(c, s)
  BY DEF Steps
<1> DEFINE k == conn[c]
<1>2. /\ conn' = [conn EXCEPT ![c] = s] /\ conn \in [Conns -> Connection] /\ s \in Connection
      /\ Sound(c, k, nextId) /\ Placed(c, k)
  BY <1>1 DEF Become, McpInv, Sound
<1>3. /\ conn' \in [Conns -> Connection] /\ conn'[c] = s
      /\ \A d \in Conns : d # c => conn'[d] = conn[d]
  BY <1>2
<1>4. /\ deployment' = deployment /\ phase' = phase /\ registry' = registry
      /\ ready' = ready /\ nextId' = nextId
  BY DEF manager
<1>5. Phases'
  BY <1>4 DEF McpInv, Phases, Added
<1>6. Configured' = Configured /\ Added' = Added
  BY <1>4 DEF Configured, Added
<1>7. \A d \in Conns : Sound(d, conn'[d], nextId')
  BY <1>1, <1>3, <1>4 DEF McpInv
<1>8. /\ k.stage \notin Connecting => s.stage = k.stage
      /\ s.stage = "up" /\ s.request # Nil => k.stage = "up" /\ k.request # Nil
      /\ s.request # Nil => s.stage \in {"initialize", "tools", "up"}
  BY <1>1 DEF Keeps, Connecting
<1>9. Placed(c, s)
  BY <1>2, <1>8 DEF Placed, Decided, Connecting
<1>10. \A d \in Conns : Placed(d, conn[d])'
  BY <1>3, <1>4, <1>6, <1>9 DEF McpInv, Placed
<1>11. phase \in {"skills", "serve"} /\ s.request # Nil => k.request # Nil
  BY <1>8, <1>2, Groups DEF Placed, Decided, Connecting, McpInv
<1>12. Alone'
  BY <1>3, <1>4, <1>11 DEF McpInv, Alone
<1>13. Offered'
  BY <1>1, <1>3, <1>4, <1>8 DEF McpInv, Offered, Keeps, Connecting
<1>14. OutcomeExcused'
  <2>1. CASE outcome' = outcome
    BY <1>1, <1>3, <2>1 DEF McpInv, OutcomeExcused, Excused, Keeps
  <2>2. CASE outcome' = Nil
    BY <2>2 DEF OutcomeExcused
  <2>3. CASE outcome'.conn = c /\ Excused(s, c, outcome')
    BY <1>3, <2>3 DEF OutcomeExcused, Excused
  <2> QED BY <1>1, <2>1, <2>2, <2>3 DEF Reported
<1> QED BY <1>3, <1>5, <1>7, <1>10, <1>12, <1>13, <1>14 DEF McpInv

(***************************************************************************)
(* A request sent on a connection that is up.                              *)
(***************************************************************************)
LEMMA CallKeeps ==
  ASSUME NEW c \in Conns, McpInv, Quiet, conn[c].stage = "up",
         \/ /\ phase = "serve" /\ Become(c, Sending(c, conn[c], "tools/call")) /\ nextId' = nextId
         \/ /\ phase = "skills" /\ nextId' = nextId + 1
            /\ \E m \in ResourceCalls : Become(c, Sending(c, conn[c], m)),
         UNCHANGED <<deployment, phase, registry, ready, outcome, faults>>
  PROVE  McpInv'
<1> DEFINE k == conn[c]
<1>1. PICK m \in ResourceCalls \cup {"tools/call"} :
        /\ Become(c, Sending(c, k, m))
        /\ m \in ResourceCalls => nextId' > nextId
        /\ nextId' \in Nat /\ nextId' >= nextId
  BY DEF McpInv, Phases, ResourceCalls
<1> DEFINE s == Sending(c, k, m)
<1>2. Sound(c, k, nextId) /\ k.request = Nil /\ nextId \in Nat /\ nextId >= 10 /\ k \in Connection
  BY DEF McpInv, Phases, Quiet, Sound
<1>3. Sound(c, s, nextId')
  <2> DEFINE lim == nextId'
  <2>1. lim \in Nat /\ lim >= nextId /\ (m \in ResourceCalls => lim > nextId) /\ m \in Methods
    BY <1>1 DEF Methods
  <2> HIDE DEF lim, k
  <2>2. k.stage = "up"
    BY DEF k
  <2>3. Sound(c, Sending(c, k, m), lim)
    BY <1>2, <2>1, <2>2, SendingSound
  <2> QED BY <2>3 DEF lim
<1>4. s.stage = k.stage /\ s.tools = k.tools /\ s.abandoned = k.abandoned
  BY <1>2 DEF Sending, Connection
<1> HIDE DEF s
<1>5. /\ conn' = [conn EXCEPT ![c] = s] /\ conn \in [Conns -> Connection] /\ s \in Connection
  BY <1>1, <1>3 DEF Become, McpInv, Sound, s
<1>6. /\ conn' \in [Conns -> Connection] /\ conn'[c] = s
      /\ \A d \in Conns : d # c => conn'[d] = conn[d]
  BY <1>5
<1>7. Phases'
  BY <1>1, <1>2 DEF McpInv, Phases, Added
<1>8. Configured' = Configured /\ Added' = Added
  BY DEF Configured, Added
<1>9. \A d \in Conns : Sound(d, conn'[d], nextId')
  <2>1. \A d \in Conns : d # c => Sound(d, conn[d], nextId) /\ conn'[d] = conn[d]
    BY <1>6 DEF McpInv
  <2>2. \A d \in Conns : d # c => Sound(d, conn[d], nextId')
    <3> DEFINE lim == nextId'
    <3>1. lim \in Nat /\ nextId <= lim
      BY <1>1, <1>2
    <3> HIDE DEF lim
    <3>2. \A d \in Conns : d # c => Sound(d, conn[d], lim)
      BY <1>2, <2>1, <3>1, SoundGrows
    <3> QED BY <3>2 DEF lim
  <2> QED BY <1>3, <1>6, <2>1, <2>2
<1>10. \A d \in Conns : Placed(d, conn[d])'
  <2>1. \A d \in Conns : Placed(d, conn[d])
    BY DEF McpInv
  <2>2. phase \in {"serve", "skills"} /\ k.stage = "up" /\ phase' = phase /\ ready' = ready
    OBVIOUS
  <2> HIDE DEF k
  <2>3. Placed(c, conn[c])'
    BY <1>4, <1>6, <1>8, <2>1, <2>2 DEF Placed, Decided, k
  <2>4. \A d \in Conns : d # c => Placed(d, conn[d])'
    BY <1>6, <1>8, <2>1, <2>2 DEF Placed
  <2> QED BY <2>3, <2>4
<1>11. \A d \in Conns : conn[d].request = Nil
  BY DEF Quiet
<1>12. Alone'
  BY <1>6, <1>11 DEF Alone
<1>13. Offered'
  BY <1>4, <1>6 DEF McpInv, Offered
<1>14. OutcomeExcused'
  BY <1>4, <1>6 DEF McpInv, OutcomeExcused, Excused
<1> QED BY <1>6, <1>7, <1>9, <1>10, <1>12, <1>13, <1>14 DEF McpInv

LEMMA AddServerKeeps ==
  ASSUME NEW c \in Conns, McpInv, AddServer(c)
  PROVE  McpInv'
<1> DEFINE k == conn[c]
           s == [k EXCEPT !.stage = "opening"]
<1>1. /\ phase = "inject" /\ c \in Added /\ k.stage = "idle" /\ c \notin ready
      /\ Sound(c, k, nextId) /\ k \in Connection /\ k.request = Nil /\ k.post = "none" /\ k.reply = Nil
      /\ ~k.alive /\ nextId \in Nat
  BY DEF AddServer, McpInv, Sound, Placed, Added, Decided, Phases
<1>2. s \in Connection
  BY <1>1 DEF Connection, Stages, Connecting
<1>3. /\ s.request = Nil /\ s.post = "none" /\ s.reply = Nil /\ s.slot = k.slot /\ s.alive = k.alive
      /\ s.owed = k.owed /\ s.wire = k.wire /\ s.sent = k.sent
      /\ s.abandoned = k.abandoned /\ s.stage = "opening"
  BY <1>1 DEF Connection
<1>4. Become(c, s) /\ UNCHANGED <<manager, outcome, faults>>
  BY DEF AddServer
<1> HIDE DEF s, k
<1>5. Sound(c, s, nextId)
  BY <1>1, <1>2, <1>3, RestagedSound DEF Onward
<1>6. /\ conn' \in [Conns -> Connection] /\ conn'[c] = s
      /\ \A d \in Conns : d # c => conn'[d] = conn[d]
  BY <1>2, <1>4 DEF Become, McpInv
<1>7. Phases' /\ Configured' = Configured /\ Added' = Added /\ phase' = phase /\ nextId' = nextId /\ ready' = ready
  BY <1>4 DEF McpInv, Phases, Added, Configured, manager
<1>8. \A d \in Conns : Sound(d, conn'[d], nextId')
  BY <1>5, <1>6, <1>7 DEF McpInv
<1>9. Placed(c, conn[c])'
  BY <1>1, <1>3, <1>6, <1>7, Groups DEF Placed, McpInv
<1>10. \A d \in Conns : Placed(d, conn[d])'
  BY <1>6, <1>7, <1>9 DEF McpInv, Placed
<1>11. Alone'
  BY <1>1, <1>7 DEF Alone
<1>12. Offered'
  BY <1>1, <1>4, <1>6 DEF McpInv, Offered, manager, k
<1>13. OutcomeExcused'
  BY <1>3, <1>4, <1>6 DEF McpInv, OutcomeExcused, Excused, k
<1> QED BY <1>6, <1>7, <1>8, <1>10, <1>11, <1>12, <1>13 DEF McpInv

(***************************************************************************)
(* The steps of the session that move no connection.                       *)
(***************************************************************************)
LEMMA RegisterOffered ==
  ASSUME NEW taken, NEW group, group \subseteq {c \in Conns : conn[c].stage = "up"},
         Offered, Register(taken, group), conn' = conn
  PROVE  Offered'
<1>1. \A e \in registry' : e \in registry \/
        \E c \in group : \E t \in conn[c].tools :
          e = [name |-> DisplayName(c, t, taken, group), conn |-> c, tool |-> t]
  BY DEF Register
<1> QED BY <1>1 DEF Offered

LEMMA ManagerKeeps ==
  ASSUME McpInv, Connected \/ SkillsLoaded \/ FirstMessage \/ \E c \in Conns : ServerAdded(c)
  PROVE  McpInv'
<1>1. /\ conn' = conn /\ nextId' = nextId /\ outcome' = outcome /\ faults' = faults
      /\ deployment' = deployment
  BY DEF Connected, SkillsLoaded, FirstMessage, ServerAdded
<1>2. Phases'
  BY <1>1 DEF McpInv, Phases, Added, Connected, SkillsLoaded, FirstMessage, ServerAdded
<1>3. Configured' = Configured /\ Added' = Added
  BY <1>1 DEF Configured, Added
<1>4. Offered'
  <2>1. CASE Connected
    BY <1>1, <2>1, Groups, RegisterOffered DEF Connected, McpInv
  <2>2. CASE \E c \in Conns : ServerAdded(c)
    BY <1>1, <2>2, RegisterOffered DEF ServerAdded, McpInv
  <2>3. CASE registry' = registry
    BY <1>1, <2>3 DEF Offered, McpInv
  <2> QED BY <2>1, <2>2, <2>3 DEF SkillsLoaded, FirstMessage
<1>5. \A c \in Conns : Placed(c, conn[c])'
  <2>1. \A c \in Conns : Placed(c, conn[c])
    BY DEF McpInv
  <2>2. CASE Connected
    BY <1>1, <1>3, <2>1, <2>2, Groups DEF Connected, Placed, Decided, McpInv
  <2>3. CASE SkillsLoaded
    <3>1. \A c \in Conns : conn[c].request = Nil
      BY <2>3 DEF SkillsLoaded, Quiet
    <3>2. ready' = {}
      BY <2>3 DEF SkillsLoaded, McpInv, Phases
    <3> QED BY <1>1, <1>3, <2>1, <2>3, <3>1, <3>2, Groups DEF SkillsLoaded, Placed, Decided, McpInv
  <2>4. CASE FirstMessage
    <3>1. \A c \in Added \ ready : conn[c].stage = "idle"
      BY <2>4 DEF FirstMessage, Injecting, Added
    <3> QED BY <1>1, <1>3, <2>1, <2>4, <3>1, Groups DEF FirstMessage, Placed, Decided, McpInv
  <2>5. CASE \E c \in Conns : ServerAdded(c)
    BY <1>1, <1>3, <2>1, <2>5 DEF ServerAdded, Placed, Decided
  <2> QED BY <2>2, <2>3, <2>4, <2>5
<1>6. Alone'
  <2>1. CASE Connected
    <3>1. \A c \in Conns : conn[c].request # Nil => conn[c].stage \in {"initialize", "tools", "up"}
      BY DEF McpInv, Sound, Asked
    <3>2. \A c \in Conns : conn[c].request = Nil
      BY <2>1, <3>1, Groups DEF McpInv, Placed, Decided, Connected
    <3> QED BY <1>1, <3>2 DEF Alone
  <2>2. CASE FirstMessage
    <3>1. \A c \in Conns : conn[c].request # Nil => conn[c].stage \in {"initialize", "tools", "up"}
      BY DEF McpInv, Sound, Asked
    <3>2. \A c \in Added \ ready : conn[c].stage = "idle"
      BY <2>2 DEF FirstMessage, Injecting, Added
    <3>3. \A c \in Conns : conn[c].request = Nil
      BY <2>2, <3>1, <3>2, Groups DEF McpInv, Placed, Decided, FirstMessage
    <3> QED BY <1>1, <3>3 DEF Alone
  <2>3. CASE SkillsLoaded
    BY <1>1, <2>3 DEF SkillsLoaded, Alone
  <2>4. CASE \E c \in Conns : ServerAdded(c)
    BY <1>1, <2>4 DEF ServerAdded, Alone
  <2> QED BY <2>1, <2>2, <2>3, <2>4
<1>7. OutcomeExcused'
  BY <1>1 DEF McpInv, OutcomeExcused, Excused
<1> QED BY <1>1, <1>2, <1>4, <1>5, <1>6, <1>7 DEF McpInv

LEMMA ShutdownKeeps ==
  ASSUME McpInv, Shutdown
  PROVE  McpInv'
<1> DEFINE Shut(c, a) == [conn[c] EXCEPT !.alive = a, !.request = Nil, !.post = "none", !.reply = Nil,
                                          !.slot = <<>>, !.wire = <<>>, !.owed = {}]
<1>1. /\ phase = "serve" /\ phase' = "closed" /\ deployment' = deployment /\ registry' = registry
      /\ ready' = ready /\ nextId' = nextId /\ outcome' = outcome /\ faults' = faults
      /\ conn' = [c \in Conns |-> IF conn[c].stage # "up" THEN conn[c]
                                    ELSE Shut(c, conn[c].alive /\ Transport[c] = "http")]
  BY DEF Shutdown
<1>2. \A c \in Conns : conn[c] \in Connection /\ Sound(c, conn[c], nextId) /\ Placed(c, conn[c])
  BY DEF McpInv, Sound
<1>3. <<>> \in Slots
  <2>1. <<>> \in [{} -> Nat]
    OBVIOUS
  <2> QED BY <2>1 DEF Slots
<1>4. ASSUME NEW c \in Conns, NEW a \in BOOLEAN, conn[c].stage = "up"
      PROVE  /\ Sound(c, Shut(c, a), nextId) /\ Shut(c, a).stage = "up" /\ Shut(c, a).request = Nil
             /\ Shut(c, a).tools = conn[c].tools /\ Shut(c, a).abandoned = conn[c].abandoned
  <2> DEFINE k == conn[c]
             s == Shut(c, a)
  <2>1. k \in Connection /\ Sound(c, k, nextId) /\ k.stage = "up"
    BY <1>2, <1>4
  <2>2. <<>> \in Seq(Line)
    OBVIOUS
  <2>3. s \in Connection
    BY <1>3, <2>1, <2>2 DEF Connection
  <2>4. /\ s.request = Nil /\ s.post = "none" /\ s.reply = Nil /\ s.slot = <<>> /\ s.owed = {}
        /\ s.wire = <<>> /\ s.sent = k.sent /\ s.abandoned = k.abandoned /\ s.stage = "up"
        /\ s.tools = k.tools
    BY <2>1 DEF Connection
  <2> HIDE DEF s, k
  <2>5. DOMAIN s.slot = {} /\ Len(s.wire) = 0
    BY <2>4
  <2>6. Sound(c, s, nextId)
    BY <2>1, <2>3, <2>4, <2>5 DEF Sound, SlotsKept, OneAnswer
  <2> QED BY <2>4, <2>6 DEF s, k
<1> HIDE DEF Shut
<1>5. \A c \in Conns : (conn[c].alive /\ Transport[c] = "http") \in BOOLEAN
  OBVIOUS
<1>6. \A c \in Conns :
        \/ conn[c].stage # "up" /\ conn'[c] = conn[c]
        \/ /\ conn[c].stage = "up" /\ Sound(c, conn'[c], nextId) /\ conn'[c].stage = "up"
           /\ conn'[c].request = Nil
           /\ conn'[c].tools = conn[c].tools /\ conn'[c].abandoned = conn[c].abandoned
  <2> TAKE c \in Conns
  <2>1. CASE conn[c].stage # "up"
    BY <1>1, <2>1
  <2>2. CASE conn[c].stage = "up"
    <3> DEFINE a == conn[c].alive /\ Transport[c] = "http"
    <3>1. conn'[c] = Shut(c, a)
      BY <1>1, <2>2
    <3>2. a \in BOOLEAN
      BY <1>5
    <3> HIDE DEF a
    <3> QED BY <1>4, <2>2, <3>1, <3>2
  <2> QED BY <2>1, <2>2
<1>7. \A c \in Conns : Sound(c, conn'[c], nextId')
  BY <1>1, <1>2, <1>6
<1>8. conn' \in [Conns -> Connection]
  <2>1. \A c \in Conns : conn'[c] \in Connection
    BY <1>7 DEF Sound
  <2>2. conn' = [c \in Conns |-> conn'[c]]
    BY <1>1
  <2> QED BY <2>1, <2>2
<1>9. Phases'
  BY <1>1 DEF McpInv, Phases, Added
<1>10. Configured' = Configured /\ Added' = Added
  BY <1>1 DEF Configured, Added
<1>11. \A c \in Conns : conn[c].request # Nil => conn[c].stage \in {"initialize", "tools", "up"}
  BY DEF McpInv, Sound, Asked
<1>12. \A c \in Conns : Placed(c, conn[c])'
  BY <1>1, <1>2, <1>6, <1>10, <1>11 DEF Placed, Decided
<1>13. Alone'
  BY <1>1 DEF Alone
<1>14. Offered'
  BY <1>1, <1>6 DEF McpInv, Offered
<1>15. OutcomeExcused'
  BY <1>1, <1>6 DEF McpInv, OutcomeExcused, Excused
<1> QED BY <1>7, <1>8, <1>9, <1>12, <1>13, <1>14, <1>15 DEF McpInv

LEMMA McpInvStep == McpInv /\ [McpNext]_mcpVars => McpInv'
<1> SUFFICES ASSUME McpInv, [McpNext]_mcpVars PROVE McpInv'
  OBVIOUS
<1>1. CASE UNCHANGED mcpVars
  BY <1>1 DEF mcpVars, McpInv, Phases, Added, Placed, Configured, Alone, Offered, OutcomeExcused, Excused
<1>2. ASSUME NEW c \in Conns, ClientStep(c) \/ Answer(c) \/ Stray(c) \/ Die(c)
      PROVE  McpInv'
  <2>1. Steps(c, nextId)
    BY <1>2, OneSteps DEF McpInv, Phases, Ready
  <2>2. UNCHANGED manager /\ faults' \in 0..MaxFaults
    <3>1. \/ UNCHANGED <<manager, faults>>
          \/ UNCHANGED manager /\ Fault
      BY <1>2 DEF ClientStep, Answer, Stray, Die, Open, OpenFails, Notify, NotifyFails, StartupTimeout,
                  WriteLine, ReadLine, ReadEof, Arrive, PostAccepted, PostRefused, PostFails, Listen,
                  TakeReply, ReadBody, BodyEnds
    <3> QED BY <3>1, McpAssumption DEF Fault, McpInv, Phases
  <2> QED BY <2>1, <2>2, StepKeeps
<1>3. ASSUME NEW c \in Conns, CallTool(c) PROVE McpInv'
  <2>1. conn[c].stage = "up"
    BY <1>3 DEF CallTool, McpInv, Offered
  <2> QED BY <1>3, <2>1, CallKeeps DEF CallTool, manager
<1>4. ASSUME NEW c \in Conns, NEW m \in ResourceCalls, CallResource(c, m) PROVE McpInv'
  BY <1>4, CallKeeps DEF CallResource
<1> QED BY <1>1, <1>2, <1>3, <1>4, AddServerKeeps, ManagerKeeps, ShutdownKeeps DEF McpNext

LEMMA McpInvType == McpInv => McpTypeOK
<1> SUFFICES ASSUME McpInv PROVE McpTypeOK
  OBVIOUS
<1>1. \A c \in Conns :
        LET k == conn[c] IN
        /\ k.stage \in Connecting \cup {"idle", "up", "failed"}
        /\ k.request \in Request \cup {Nil} /\ k.reply \in Line \cup {Nil}
        /\ k.owed \subseteq Request /\ k.wire \in Seq(Line)
        /\ k.post \in {"none", "flying", "arrived", "done"}
        /\ k.resources \in {"no", "yes", "listed"}
  BY DEF McpInv, Connection, Stages
<1>2. \A c \in Conns :
        LET k == conn[c] IN
        /\ (k.post = "none") = (k.request = Nil)
        /\ k.reply # Nil => Transport[c] = "sse" /\ k.request # Nil
        /\ k.abandoned \subseteq 1..k.sent
        /\ \A i \in DOMAIN k.slot : k.slot[i] \in 1..k.sent /\ Transport[c] = "sse"
  BY DEF McpInv, Sound, SlotsKept
<1>3. ASSUME NEW c \in Conns, conn[c].request # Nil
      PROVE  \/ conn[c].stage \in {"initialize", "tools"} /\ phase # "serve"
             \/ conn[c].stage = "up" /\ \A d \in Conns \ {c} : conn[d].request = Nil
  <2>1. conn[c].stage \in {"initialize", "tools", "up"} /\ Placed(c, conn[c])
    BY <1>3 DEF McpInv, Sound, Asked
  <2>2. CASE conn[c].stage = "up"
    <3>1. phase \in {"skills", "serve"}
      BY <1>3, <2>1, <2>2 DEF McpInv, Phases, Placed
    <3> QED BY <1>3, <2>2, <3>1 DEF McpInv, Alone
  <2>3. CASE conn[c].stage # "up"
    BY <2>1, <2>3 DEF Placed, Decided
  <2> QED BY <2>2, <2>3
<1>4. /\ phase \in {"connect", "skills", "inject", "serve", "closed"}
      /\ \A e \in registry : conn[e.conn].stage = "up" /\ e.tool \in conn[e.conn].tools
      /\ ready \subseteq deployment.added /\ nextId \in Nat /\ faults \in 0..MaxFaults
  BY DEF McpInv, Phases, Offered, Added
<1> QED BY <1>1, <1>2, <1>3, <1>4 DEF McpTypeOK

(***************************************************************************)
(* The types of the client, with the shape of a connection: at most one    *)
(* request is under way at the stages that send one, at most one in the    *)
(* whole client once the servers are connected, and every registered tool  *)
(* belongs to a server that is up.                                         *)
(***************************************************************************)
THEOREM McpTypesAreKept == McpSpec => []McpTypeOK
<1>1. McpInv => McpTypeOK
  BY McpInvType
<1> QED BY McpInitInv, McpInvStep, <1>1, PTL DEF McpSpec

(***************************************************************************)
(* A call that returns Ok returns the answer to itself; another answer     *)
(* only on stdio, or between tool calls on sse, and only the answer to a   *)
(* request of the same connection that ended without it.                   *)
(***************************************************************************)
THEOREM AnswersAreOwn == McpSpec => []AnswerIsOwn
<1>1. McpInv => AnswerIsOwn
  BY DEF McpInv, OutcomeExcused, Excused, AnswerIsOwn
<1> QED BY McpInitInv, McpInvStep, <1>1, PTL DEF McpSpec

-----------------------------------------------------------------------------
(***************************************************************************)
(* Names.  Servers choose their tools' names, so one may offer a tool that *)
(* is called like the prefixed name of another; then the program has two   *)
(* tools of one name.  Nothing prevents it but the servers.                *)
(***************************************************************************)
NamesApart ==
  \A c \in Conns, t \in UNION Offers :
    Prefixed(c, t) \notin Builtin \cup LateBuiltin \cup UNION Offers

Entry(e) ==
  /\ e = [name |-> e.name, conn |-> e.conn, tool |-> e.tool]
  /\ e.conn \in Conns /\ e.tool \in UNION Offers
  /\ e.name = e.tool \/ e.name = Prefixed(e.conn, e.tool)
  /\ e.name \notin Builtin

NamesInv ==
  /\ \A e \in registry : Entry(e)
  /\ \A e, f \in registry : e.name = e.tool /\ f.name = f.tool /\ f.name = e.name => f = e
  /\ phase = "connect" => registry = {}
  /\ \A e \in registry : e.name \in LateBuiltin => e.conn \in Configured

LEMMA RegisterNames ==
  ASSUME NamesApart, McpInv, NamesInv, NEW taken, NEW group, Register(taken, group),
         group \subseteq {c \in Conns : conn[c].stage = "up"}, taken = Names
  PROVE  /\ \A e \in registry' : Entry(e)
         /\ \A e, f \in registry' : e.name = e.tool /\ f.name = f.tool /\ f.name = e.name => f = e
         /\ \A e \in registry' \ registry : e.conn \in group /\ (e.name = e.tool => e.name \notin taken)
<1> DEFINE New(c, t) == [name |-> DisplayName(c, t, taken, group), conn |-> c, tool |-> t]
           Is(e) == \E c \in group : \E t \in conn[c].tools : e = New(c, t)
           Have(t) == {d \in group : t \in conn[d].tools}
<1>1. \A e \in registry' : e \in registry \/ Is(e)
  BY DEF Register
<1>2. \A c \in group : c \in Conns /\ conn[c].tools \subseteq UNION Offers
  <2>1. \A c \in Conns : conn[c].tools \in Offers \cup {{}}
    BY DEF McpInv, Connection
  <2> QED BY <2>1
<1>3. Builtin \subseteq taken /\ \A e \in registry : e.name \in taken
  BY DEF Names
<1>4. \A t : IsFiniteSet(Have(t))
  <2> TAKE t
  <2>1. Have(t) \in SUBSET Conns
    BY <1>2
  <2> QED BY <2>1, FS_Subset, McpAssumption
<1>5. ASSUME NEW t, NEW c \in Have(t), NEW d \in Have(t), ~(Cardinality(Have(t)) > 1)
      PROVE  c = d
  <2>1. Cardinality(Have(t)) \in Nat /\ Cardinality(Have(t)) # 0
    BY <1>4, FS_CardinalityType, FS_EmptySet
  <2>2. Cardinality(Have(t)) = 1
    BY <1>5, <2>1
  <2>3. PICK x : Have(t) = {x}
    BY <1>4, <2>2, FS_Singleton
  <2> QED BY <2>3
<1>6. ASSUME NEW c \in group, NEW t \in conn[c].tools
      PROVE  /\ Entry(New(c, t))
             /\ New(c, t).name = t => t \notin taken /\ ~(Cardinality(Have(t)) > 1)
  <2>1. c \in Conns /\ t \in UNION Offers
    BY <1>2, <1>6
  <2>2. Prefixed(c, t) \notin Builtin /\ Prefixed(c, t) # t
    BY <2>1 DEF NamesApart
  <2>3. \/ /\ t \notin taken /\ ~(Cardinality(Have(t)) > 1)
           /\ DisplayName(c, t, taken, group) = t
        \/ DisplayName(c, t, taken, group) = Prefixed(c, t)
    BY DEF DisplayName
  <2> QED BY <1>3, <2>1, <2>2, <2>3 DEF Entry
<1> HIDE DEF New, Have
<1>7. \A c, t : New(c, t).conn = c /\ New(c, t).tool = t
  BY DEF New
<1>8. \A e : Is(e) => Entry(e) /\ (e.name = e.tool =>
        e.tool \notin taken /\ ~(Cardinality(Have(e.tool)) > 1) /\ e.conn \in Have(e.tool))
  <2> TAKE e
  <2>1. ASSUME NEW c \in group, NEW t \in conn[c].tools, e = New(c, t)
        PROVE  Entry(e) /\ (e.name = e.tool =>
                 e.tool \notin taken /\ ~(Cardinality(Have(e.tool)) > 1) /\ e.conn \in Have(e.tool))
    <3>1. e.conn = c /\ e.tool = t /\ c \in Have(t)
      BY <1>7, <2>1 DEF Have
    <3>2. Entry(e) /\ (e.name = t => t \notin taken /\ ~(Cardinality(Have(t)) > 1))
      BY <1>6, <2>1
    <3> QED BY <3>1, <3>2
  <2> QED BY <2>1
<1>9. \A e \in registry : Entry(e) /\ e.name \in taken
  BY <1>3 DEF NamesInv
<1>11. \A e : Is(e) => e.conn \in group
  BY <1>7
<1> HIDE DEF Is
<1>13. ASSUME NEW e, Is(e) PROVE e.name = e.tool => e.name \notin taken
  <2>1. e.name = e.tool => e.tool \notin taken
    BY <1>8, <1>13
  <2> QED BY <2>1
<1>10. ASSUME NEW e \in registry', NEW f \in registry',
              e.name = e.tool, f.name = f.tool, f.name = e.name
       PROVE  f = e
  <2>1. CASE e \in registry /\ f \in registry
    BY <1>10, <2>1 DEF NamesInv
  <2>2. CASE Is(e) /\ Is(f)
    <3>1. e.conn = f.conn
      BY <1>5, <1>8, <1>10, <2>2
    <3>2. /\ e = [name |-> e.name, conn |-> e.conn, tool |-> e.tool]
          /\ f = [name |-> f.name, conn |-> f.conn, tool |-> f.tool]
      BY <1>8, <2>2 DEF Entry
    <3>3. f.name = e.name /\ f.tool = e.tool /\ f.conn = e.conn
      BY <1>10, <3>1
    <3> QED BY <3>2, <3>3, Zenon
  <2>3. CASE Is(e) /\ f \in registry
    BY <1>8, <1>9, <1>10, <2>3
  <2>4. CASE Is(f) /\ e \in registry
    BY <1>8, <1>9, <1>10, <2>4
  <2> QED BY <1>1, <2>1, <2>2, <2>3, <2>4
<1>12. \A e \in registry' \ registry : e.conn \in group /\ (e.name = e.tool => e.name \notin taken)
  BY <1>1, <1>11, <1>13
<1> QED BY <1>1, <1>8, <1>9, <1>10, <1>12

(* The name of a later built-in tool is nobody's prefixed name.            *)
LEMMA LateIsPlain ==
  ASSUME NamesApart, NEW e, Entry(e), e.name \in LateBuiltin
  PROVE  e.name = e.tool
BY DEF NamesApart, Entry

LEMMA NamesInvStep ==
  ASSUME NamesApart, McpInv, NamesInv, [McpNext]_mcpVars
  PROVE  NamesInv'
<1>1. CASE Connected
  <2>1. phase = "connect" /\ phase' = "skills" /\ registry = {} /\ UNCHANGED deployment
    BY <1>1 DEF Connected, NamesInv
  <2>2. {c \in Configured : conn[c].stage = "up"} \subseteq {c \in Conns : conn[c].stage = "up"}
    BY Groups DEF McpInv
  <2>3. /\ \A e \in registry' : Entry(e)
        /\ \A e, f \in registry' : e.name = e.tool /\ f.name = f.tool /\ f.name = e.name => f = e
        /\ \A e \in registry' : e.conn \in Configured
    BY <1>1, <2>1, <2>2, RegisterNames DEF Connected
  <2> QED BY <2>1, <2>3 DEF NamesInv, Entry, Configured
<1>2. ASSUME NEW c \in Conns, ServerAdded(c) PROVE NamesInv'
  <2>1. phase = "inject" /\ phase' = "inject" /\ UNCHANGED deployment /\ LateBuiltin \subseteq Names
    BY <1>2 DEF ServerAdded, Names
  <2>2. /\ \A e \in registry' : Entry(e)
        /\ \A e, f \in registry' : e.name = e.tool /\ f.name = f.tool /\ f.name = e.name => f = e
        /\ \A e \in registry' \ registry : e.name = e.tool => e.name \notin Names
    BY <1>2, RegisterNames DEF ServerAdded
  <2>3. \A e \in registry' : e.name \in LateBuiltin => e.conn \in Configured
    BY <2>1, <2>2, LateIsPlain DEF NamesInv
  <2> QED BY <2>1, <2>2, <2>3 DEF NamesInv, Entry, Configured
<1>3. CASE UNCHANGED <<registry, deployment>> /\ (phase' = "connect" => phase = "connect")
  BY <1>3 DEF NamesInv, Entry, Configured
<1>4. ASSUME NEW c \in Conns, ClientStep(c) PROVE UNCHANGED manager
  BY <1>4 DEF ClientStep, Open, OpenFails, Notify, NotifyFails, StartupTimeout, WriteLine, ReadLine,
              ReadEof, Arrive, PostAccepted, PostRefused, PostFails, Listen, TakeReply, ReadBody, BodyEnds
<1>5. ASSUME NEW c \in Conns, Answer(c) \/ Stray(c) \/ Die(c) PROVE UNCHANGED manager
  BY <1>5 DEF Answer, Stray, Die
<1>6. ASSUME NEW c \in Conns, AddServer(c) \/ CallTool(c) PROVE UNCHANGED manager
  BY <1>6 DEF AddServer, CallTool
<1>7. CASE UNCHANGED manager
  BY <1>3, <1>7 DEF manager
<1>8. CASE \E c \in Conns, m \in ResourceCalls : CallResource(c, m)
  BY <1>3, <1>8 DEF CallResource
<1>9. CASE SkillsLoaded \/ FirstMessage \/ Shutdown
  BY <1>3, <1>9 DEF SkillsLoaded, FirstMessage, Shutdown
<1>10. CASE UNCHANGED mcpVars
  BY <1>3, <1>10 DEF mcpVars
<1> QED BY <1>1, <1>2, <1>4, <1>5, <1>6, <1>7, <1>8, <1>9, <1>10 DEF McpNext

(***************************************************************************)
(* If no server offers a tool that is called like a prefixed one, a tool   *)
(* registered under its own name shares that name with no other server's,  *)
(* and a registered name is a built-in tool's only for a configured server *)
(* whose tool is called like one that is registered behind it.             *)
(***************************************************************************)
THEOREM PlainNamesAreUnique ==
  ASSUME NamesApart
  PROVE  McpSpec => []PlainNamesUnique
<1>1. McpInit => NamesInv
  BY DEF McpInit, NamesInv
<1>2. McpInv /\ NamesInv /\ [McpNext]_mcpVars => NamesInv'
  BY NamesInvStep
<1>3. NamesInv => PlainNamesUnique
  BY LateIsPlain DEF NamesInv, Entry, PlainNamesUnique, NamesApart
<1> QED BY McpInitInv, McpInvStep, <1>1, <1>2, <1>3, PTL DEF McpSpec
=============================================================================
