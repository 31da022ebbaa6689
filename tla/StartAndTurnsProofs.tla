------------------------ MODULE StartAndTurnsProofs ------------------------
(***************************************************************************)
(* Proofs about the two things the user's settings decide: how a start     *)
(* turns them into the configuration and the assets the engine runs with   *)
(* (AgentStartup), and when the turn guards end a run (TurnGuards).        *)
(*                                                                         *)
(* First the guards: each breaker fires exactly when the rounds since the  *)
(* last good one say so, although the trackers keep two counters and at    *)
(* most twelve rounds of them, and never without warning.  Then a start:   *)
(* what it keeps at every step, the skills and the assets it hands to the  *)
(* engine, and its configuration, setting by setting.                      *)
(***************************************************************************)
EXTENDS TurnGuards, AgentStartup, NaturalsInduction, WellFoundedInduction, TLAPS


(***************************************************************************)
(* Counting trackers.  A tracker has the length of the longest run of      *)
(* equal elements its streak ends in.                                      *)
(***************************************************************************)
Tracks(tracker, s) ==
  IF s = <<>> THEN tracker = NoneSeen
  ELSE /\ tracker.last = s[Len(s)] /\ tracker.count \in 1..Len(s)
       /\ EndsInRun(s, tracker.count)
       /\ tracker.count < Len(s) => s[Len(s) - tracker.count] # s[Len(s)]

LEMMA TracksExactly ==
  ASSUME NEW S, NEW s \in Seq(S), NEW t, Tracks(t, s), NEW k \in Nat \ {0}
  PROVE  t.count \in Nat /\ (t.count >= k <=> EndsInRun(s, k))
<1>1. CASE s = <<>>
  BY <1>1 DEF Tracks, EndsInRun, NoneSeen
<1>2. CASE s # <<>>
  <2>1. /\ Len(s) \in Nat /\ t.count \in 1..Len(s) /\ EndsInRun(s, t.count)
        /\ t.count < Len(s) => s[Len(s) - t.count] # s[Len(s)]
    BY <1>2 DEF Tracks
  <2>2. ASSUME t.count >= k PROVE EndsInRun(s, k)
    <3>1. Len(s) - k + 1..Len(s) \subseteq Len(s) - t.count + 1..Len(s) /\ Len(s) >= k
      BY <2>1, <2>2
    <3> QED BY <2>1, <3>1 DEF EndsInRun
  <2>3. ASSUME EndsInRun(s, k), ~(t.count >= k) PROVE FALSE
    <3>1. /\ Len(s) - t.count \in Len(s) - k + 1..Len(s) /\ Len(s) \in Len(s) - k + 1..Len(s)
          /\ t.count < Len(s)
      BY <2>1, <2>3 DEF EndsInRun
    <3>2. s[Len(s) - t.count] = s[Len(s)]
      BY <2>3, <3>1 DEF EndsInRun
    <3> QED BY <2>1, <3>1, <3>2
  <2> QED BY <2>1, <2>2, <2>3
<1> QED BY <1>1, <1>2

LEMMA TracksStep ==
  ASSUME NEW S, None \notin S, NEW s \in Seq(S), NEW t, Tracks(t, s), NEW current \in S
  PROVE  Tracks(Observe(t, current), Append(s, current))
<1> DEFINE a == Append(s, current)
           o == Observe(t, current)
<1>1. /\ Len(s) \in Nat /\ Len(a) = Len(s) + 1 /\ a[Len(a)] = current /\ a # <<>>
      /\ \A i \in 1..Len(s) : a[i] = s[i] /\ s[i] \in S
  OBVIOUS
<1>2. o.last = current /\ o.count = (IF t.last = current THEN t.count + 1 ELSE 1)
  BY DEF Observe
<1> SUFFICES Tracks(o, a)
  OBVIOUS
<1> HIDE DEF a, o
<1>3. CASE s = <<>> \/ t.last # current
  <2>1. o.count = 1
    BY <1>2, <1>3 DEF Tracks, NoneSeen
  <2>2. EndsInRun(a, 1)
    <3>1. \A i \in Len(a) - 1 + 1..Len(a) : i = Len(a)
      BY <1>1
    <3> QED BY <1>1, <3>1 DEF EndsInRun
  <2>3. ASSUME 1 < Len(a) PROVE a[Len(a) - 1] # a[Len(a)]
    <3>1. Len(s) \in 1..Len(s) /\ s # <<>>
      BY <1>1, <2>3
    <3>2. t.last = s[Len(s)]
      BY <3>1 DEF Tracks
    <3> QED BY <1>1, <1>3, <3>1, <3>2
  <2> QED BY <1>1, <1>2, <2>1, <2>2, <2>3 DEF Tracks
<1>4. CASE s # <<>> /\ t.last = current
  <2>1. /\ t.count \in 1..Len(s) /\ EndsInRun(s, t.count) /\ s[Len(s)] = current
        /\ t.count < Len(s) => s[Len(s) - t.count] # s[Len(s)]
        /\ o.count = t.count + 1
    BY <1>2, <1>4 DEF Tracks
  <2>2. ASSUME NEW i \in Len(a) - o.count + 1..Len(a) PROVE a[i] = current
    <3>1. CASE i = Len(a)
      BY <1>1, <3>1
    <3>2. CASE i # Len(a)
      <4>1. /\ i \in Len(s) - t.count + 1..Len(s) /\ i \in 1..Len(s)
            /\ Len(s) \in Len(s) - t.count + 1..Len(s)
        BY <1>1, <2>1, <3>2, SMTT(20)
      <4>2. s[i] = s[Len(s)]
        BY <2>1, <4>1 DEF EndsInRun
      <4> QED BY <1>1, <2>1, <4>1, <4>2
    <3> QED BY <3>1, <3>2
  <2>3. EndsInRun(a, o.count)
    <3>1. Len(a) >= o.count
      BY <1>1, <2>1
    <3> QED BY <2>2, <3>1 DEF EndsInRun
  <2>4. ASSUME o.count < Len(a) PROVE a[Len(a) - o.count] # a[Len(a)]
    <3>1. /\ t.count < Len(s) /\ Len(a) - o.count = Len(s) - t.count
          /\ Len(s) - t.count \in 1..Len(s)
      BY <1>1, <2>1, <2>4
    <3> QED BY <1>1, <2>1, <3>1
  <2> QED BY <1>1, <1>2, <2>1, <2>3, <2>4 DEF Tracks
<1> QED BY <1>3, <1>4

-----------------------------------------------------------------------------
(***************************************************************************)
(* Cycles.  What the cycle tracker finds in twelve rounds is what it would *)
(* find in the whole streak.                                               *)
(***************************************************************************)
Repeats(h, p, r) == \A i \in 1..(r - 1) * p : h[Len(h) - i + 1] = h[Len(h) - i + 1 - p]

LEMMA RepeatsAreCycles ==
  ASSUME NEW S, NEW h \in Seq(S), NEW p \in 2..MaxPeriod, NEW k \in 2..CycleLimit,
         Len(h) >= k * p
  PROVE  Repeats(h, p, k) <=> EndsInCycle(h, p, k)
<1> DEFINE n == Len(h)
<1>1. n \in Nat /\ p \in Nat /\ k \in Nat /\ k * p \in Nat /\ (k - 1) * p = k * p - p
  BY DEF MaxPeriod, CycleLimit
<1> HIDE DEF n
<1>2. ASSUME Repeats(h, p, k) PROVE EndsInCycle(h, p, k)
  <2>1. ASSUME NEW i \in n - k * p + 1..n - p PROVE h[i] = h[i + p]
    <3>1. n - i + 1 - p \in 1..(k - 1) * p
      BY <1>1, <2>1
    <3>2. h[n - (n - i + 1 - p) + 1] = h[n - (n - i + 1 - p) + 1 - p]
      BY <1>2, <3>1 DEF Repeats, n
    <3>3. n - (n - i + 1 - p) + 1 = i + p /\ n - (n - i + 1 - p) + 1 - p = i
      BY <1>1, <2>1
    <3> QED BY <3>2, <3>3
  <2> QED BY <2>1 DEF EndsInCycle, n
<1>3. ASSUME EndsInCycle(h, p, k) PROVE Repeats(h, p, k)
  <2>1. ASSUME NEW i \in 1..(k - 1) * p PROVE h[n - i + 1] = h[n - i + 1 - p]
    <3>1. n - i + 1 - p \in n - k * p + 1..n - p
      BY <1>1, <2>1
    <3>2. h[n - i + 1 - p] = h[n - i + 1 - p + p]
      BY <1>3, <3>1 DEF EndsInCycle, n
    <3>3. n - i + 1 - p + p = n - i + 1
      BY <1>1, <2>1
    <3> QED BY <3>2, <3>3
  <2> QED BY <2>1 DEF Repeats, n
<1> QED BY <1>2, <1>3

(* Fewer repetitions are repetitions, too.                                 *)
LEMMA RepeatsLess ==
  ASSUME NEW h, NEW p \in 2..MaxPeriod, NEW r \in Nat, NEW q \in 1..r, Repeats(h, p, r)
  PROVE  Repeats(h, p, q)
<1>1. p \in Nat /\ (q - 1) * p <= (r - 1) * p
  <2>1. p \in {2, 3, 4}
    BY DEF MaxPeriod
  <2> QED BY <2>1
<1>2. 1..(q - 1) * p \subseteq 1..(r - 1) * p
  BY <1>1
<1> QED BY <1>2 DEF Repeats

LEMMA SmallMaximum ==
  ASSUME NEW G, G \subseteq 1..6, 1 \in G
  PROVE  \E r \in G : \A q \in G : q <= r
<1>1. \A q \in G : q \in {1, 2, 3, 4, 5, 6}
  OBVIOUS
<1>2. CASE 6 \in G
  BY <1>1, <1>2
<1>3. CASE 5 \in G /\ 6 \notin G
  BY <1>1, <1>3
<1>4. CASE 4 \in G /\ 5 \notin G /\ 6 \notin G
  BY <1>1, <1>4
<1>5. CASE 3 \in G /\ 4 \notin G /\ 5 \notin G /\ 6 \notin G
  BY <1>1, <1>5
<1>6. CASE 3 \notin G /\ 4 \notin G /\ 5 \notin G /\ 6 \notin G
  <2>1. CASE 2 \in G
    BY <1>1, <1>6, <2>1
  <2>2. CASE 2 \notin G
    BY <1>1, <1>6, <2>2
  <2> QED BY <2>1, <2>2
<1> QED BY <1>2, <1>3, <1>4, <1>5, <1>6

(* The repetitions found are the most there are.                           *)
LEMMA MostRepetitions ==
  ASSUME NEW h, Len(h) \in Nat, Len(h) <= MaxPeriod * CycleLimit,
         NEW p \in 2..MaxPeriod, p <= Len(h) \div 2
  PROVE  /\ Repetitions(h, p) \in 1..Len(h) \div p
         /\ Repeats(h, p, Repetitions(h, p))
         /\ \A q \in 1..Len(h) \div p : Repeats(h, p, q) => q <= Repetitions(h, p)
<1> DEFINE n == Len(h) \div p
           Good == {r \in 1..n : Repeats(h, p, r)}
<1>1. n \in 1..6
  <2>1. p \in {2, 3, 4} /\ Len(h) <= 12
    BY DEF MaxPeriod, CycleLimit
  <2> QED BY <2>1
<1> HIDE DEF n
<1>2. Good \subseteq 1..6 /\ 1 \in Good
  BY <1>1 DEF Repeats
<1>3. \E r \in Good : \A q \in Good : q <= r
  BY <1>2, SmallMaximum
<1>4. \E r \in 1..n : Repeats(h, p, r) /\ \A q \in 1..n : Repeats(h, p, q) => q <= r
  BY <1>3
<1>5. Repetitions(h, p) =
        CHOOSE r \in 1..n : Repeats(h, p, r) /\ \A q \in 1..n : Repeats(h, p, q) => q <= r
  BY DEF Repetitions, Repeats, n
<1> HIDE DEF Good
<1> QED BY <1>4, <1>5 DEF n

LEMMA BestOfThree ==
  ASSUME NEW Q, Q \subseteq {2, 3, 4}, 2 \in Q, NEW f \in [Q -> Nat]
  PROVE  \E p \in Q : \A q \in Q : f[p] > f[q] \/ (f[p] = f[q] /\ p <= q)
<1>1. \A q \in Q : f[q] \in Nat /\ (q = 2 \/ q = 3 \/ q = 4)
  OBVIOUS
<1>2. CASE \A q \in Q : f[2] >= f[q]
  BY <1>1, <1>2
<1>3. CASE 3 \in Q /\ f[3] > f[2] /\ \A q \in Q : f[3] >= f[q]
  BY <1>1, <1>3
<1>4. CASE 4 \in Q /\ f[4] > f[2] /\ (3 \in Q => f[4] > f[3])
  BY <1>1, <1>4
<1> QED BY <1>1, <1>2, <1>3, <1>4

(* The cycle detected is one with the most repetitions.                    *)
LEMMA DetectedCycle ==
  ASSUME NEW S, NEW h \in Seq(S), Len(h) <= MaxPeriod * CycleLimit, NEW k \in 2..CycleLimit
  PROVE  /\ DetectCycle(h).repetitions \in Nat
         /\ DetectCycle(h).repetitions >= k <=> \E p \in 2..MaxPeriod : EndsInCycle(h, p, k)
         /\ DetectCycle(h) # NoCycle <=> DetectCycle(h).repetitions >= 2
<1> DEFINE Q == {q \in 2..MaxPeriod : q <= Len(h) \div 2}
           cycles == {[period |-> p, repetitions |-> Repetitions(h, p)] : p \in Q}
           better(c, d) == \/ c.repetitions > d.repetitions
                           \/ c.repetitions = d.repetitions /\ c.period <= d.period
           best == CHOOSE c \in cycles : \A d \in cycles : better(c, d)
<1>1. DetectCycle(h) = IF cycles = {} \/ best.repetitions < 2 THEN NoCycle ELSE best
  BY DEF DetectCycle
<1>2. /\ Len(h) \in Nat /\ Len(h) \div 2 \in Nat /\ k \in Nat /\ k >= 2 /\ k <= 3
      /\ Q \subseteq {2, 3, 4} /\ NoCycle.repetitions = 0 /\ NoCycle.period = 0
      /\ 2..MaxPeriod = {2, 3, 4}
  BY DEF MaxPeriod, CycleLimit, NoCycle
<1>3. \A p \in 2..MaxPeriod : EndsInCycle(h, p, k) => p \in Q /\ k \in 1..Len(h) \div p
  <2> SUFFICES ASSUME NEW p \in 2..MaxPeriod, Len(h) >= k * p
               PROVE  p <= Len(h) \div 2 /\ k <= Len(h) \div p
    BY <1>2 DEF EndsInCycle
  <2>1. k = 2 \/ k = 3
    BY <1>2
  <2>2. p = 2 \/ p = 3 \/ p = 4
    BY <1>2
  <2> QED BY <1>2, <2>1, <2>2
<1>4. \A p \in Q : /\ Repetitions(h, p) \in 1..Len(h) \div p
                  /\ Repeats(h, p, Repetitions(h, p))
                  /\ \A q \in 1..Len(h) \div p : Repeats(h, p, q) => q <= Repetitions(h, p)
  BY <1>2, MostRepetitions
<1>5. \A p \in Q : Repetitions(h, p) \in Nat
  BY <1>4
<1>6. CASE Q = {}
  <2>1. cycles = {} /\ DetectCycle(h) = NoCycle
    BY <1>1, <1>6
  <2> QED BY <1>2, <1>3, <1>6, <2>1
<1>7. CASE Q # {}
  <2>1. 2 \in Q
    BY <1>2, <1>7
  <2>2. \E c \in cycles : \A d \in cycles : better(c, d)
    <3> DEFINE f == [p \in Q |-> Repetitions(h, p)]
    <3>1. f \in [Q -> Nat]
      BY <1>5
    <3> HIDE DEF Q
    <3>2. PICK p \in Q : \A q \in Q : f[p] > f[q] \/ (f[p] = f[q] /\ p <= q)
      BY <1>2, <2>1, <3>1, BestOfThree
    <3>3. [period |-> p, repetitions |-> Repetitions(h, p)] \in cycles
      OBVIOUS
    <3>4. ASSUME NEW d \in cycles
          PROVE  better([period |-> p, repetitions |-> Repetitions(h, p)], d)
      <4>1. PICK q \in Q : d = [period |-> q, repetitions |-> Repetitions(h, q)]
        OBVIOUS
      <4> QED BY <3>2, <4>1
    <3> QED BY <3>3, <3>4
  <2>3. best \in cycles /\ \A d \in cycles : better(best, d)
    BY <2>2
  <2> HIDE DEF best
  <2>4. PICK p \in Q : best = [period |-> p, repetitions |-> Repetitions(h, p)]
    BY <2>3
  <2>5. \A q \in Q : Repetitions(h, q) <= Repetitions(h, p)
    <3> SUFFICES ASSUME NEW q \in Q PROVE Repetitions(h, q) <= Repetitions(h, p)
      OBVIOUS
    <3>1. better(best, [period |-> q, repetitions |-> Repetitions(h, q)])
      BY <2>3
    <3> QED BY <1>5, <2>4, <3>1
  <2>6. /\ best.repetitions = Repetitions(h, p) /\ best.period = p
        /\ Repetitions(h, p) \in Nat /\ p \in 2..MaxPeriod
    BY <1>5, <2>4
  <2>7. DetectCycle(h) = IF Repetitions(h, p) < 2 THEN NoCycle ELSE best
    BY <1>1, <2>1, <2>6
  <2>8. DetectCycle(h).repetitions \in Nat /\ best # NoCycle
    BY <1>2, <2>6, <2>7
  <2>9. DetectCycle(h) # NoCycle <=> DetectCycle(h).repetitions >= 2
    BY <1>2, <2>6, <2>7, <2>8
  <2>10. ASSUME DetectCycle(h).repetitions >= k PROVE EndsInCycle(h, p, k)
    <3>1. k \in 1..Repetitions(h, p)
      BY <1>2, <2>6, <2>7, <2>10
    <3>2. Repeats(h, p, k)
      BY <1>4, <2>6, <3>1, RepeatsLess
    <3>3. Len(h) >= k * p
      <4>1. k <= Len(h) \div p
        BY <1>2, <1>4, <2>6, <3>1
      <4>2. p = 2 \/ p = 3 \/ p = 4
        BY <1>2, <2>6
      <4> QED BY <1>2, <4>1, <4>2
    <3> QED BY <2>6, <3>2, <3>3, RepeatsAreCycles
  <2>11. ASSUME NEW q \in 2..MaxPeriod, EndsInCycle(h, q, k)
         PROVE  DetectCycle(h).repetitions >= k
    <3>1. q \in Q /\ k \in 1..Len(h) \div q
      BY <1>3, <2>11
    <3>2. Repeats(h, q, k)
      BY <2>11, RepeatsAreCycles DEF EndsInCycle
    <3>3. k <= Repetitions(h, q) /\ Repetitions(h, q) <= Repetitions(h, p)
      BY <1>4, <2>5, <3>1, <3>2
    <3>4. Repetitions(h, q) \in Nat
      BY <1>5, <3>1
    <3> QED BY <1>2, <2>6, <2>7, <3>3, <3>4
  <2> QED BY <2>6, <2>8, <2>9, <2>10, <2>11
<1> QED BY <1>6, <1>7

(* The history is what is recent of the streak.                            *)
Recent(h, s) ==
  /\ h \in Seq(Failures) /\ s \in Seq(Failures)
  /\ Len(h) = IF Len(s) <= MaxPeriod * CycleLimit THEN Len(s) ELSE MaxPeriod * CycleLimit
  /\ \A i \in 1..Len(h) : h[i] = s[Len(s) - Len(h) + i]

LEMMA RecentFacts ==
  ASSUME NEW h, NEW s, Recent(h, s)
  PROVE  /\ h \in Seq(Failures) /\ s \in Seq(Failures) /\ Len(h) \in Nat /\ Len(s) \in Nat
         /\ \/ Len(s) <= 12 /\ Len(h) = Len(s)
            \/ Len(s) > 12 /\ Len(h) = 12
         /\ \A i \in 1..Len(h) : h[i] = s[Len(s) - Len(h) + i]
<1>1. h \in Seq(Failures) /\ s \in Seq(Failures)
  BY DEF Recent
<1>2. Len(h) \in Nat /\ Len(s) \in Nat
  BY <1>1
<1>3. MaxPeriod * CycleLimit = 12
  BY DEF MaxPeriod, CycleLimit
<1>4. Len(h) = IF Len(s) <= 12 THEN Len(s) ELSE 12
  BY <1>3 DEF Recent
<1>5. \A i \in 1..Len(h) : h[i] = s[Len(s) - Len(h) + i]
  BY DEF Recent
<1>6. Len(s) <= 12 \/ (Len(s) > 12 /\ ~(Len(s) <= 12))
  BY <1>2
<1>7. \/ Len(s) <= 12 /\ Len(h) = Len(s)
      \/ Len(s) > 12 /\ Len(h) = 12
  BY <1>4, <1>6
<1> QED BY <1>1, <1>2, <1>5, <1>7

LEMMA RecentIntro ==
  ASSUME NEW h, NEW s, h \in Seq(Failures), s \in Seq(Failures),
         (Len(s) <= 12 /\ Len(h) = Len(s)) \/ (Len(s) > 12 /\ Len(h) = 12),
         \A i \in 1..Len(h) : h[i] = s[Len(s) - Len(h) + i]
  PROVE  Recent(h, s)
<1>1. MaxPeriod * CycleLimit = 12
  BY DEF MaxPeriod, CycleLimit
<1>2. Len(s) \in Nat
  OBVIOUS
<1>3. Len(h) = IF Len(s) <= 12 THEN Len(s) ELSE 12
  <2>1. Len(s) > 12 => ~(Len(s) <= 12)
    BY <1>2
  <2> QED BY <2>1
<1> QED BY <1>1, <1>3 DEF Recent

LEMMA RecentLengths ==
  ASSUME NEW m \in Nat, NEW n \in Nat, (n <= 12 /\ m = n) \/ (n > 12 /\ m = 12)
  PROVE  /\ n - m \in Nat /\ n = m + (n - m) /\ (m < 12 => n - m = 0)
         /\ m + 1 > 12 => m + 1 = 13 /\ n >= 12 /\ n + 1 > 12
         /\ ~(m + 1 > 12) => n + 1 <= 12 /\ n = m
OBVIOUS

LEMMA RecentCycles ==
  ASSUME NEW h, NEW s, Recent(h, s), NEW p \in 2..MaxPeriod, NEW k \in 2..CycleLimit
  PROVE  EndsInCycle(h, p, k) <=> EndsInCycle(s, p, k)
<1> DEFINE d == Len(s) - Len(h)
           kp == k * p
<1>1. kp \in Nat /\ kp <= 12 /\ kp >= p /\ p \in Nat
  <2>1. (p = 2 \/ p = 3 \/ p = 4) /\ (k = 2 \/ k = 3)
    BY DEF MaxPeriod, CycleLimit
  <2> QED BY <2>1
<1>2. /\ Len(s) \in Nat /\ Len(h) \in Nat /\ d \in Nat /\ Len(s) = Len(h) + d
      /\ \A i \in 1..Len(h) : h[i] = s[d + i]
      /\ Len(h) < 12 => d = 0
  <2>1. Len(s) \in Nat /\ Len(h) \in Nat /\ d \in Nat /\ Len(s) = Len(h) + d
        /\ (Len(h) < 12 => d = 0)
    <3>1. /\ Len(h) \in Nat /\ Len(s) \in Nat
          /\ \/ Len(s) <= 12 /\ Len(h) = Len(s)
             \/ Len(s) > 12 /\ Len(h) = 12
      BY RecentFacts
    <3> DEFINE m == Len(h)
               n == Len(s)
    <3>2. m \in Nat /\ n \in Nat /\ ((n <= 12 /\ m = n) \/ (n > 12 /\ m = 12))
      BY <3>1
    <3> HIDE DEF m, n
    <3>3. n - m \in Nat /\ n = m + (n - m) /\ (m < 12 => n - m = 0)
      BY <3>2, RecentLengths
    <3> QED BY <3>1, <3>3 DEF m, n
  <2>2. \A i \in 1..Len(h) : h[i] = s[d + i]
    BY RecentFacts
  <2> QED BY <2>1, <2>2
<1> HIDE DEF d, kp
<1>3. Len(h) >= kp <=> Len(s) >= kp
  BY <1>1, <1>2
<1>4. ASSUME Len(h) >= kp, \A i \in Len(h) - kp + 1..Len(h) - p : h[i] = h[i + p],
             NEW i \in Len(s) - kp + 1..Len(s) - p
      PROVE  s[i] = s[i + p]
  <2>1. /\ i - d \in Len(h) - kp + 1..Len(h) - p /\ i - d \in 1..Len(h) /\ i - d + p \in 1..Len(h)
        /\ d + (i - d) = i /\ d + (i - d + p) = i + p
    BY <1>1, <1>2, <1>4
  <2> QED BY <1>2, <1>4, <2>1
<1>5. ASSUME Len(h) >= kp, \A i \in Len(s) - kp + 1..Len(s) - p : s[i] = s[i + p],
             NEW i \in Len(h) - kp + 1..Len(h) - p
      PROVE  h[i] = h[i + p]
  <2>1. /\ d + i \in Len(s) - kp + 1..Len(s) - p /\ i \in 1..Len(h) /\ i + p \in 1..Len(h)
        /\ d + (i + p) = d + i + p
    BY <1>1, <1>2, <1>5
  <2> QED BY <1>2, <1>5, <2>1
<1>6. /\ EndsInCycle(h, p, k) <=>
           Len(h) >= kp /\ \A i \in Len(h) - kp + 1..Len(h) - p : h[i] = h[i + p]
      /\ EndsInCycle(s, p, k) <=>
           Len(s) >= kp /\ \A i \in Len(s) - kp + 1..Len(s) - p : s[i] = s[i + p]
  BY DEF EndsInCycle, kp
<1>7. ASSUME EndsInCycle(h, p, k) PROVE EndsInCycle(s, p, k)
  BY <1>3, <1>4, <1>6, <1>7
<1>8. ASSUME EndsInCycle(s, p, k) PROVE EndsInCycle(h, p, k)
  BY <1>3, <1>5, <1>6, <1>8
<1> QED BY <1>7, <1>8

LEMMA AppendFacts ==
  ASSUME NEW S, NEW s \in Seq(S), NEW e \in S
  PROVE  /\ Append(s, e) \in Seq(S) /\ Len(s) \in Nat /\ Len(Append(s, e)) = Len(s) + 1
         /\ Append(s, e)[Len(s) + 1] = e /\ \A i \in 1..Len(s) : Append(s, e)[i] = s[i]
OBVIOUS

LEMMA TailFacts ==
  ASSUME NEW S, NEW s \in Seq(S), Len(s) > 1
  PROVE  /\ Tail(s) \in Seq(S) /\ Len(Tail(s)) = Len(s) - 1
         /\ \A i \in 1..Len(s) - 1 : Tail(s)[i] = s[i + 1]
OBVIOUS

LEMMA RecentStep ==
  ASSUME NEW s, Recent(history, s), NEW current \in Failures, current # None, failureLimit # 0
  PROVE  Recent(ObserveHistory(current), Append(s, current))
<1> DEFINE a == Append(s, current)
           h == Append(history, current)
           m == Len(history)
           n == Len(s)
<1>1. /\ history \in Seq(Failures) /\ s \in Seq(Failures)
      /\ m \in Nat /\ n \in Nat /\ ((n <= 12 /\ m = n) \/ (n > 12 /\ m = 12))
      /\ \A i \in 1..m : history[i] = s[n - m + i]
  BY RecentFacts
<1>2. /\ a \in Seq(Failures) /\ Len(a) = n + 1 /\ a[n + 1] = current
      /\ \A i \in 1..n : a[i] = s[i]
  BY <1>1, AppendFacts
<1>3. /\ h \in Seq(Failures) /\ Len(h) = m + 1 /\ h[m + 1] = current
      /\ \A i \in 1..m : h[i] = history[i]
  BY <1>1, AppendFacts
<1>4. ObserveHistory(current) = IF Len(h) > 12 THEN Tail(h) ELSE h
  BY DEF ObserveHistory, MaxPeriod, CycleLimit
<1> SUFFICES Recent(ObserveHistory(current), a)
  OBVIOUS
<1> HIDE DEF a, h, m, n
<1>5. ASSUME NEW i \in 1..m + 1 PROVE h[i] = a[n - m + i]
  <2>1. CASE i = m + 1
    <3>1. n - m + (m + 1) = n + 1
      BY <1>1
    <3> QED BY <1>2, <1>3, <2>1, <3>1
  <2>2. CASE i # m + 1
    <3>1. i \in 1..m
      BY <1>1, <2>2
    <3>2. n - m + i \in 1..n
      BY <1>1, <3>1
    <3> QED BY <1>1, <1>2, <1>3, <3>1, <3>2
  <2> QED BY <2>1, <2>2
<1>6. CASE m + 1 > 12
  <2> DEFINE t == Tail(h)
  <2>1. m = 12 /\ m + 1 = 13 /\ n >= 12 /\ n + 1 > 12
    BY <1>1, <1>6
  <2>2. Len(h) > 1 /\ Len(h) > 12 /\ Len(h) - 1 = 12
    BY <1>3, <2>1
  <2>3. t \in Seq(Failures) /\ Len(t) = 12 /\ \A i \in 1..12 : t[i] = h[i + 1]
    BY <1>3, <2>2, TailFacts
  <2> HIDE DEF t
  <2>4. ASSUME NEW i \in 1..12 PROVE t[i] = a[n + 1 - 12 + i]
    <3>1. i + 1 \in 1..m + 1 /\ n - m + (i + 1) = n + 1 - 12 + i
      BY <1>1, <2>1
    <3> QED BY <1>5, <2>3, <3>1
  <2>5. Recent(t, a)
    <3>1. \A i \in 1..Len(t) : t[i] = a[Len(a) - Len(t) + i]
      <4> SUFFICES ASSUME NEW i \in 1..Len(t) PROVE t[i] = a[Len(a) - Len(t) + i]
        OBVIOUS
      <4>1. Len(t) = 12 /\ Len(a) = n + 1
        BY <1>2, <2>3
      <4>2. t[i] = a[n + 1 - 12 + i]
        BY <2>4, <4>1
      <4> DEFINE k == Len(a)
                 l == Len(t)
      <4>3. k = n + 1 /\ l = 12 /\ n \in Nat /\ i \in Int
        BY <1>1, <4>1
      <4> HIDE DEF k, l
      <4>4. k - l + i = n + 1 - 12 + i
        BY <4>3
      <4> QED BY <4>2, <4>4 DEF k, l
    <3>2. Len(a) > 12 /\ Len(t) = 12
      BY <1>2, <2>1, <2>3
    <3>3. (Len(a) <= 12 /\ Len(t) = Len(a)) \/ (Len(a) > 12 /\ Len(t) = 12)
      BY <3>2
    <3>4. t \in Seq(Failures) /\ a \in Seq(Failures)
      BY <1>2, <2>3
    <3> QED BY <3>1, <3>3, <3>4, RecentIntro
  <2> QED BY <1>4, <2>2, <2>5 DEF t
<1>7. CASE ~(m + 1 > 12)
  <2>1. m = n /\ n + 1 <= 12
    BY <1>1, <1>7
  <2>2. Recent(h, a)
    <3>1. \A i \in 1..Len(h) : h[i] = a[Len(a) - Len(h) + i]
      <4> SUFFICES ASSUME NEW i \in 1..Len(h) PROVE h[i] = a[Len(a) - Len(h) + i]
        OBVIOUS
      <4>1. Len(h) = m + 1 /\ Len(a) = n + 1 /\ n + 1 - (m + 1) = n - m
        BY <1>1, <1>2, <1>3
      <4>2. h[i] = a[n - m + i]
        BY <1>5, <4>1
      <4> DEFINE k == Len(a)
                 l == Len(h)
      <4>3. k = n + 1 /\ l = m + 1 /\ n \in Nat /\ m \in Nat /\ i \in Int
        BY <1>1, <4>1
      <4> HIDE DEF k, l
      <4>4. k - l + i = n - m + i
        BY <4>3
      <4> QED BY <4>2, <4>4 DEF k, l
    <3>2. Len(a) <= 12 /\ Len(h) = Len(a)
      BY <1>2, <1>3, <2>1
    <3>3. (Len(a) <= 12 /\ Len(h) = Len(a)) \/ (Len(a) > 12 /\ Len(h) = 12)
      BY <3>2
    <3>4. h \in Seq(Failures) /\ a \in Seq(Failures)
      BY <1>2, <1>3
    <3> QED BY <3>1, <3>3, <3>4, RecentIntro
  <2> QED BY <1>3, <1>4, <1>7, <2>2
<1> QED BY <1>6, <1>7

(* A cycle that is seen three times was seen twice a round before.         *)
LEMMA CycleBefore ==
  ASSUME NEW S, NEW s \in Seq(S), NEW current \in S, NEW p \in 2..MaxPeriod,
         EndsInCycle(Append(s, current), p, CycleLimit)
  PROVE  EndsInCycle(s, p, 2)
<1> DEFINE a == Append(s, current)
<1>1. /\ Len(s) \in Nat /\ Len(a) = Len(s) + 1 /\ p \in Nat /\ p >= 2
      /\ \A i \in 1..Len(s) : a[i] = s[i]
  OBVIOUS
<1>2. Len(a) >= 3 * p /\ \A i \in Len(a) - 3 * p + 1..Len(a) - p : a[i] = a[i + p]
  BY DEF EndsInCycle, CycleLimit
<1> HIDE DEF a
<1>3. Len(s) >= 2 * p
  BY <1>1, <1>2
<1>4. ASSUME NEW i \in Len(s) - 2 * p + 1..Len(s) - p PROVE s[i] = s[i + p]
  <2>1. i \in Len(a) - 3 * p + 1..Len(a) - p /\ i \in 1..Len(s) /\ i + p \in 1..Len(s)
    BY <1>1, <1>3
  <2> QED BY <1>1, <1>2, <2>1
<1> QED BY <1>3, <1>4 DEF EndsInCycle

-----------------------------------------------------------------------------
(***************************************************************************)
(* The invariant: while the loop turns, every tracker measures its streak. *)
(* What a tracker had measured one round earlier is where the warning came *)
(* from, so the strengthening says which measures have been warned of.     *)
(***************************************************************************)
CountsBounded ==
  /\ turns \in Nat /\ malformed.count <= turns /\ failure.count <= turns
  /\ allErrors <= turns /\ (status = "running" => turns < MaxTurns)

Measures ==
  /\ Tracks(malformed, badStreak)
  /\ allErrors = errorStreak
  /\ failureLimit > 0 => Tracks(failure, streak) /\ Recent(history, streak)
  /\ failureLimit = 0 => streak = <<>> /\ history = <<>>

WarnedOf ==
  status = "running" /\ failureLimit > ExactWarning =>
    /\ cycleWarned => warned
    /\ failure.count >= ExactWarning => warned
    /\ DetectCycle(history).repetitions >= CycleWarning => warned
    /\ allErrors >= AllErrorWarning => warned

GuardsInv == TypeOK /\ CountsBounded /\ Measures /\ WarnedOf /\ BreakersExact

LEMMA RoundFacts ==
  ASSUME NEW r \in Rounds, ToolRound(r)
  PROVE  /\ status = "running" /\ turns' = turns + 1 /\ failureLimit' = failureLimit
         /\ malformed' = Observe(malformed, r.malformed)
         /\ failure' = Observe(failure, r.failure)
         /\ allErrors' = (IF r.allError THEN allErrors + 1 ELSE 0)
         /\ history' = ObserveHistory(r.failure)
         /\ status' = Verdict(malformed', failure', allErrors', DetectCycle(history'), turns')
         /\ streak' = IF failureLimit = 0 \/ r.failure = None THEN <<>>
                      ELSE Append(streak, r.failure)
         /\ errorStreak' = (IF r.allError THEN errorStreak + 1 ELSE 0)
         /\ badStreak' = IF r.malformed = None THEN <<>> ELSE Append(badStreak, r.malformed)
         /\ r.malformed \in Malformed \cup {None} /\ r.failure \in Failures \cup {None}
         /\ r.allError \in BOOLEAN /\ (r.allError => r.failure # None)
<1>1. /\ r.malformed \in Malformed \cup {None} /\ r.failure \in Failures \cup {None}
      /\ r.allError \in BOOLEAN /\ (r.allError => r.failure # None)
  BY DEF Rounds
<1> QED BY <1>1 DEF ToolRound, ObserveAllError

(* A warning that is given, or a mark left by an earlier one, is recorded. *)
LEMMA RoundWarnings ==
  ASSUME NEW r \in Rounds, ToolRound(r), status' = "running"
  PROVE  LET w == Warning(failure', allErrors', DetectCycle(history'))
         IN /\ cycleWarned' <=> DetectCycle(history') # NoCycle /\ (cycleWarned \/ w = "cycle")
            /\ warned' <=> r.failure # None /\ (warned \/ w # "no")
BY DEF ToolRound

LEMMA RoundUnwarned ==
  ASSUME NEW r \in Rounds, ToolRound(r)
  PROVE  r.failure # None /\ warned => warned'
BY DEF ToolRound

LEMMA RoundMeasures ==
  ASSUME TypeOK, Measures, NEW r \in Rounds, ToolRound(r)
  PROVE  Measures' /\ history' \in Seq(Failures) /\ Len(history') <= MaxPeriod * CycleLimit
         /\ streak' \in Seq(Failures) /\ badStreak' \in Seq(Malformed)
<1> USE RoundFacts
<1>1. None \notin Failures /\ None \notin Malformed
  BY FingerprintsAssumption
<1>2. failureLimit \in Nat
  BY LimitsAssumption DEF TypeOK
<1>3. Tracks(malformed', badStreak') /\ badStreak' \in Seq(Malformed)
  <2>1. CASE r.malformed = None
    <3>1. malformed' = NoneSeen /\ badStreak' = <<>>
      BY <2>1 DEF Observe
    <3> QED BY <3>1 DEF Tracks
  <2>2. CASE r.malformed # None
    <3>1. /\ r.malformed \in Malformed /\ badStreak' = Append(badStreak, r.malformed)
          /\ malformed' = Observe(malformed, r.malformed)
          /\ badStreak \in Seq(Malformed) /\ Tracks(malformed, badStreak)
      BY <2>2 DEF TypeOK, Measures
    <3>2. Append(badStreak, r.malformed) \in Seq(Malformed)
      BY <3>1
    <3> QED BY <1>1, <3>1, <3>2, TracksStep
  <2> QED BY <2>1, <2>2
<1>4. allErrors' = errorStreak'
  BY DEF Measures
<1>5. CASE failureLimit = 0 \/ r.failure = None
  <2>1. streak' = <<>> /\ history' = <<>>
    BY <1>5 DEF ObserveHistory
  <2>2. Recent(<<>>, <<>>)
    <3>1. <<>> \in Seq(Failures) /\ Len(<<>>) = 0 /\ 0 <= 12
      OBVIOUS
    <3>2. 12 = MaxPeriod * CycleLimit /\ 1..0 = {}
      BY DEF MaxPeriod, CycleLimit
    <3> QED BY <3>1, <3>2 DEF Recent
  <2>3. failureLimit > 0 => failure' = NoneSeen
    BY <1>2, <1>5 DEF Observe
  <2>4. Tracks(NoneSeen, <<>>)
    BY DEF Tracks
  <2>5. Len(history') <= MaxPeriod * CycleLimit /\ <<>> \in Seq(Failures)
    BY <2>1 DEF MaxPeriod, CycleLimit
  <2> QED BY <1>3, <1>4, <2>1, <2>2, <2>3, <2>4, <2>5 DEF Measures
<1>6. CASE failureLimit # 0 /\ r.failure # None
  <2>1. /\ failureLimit > 0 /\ r.failure \in Failures
        /\ streak' = Append(streak, r.failure) /\ history' = ObserveHistory(r.failure)
        /\ failure' = Observe(failure, r.failure)
    BY <1>2, <1>6
  <2>2. Tracks(failure, streak) /\ Recent(history, streak) /\ streak \in Seq(Failures)
    BY <2>1 DEF Measures, TypeOK
  <2>3. Tracks(failure', streak')
    BY <1>1, <2>1, <2>2, TracksStep
  <2>4. Recent(history', streak')
    BY <1>1, <1>6, <2>1, <2>2, RecentStep
  <2>5. Len(history') <= MaxPeriod * CycleLimit
    <3>1. /\ Len(history') \in Nat
          /\ \/ Len(streak') <= 12 /\ Len(history') = Len(streak')
             \/ Len(streak') > 12 /\ Len(history') = 12
      BY <2>4, RecentFacts
    <3> DEFINE k == Len(history')
               l == Len(streak')
    <3>2. (l <= 12 /\ k = l) \/ (l > 12 /\ k = 12)
      BY <3>1
    <3> HIDE DEF k, l
    <3>3. k <= 12
      BY <3>2
    <3>4. Len(history') <= 12
      BY <3>3 DEF k
    <3> QED BY <3>4 DEF MaxPeriod, CycleLimit
  <2>6. history' \in Seq(Failures) /\ streak' \in Seq(Failures)
    BY <2>4 DEF Recent
  <2> QED BY <1>2, <1>3, <1>4, <1>6, <2>3, <2>4, <2>5, <2>6 DEF Measures
<1> QED BY <1>5, <1>6

(* The measures do not outrun the turns, which are bounded.                *)
LEMMA RoundCounts ==
  ASSUME TypeOK, CountsBounded, NEW r \in Rounds, ToolRound(r)
  PROVE  /\ CountsBounded' /\ turns' \in 0..MaxTurns /\ allErrors' \in Nat
         /\ malformed'.last \in Malformed \cup {None} /\ malformed'.count \in Nat
         /\ failure'.last \in Failures \cup {None} /\ failure'.count \in Nat
         /\ status' \in {"running"} \cup Endings
<1> USE RoundFacts
<1>1. /\ turns \in Nat /\ turns < MaxTurns /\ turns' = turns + 1 /\ MaxTurns \in Nat
      /\ allErrors \in Nat /\ malformed.count \in Nat /\ failure.count \in Nat
      /\ malformed.count <= turns /\ failure.count <= turns /\ allErrors <= turns
  BY LimitsAssumption DEF TypeOK, CountsBounded
<1>2. malformed'.last = r.malformed /\ malformed'.count \in {0, 1, malformed.count + 1}
  BY DEF Observe, NoneSeen
<1>3. failure'.last = r.failure /\ failure'.count \in {0, 1, failure.count + 1}
  BY DEF Observe, NoneSeen
<1>4. allErrors' \in {0, allErrors + 1}
  OBVIOUS
<1>5. status' = "running" => turns' < MaxTurns
  <2>1. status' = Verdict(malformed', failure', allErrors', DetectCycle(history'), turns')
    OBVIOUS
  <2>2. status' = "running" => ~BudgetReached(turns')
    BY <2>1 DEF Verdict
  <2> QED BY <1>1, <2>2 DEF BudgetReached
<1>6. status' \in {"running"} \cup Endings
  <2>1. status' = Verdict(malformed', failure', allErrors', DetectCycle(history'), turns')
    OBVIOUS
  <2> QED BY <2>1 DEF Verdict, Endings
<1> QED BY <1>1, <1>2, <1>3, <1>4, <1>5, <1>6 DEF CountsBounded

(* Whatever the loop could be ended for next has been warned of.           *)
LEMMA RoundWarned ==
  ASSUME TypeOK, CountsBounded, Measures, WarnedOf, NEW r \in Rounds, ToolRound(r)
  PROVE  WarnedOf'
<1> DEFINE cycle == DetectCycle(history')
           w == Warning(failure', allErrors', cycle)
<1> SUFFICES ASSUME status' = "running", failureLimit > 2
             PROVE  /\ cycleWarned' => warned'
                    /\ failure'.count >= 2 => warned'
                    /\ cycle.repetitions >= 2 => warned'
                    /\ allErrors' >= 3 => warned'
  BY RoundFacts DEF WarnedOf, ExactWarning, CycleWarning, AllErrorWarning
<1>1. /\ cycleWarned' <=> cycle # NoCycle /\ (cycleWarned \/ w = "cycle")
      /\ warned' <=> r.failure # None /\ (warned \/ w # "no")
  BY RoundWarnings
<1>2. /\ status = "running" /\ failureLimit \in Nat /\ failureLimit # 0
      /\ failure.count \in Nat /\ allErrors \in Nat
  BY RoundFacts, LimitsAssumption DEF TypeOK
<1>3. /\ cycleWarned => warned
      /\ failure.count >= 2 => warned
      /\ allErrors >= 3 => warned
  BY <1>2 DEF WarnedOf, ExactWarning, CycleWarning, AllErrorWarning
<1>4. /\ cycle.repetitions \in Nat
      /\ cycle # NoCycle <=> cycle.repetitions >= 2
  <2>1. history' \in Seq(Failures) /\ Len(history') <= MaxPeriod * CycleLimit /\ 2 \in 2..CycleLimit
    BY RoundMeasures DEF CycleLimit
  <2> QED BY <2>1, DetectedCycle
<1>5. cycle.repetitions < 3
  <2>1. status' = Verdict(malformed', failure', allErrors', cycle, turns')
    BY RoundFacts
  <2>2. ~(cycle.repetitions >= CycleLimit)
    BY <2>1 DEF Verdict
  <2> QED BY <1>4, <2>2 DEF CycleLimit
<1>6. cycle.repetitions >= 2 => r.failure # None
  <2>1. r.failure = None => history' = <<>>
    BY RoundFacts DEF ObserveHistory
  <2>2. DetectCycle(<<>>).repetitions = 0
    <3>1. \A p \in 2..MaxPeriod : ~(p <= Len(<<>>) \div 2)
      BY DEF MaxPeriod
    <3>2. {q \in 2..MaxPeriod : q <= Len(<<>>) \div 2} = {}
      BY <3>1
    <3> QED BY <3>2 DEF DetectCycle, NoCycle
  <2> QED BY <2>1, <2>2
<1>7. w = IF failure'.count = 2 THEN "exact"
          ELSE IF cycle.repetitions = 2 /\ ~cycleWarned THEN "cycle"
          ELSE IF allErrors' = 3 THEN "all_error" ELSE "no"
  BY <1>2 DEF Warning, ExactWarning, CycleWarning, AllErrorWarning, AllErrorTrackerLimit,
              AllErrorLimit
<1> HIDE DEF cycle, w
<1>8. cycleWarned' => warned'
  BY <1>1, <1>3, <1>4, <1>6
<1>9. failure'.count >= 2 => warned'
  <2>1. SUFFICES ASSUME failure'.count >= 2 PROVE warned'
    OBVIOUS
  <2>2. r.failure # None /\ failure'.count \in {1, failure.count + 1}
    BY <2>1, RoundFacts DEF Observe, NoneSeen
  <2>3. failure'.count = 2 \/ failure.count >= 2
    BY <1>2, <2>1, <2>2
  <2> QED BY <1>1, <1>3, <1>7, <2>2, <2>3
<1>10. cycle.repetitions >= 2 => warned'
  <2>1. cycle.repetitions >= 2 => cycle.repetitions = 2
    BY <1>4, <1>5
  <2> QED BY <1>1, <1>3, <1>6, <1>7, <2>1
<1>11. allErrors' >= 3 => warned'
  <2>1. SUFFICES ASSUME allErrors' >= 3 PROVE warned'
    OBVIOUS
  <2>2. r.failure # None /\ allErrors' = allErrors + 1
    BY <2>1, RoundFacts
  <2>3. allErrors' = 3 \/ allErrors >= 3
    BY <1>2, <2>1, <2>2
  <2> QED BY <1>1, <1>3, <1>7, <2>2, <2>3
<1> QED BY <1>8, <1>9, <1>10, <1>11

(* A round is judged as its streaks say, and a run it ends was warned of.  *)
LEMMA RoundJudged ==
  ASSUME TypeOK, CountsBounded, Measures, WarnedOf, NEW r \in Rounds, ToolRound(r), Measures'
  PROVE  BreakersExact'
<1> DEFINE cycle == DetectCycle(history')
           fails == \/ Exceeded(failure'.count, failureLimit)
                    \/ cycle.repetitions >= CycleLimit
                    \/ Exceeded(allErrors', AllErrorTrackerLimit)
           bad == Exceeded(malformed'.count, MalformedLimit)
<1>1. /\ failureLimit' = failureLimit /\ failureLimit \in Nat /\ MalformedLimit \in Nat
      /\ errorStreak' = allErrors' /\ allErrors' \in Nat /\ status = "running"
      /\ malformed'.count \in Nat /\ failure'.count \in Nat
  BY RoundFacts, RoundCounts, LimitsAssumption DEF TypeOK, Measures
<1>2. /\ history' \in Seq(Failures) /\ Len(history') <= MaxPeriod * CycleLimit
      /\ streak' \in Seq(Failures) /\ badStreak' \in Seq(Malformed)
  BY RoundMeasures
<1>3. status' = IF bad THEN "malformed" ELSE IF fails THEN "tool_failure"
                ELSE IF BudgetReached(turns') THEN "turn_budget" ELSE "running"
  BY RoundFacts DEF Verdict
<1>4. cycle.repetitions >= CycleLimit <=> \E p \in 2..MaxPeriod : EndsInCycle(history', p, CycleLimit)
  <2>1. CycleLimit \in 2..CycleLimit
    BY DEF CycleLimit
  <2> QED BY <1>2, <2>1, DetectedCycle
<1>5. bad <=> MalformedLimit > 0 /\ EndsInRun(badStreak', MalformedLimit)
  <2>1. CASE MalformedLimit = 0
    BY <2>1 DEF Exceeded
  <2>2. CASE MalformedLimit \in Nat \ {0}
    <3>1. Tracks(malformed', badStreak')
      BY DEF Measures
    <3>2. malformed'.count >= MalformedLimit <=> EndsInRun(badStreak', MalformedLimit)
      BY <1>2, <2>2, <3>1, TracksExactly
    <3> QED BY <1>1, <2>2, <3>2 DEF Exceeded
  <2> QED BY <1>1, <2>1, <2>2
<1> HIDE DEF bad
<1>6. fails <=> /\ failureLimit > 0
                /\ \/ EndsInRun(streak', failureLimit)
                   \/ \E p \in 2..MaxPeriod : EndsInCycle(streak', p, CycleLimit)
                   \/ errorStreak' >= AllErrorLimit
  <2>1. CASE failureLimit = 0
    <3>1. history' = <<>>
      BY <1>1, <2>1 DEF Measures
    <3>2. \A p \in 2..MaxPeriod : ~EndsInCycle(<<>>, p, CycleLimit)
      <4> SUFFICES ASSUME NEW p \in 2..MaxPeriod PROVE ~(0 >= CycleLimit * p)
        BY DEF EndsInCycle
      <4> QED BY DEF CycleLimit, MaxPeriod
    <3> QED BY <1>1, <1>4, <2>1, <3>1, <3>2 DEF Exceeded, AllErrorTrackerLimit
  <2>2. CASE failureLimit \in Nat \ {0}
    <3>1. Tracks(failure', streak') /\ Recent(history', streak')
      BY <1>1, <2>2 DEF Measures
    <3>2. failure'.count >= failureLimit <=> EndsInRun(streak', failureLimit)
      BY <1>2, <2>2, <3>1, TracksExactly
    <3>3. \A p \in 2..MaxPeriod :
            EndsInCycle(history', p, CycleLimit) <=> EndsInCycle(streak', p, CycleLimit)
      <4>1. CycleLimit \in 2..CycleLimit
        BY DEF CycleLimit
      <4> QED BY <3>1, <4>1, RecentCycles
    <3>4. failureLimit > 0 /\ AllErrorTrackerLimit = AllErrorLimit /\ AllErrorLimit > 0
      BY <2>2 DEF AllErrorTrackerLimit, AllErrorLimit
    <3> HIDE DEF cycle
    <3> QED BY <1>1, <1>4, <3>2, <3>3, <3>4 DEF Exceeded
  <2> QED BY <1>1, <2>1, <2>2
<1>7. MalformedBreakerExact'
  BY <1>3, <1>5 DEF MalformedBreakerExact
<1>8. FailureBreakerExact'
  <2> HIDE DEF fails
  <2> QED BY <1>1, <1>3, <1>6 DEF FailureBreakerExact
<1>9. WarnedBeforeFinalize'
  <2> SUFFICES ASSUME status' = "tool_failure", failureLimit > 2 PROVE warned'
    BY <1>1 DEF WarnedBeforeFinalize, ExactWarning
  <2> SUFFICES r.failure # None /\ warned
    BY RoundUnwarned
  <2>1. fails /\ failureLimit # 0
    BY <1>1, <1>3
  <2>2. /\ failure.count >= 2 => warned
        /\ DetectCycle(history).repetitions >= 2 => warned
        /\ allErrors >= 3 => warned
    BY <1>1 DEF WarnedOf, ExactWarning, CycleWarning, AllErrorWarning
  <2>3. CASE Exceeded(failure'.count, failureLimit)
    <3>1. failure'.count >= 3
      BY <1>1, <2>3 DEF Exceeded
    <3>2. r.failure # None /\ failure'.count \in {1, failure.count + 1}
      BY <3>1, RoundFacts DEF Observe, NoneSeen
    <3>3. failure.count \in Nat
      BY DEF TypeOK
    <3> QED BY <2>2, <3>1, <3>2, <3>3
  <2>4. CASE cycle.repetitions >= CycleLimit
    <3>1. PICK p \in 2..MaxPeriod : EndsInCycle(history', p, CycleLimit)
      BY <1>4, <2>4
    <3>2. Recent(history', streak') /\ CycleLimit \in 2..CycleLimit
      BY <1>1, <2>1 DEF Measures, CycleLimit
    <3>3. EndsInCycle(streak', p, CycleLimit)
      BY <3>1, <3>2, RecentCycles
    <3>4. r.failure # None
      <4>1. ~EndsInCycle(<<>>, p, CycleLimit)
        <5>1. ~(0 >= CycleLimit * p)
          BY DEF CycleLimit, MaxPeriod
        <5> QED BY <5>1 DEF EndsInCycle
      <4> QED BY <3>3, <4>1, RoundFacts
    <3>5. /\ streak' = Append(streak, r.failure) /\ r.failure \in Failures
          /\ streak \in Seq(Failures)
      BY <2>1, <3>4, RoundFacts DEF TypeOK
    <3>6. EndsInCycle(streak, p, 2)
      BY <3>3, <3>5, CycleBefore
    <3>7. Recent(history, streak) /\ 2 \in 2..CycleLimit
      BY <1>1, <2>1 DEF Measures, CycleLimit
    <3>8. EndsInCycle(history, p, 2)
      BY <3>6, <3>7, RecentCycles
    <3>9. DetectCycle(history).repetitions >= 2
      <4>1. history \in Seq(Failures) /\ Len(history) <= MaxPeriod * CycleLimit
        BY DEF TypeOK
      <4> QED BY <3>7, <3>8, <4>1, DetectedCycle
    <3> QED BY <2>2, <3>4, <3>9
  <2>5. CASE Exceeded(allErrors', AllErrorTrackerLimit)
    <3>1. allErrors' >= 8
      BY <1>1, <2>1, <2>5 DEF Exceeded, AllErrorTrackerLimit, AllErrorLimit
    <3>2. r.failure # None /\ allErrors' = allErrors + 1 /\ allErrors \in Nat
      BY <3>1, RoundFacts DEF TypeOK
    <3> QED BY <2>2, <3>1, <3>2
  <2> QED BY <2>1, <2>3, <2>4, <2>5
<1> QED BY <1>7, <1>8, <1>9 DEF BreakersExact

LEMMA GuardsInit == Init => GuardsInv
<1> SUFFICES ASSUME Init PROVE GuardsInv
  OBVIOUS
<1>1. failureLimit \in Nat /\ MaxTurns \in Nat /\ MaxTurns > 0 /\ MalformedLimit \in Nat
  BY LimitsAssumption DEF Init
<1>2. Len(<<>>) = 0 /\ \A S : <<>> \in Seq(S)
  OBVIOUS
<1>3. TypeOK
  <2>1. /\ failureLimit \in FailureLimits /\ turns \in 0..MaxTurns /\ allErrors \in 0..MaxTurns
        /\ errorStreak \in 0..MaxTurns
    BY <1>1 DEF Init
  <2>5. status = "running" /\ cycleWarned \in BOOLEAN /\ warned \in BOOLEAN
    BY DEF Init
  <2>2. /\ malformed.last = None /\ malformed.count = 0 /\ failure.last = None
        /\ failure.count = 0
    BY DEF Init, NoneSeen
  <2>3. /\ history \in Seq(Failures) /\ streak \in Seq(Failures) /\ badStreak \in Seq(Malformed)
    BY <1>2 DEF Init
  <2>4. Len(history) <= MaxPeriod * CycleLimit
    BY <1>2 DEF Init, MaxPeriod, CycleLimit
  <2> QED BY <1>1, <2>1, <2>2, <2>3, <2>4, <2>5 DEF TypeOK
<1>4. CountsBounded
  BY <1>1 DEF Init, CountsBounded, NoneSeen
<1>5. Recent(<<>>, <<>>)
  <2>1. 12 = MaxPeriod * CycleLimit /\ 1..0 = {}
    BY DEF MaxPeriod, CycleLimit
  <2> QED BY <1>2, <2>1 DEF Recent
<1>6. Measures
  BY <1>5 DEF Init, Measures, Tracks
<1>7. \A p \in 2..MaxPeriod, k \in 2..CycleLimit : ~EndsInCycle(<<>>, p, k)
  <2> SUFFICES ASSUME NEW p \in 2..MaxPeriod, NEW k \in 2..CycleLimit PROVE ~(0 >= k * p)
    BY <1>2 DEF EndsInCycle
  <2>1. (p = 2 \/ p = 3 \/ p = 4) /\ (k = 2 \/ k = 3)
    BY DEF MaxPeriod, CycleLimit
  <2> QED BY <2>1
<1>8. ~(DetectCycle(<<>>).repetitions >= 2)
  <2>1. Len(<<>>) <= MaxPeriod * CycleLimit /\ 2 \in 2..CycleLimit
    BY <1>2 DEF MaxPeriod, CycleLimit
  <2> QED BY <1>2, <1>7, <2>1, DetectedCycle
<1>9. WarnedOf
  BY <1>8 DEF Init, WarnedOf, NoneSeen, ExactWarning, CycleWarning, AllErrorWarning
<1>10. \A k \in Nat : k > 0 => ~EndsInRun(<<>>, k)
  BY <1>2 DEF EndsInRun
<1>11. BreakersExact
  <2>1. CycleLimit \in 2..CycleLimit
    BY DEF CycleLimit
  <2>2. FailureBreakerExact
    BY <1>1, <1>7, <1>10, <2>1 DEF Init, FailureBreakerExact, AllErrorLimit
  <2> QED BY <1>1, <1>10, <2>2
          DEF Init, BreakersExact, MalformedBreakerExact, WarnedBeforeFinalize
<1> QED BY <1>3, <1>4, <1>6, <1>9, <1>11 DEF GuardsInv

LEMMA GuardsStep == GuardsInv /\ [Next]_vars => GuardsInv'
<1> SUFFICES ASSUME GuardsInv, [Next]_vars PROVE GuardsInv'
  OBVIOUS
<1> USE DEF GuardsInv
<1>1. CASE Answer
  <2> USE <1>1
  <2>1. /\ UNCHANGED <<failureLimit, malformed, failure, allErrors, history, cycleWarned>>
        /\ UNCHANGED <<streak, errorStreak, badStreak, warned>>
        /\ status' = "answer" /\ turns' = turns + 1 /\ status = "running"
    BY DEF Answer, trackers, observers
  <2>2. turns \in Nat /\ turns < MaxTurns /\ MaxTurns \in Nat
    BY <2>1, LimitsAssumption DEF TypeOK, CountsBounded
  <2>3. TypeOK'
    BY <2>1, <2>2 DEF TypeOK, Endings
  <2>4. CountsBounded'
    BY <2>1, <2>2 DEF TypeOK, CountsBounded
  <2>5. Measures'
    BY <2>1 DEF Measures
  <2>6. WarnedOf' /\ BreakersExact'
    BY <2>1 DEF WarnedOf, BreakersExact, FailureBreakerExact, MalformedBreakerExact,
                WarnedBeforeFinalize
  <2> QED BY <2>3, <2>4, <2>5, <2>6
<1>2. ASSUME NEW r \in Rounds, ToolRound(r) PROVE GuardsInv'
  <2>1. Measures'
    BY <1>2, RoundMeasures
  <2>2. WarnedOf'
    BY <1>2, RoundWarned
  <2>3. BreakersExact'
    BY <1>2, <2>1, RoundJudged
  <2>4. CountsBounded'
    BY <1>2, RoundCounts
  <2>5. TypeOK'
    <3>1. failureLimit' \in FailureLimits
      BY <1>2, RoundFacts DEF TypeOK
    <3>2. cycleWarned' \in BOOLEAN /\ warned' \in BOOLEAN
      BY <1>2 DEF ToolRound
    <3>3. /\ turns' \in 0..MaxTurns /\ allErrors' \in Nat
          /\ malformed'.last \in Malformed \cup {None} /\ malformed'.count \in Nat
          /\ failure'.last \in Failures \cup {None} /\ failure'.count \in Nat
          /\ status' \in {"running"} \cup Endings
      BY <1>2, RoundCounts
    <3>4. /\ malformed'.count <= turns' /\ failure'.count <= turns' /\ allErrors' <= turns'
      BY <2>4 DEF CountsBounded
    <3>5. /\ malformed'.count \in 0..MaxTurns /\ failure'.count \in 0..MaxTurns
          /\ allErrors' \in 0..MaxTurns
      BY <3>3, <3>4, LimitsAssumption
    <3>6. /\ history' \in Seq(Failures) /\ Len(history') <= MaxPeriod * CycleLimit
          /\ streak' \in Seq(Failures) /\ badStreak' \in Seq(Malformed)
      BY <1>2, RoundMeasures
    <3>7. errorStreak' \in 0..MaxTurns
      BY <2>1, <3>5 DEF Measures
    <3> QED BY <3>1, <3>2, <3>3, <3>5, <3>6, <3>7 DEF TypeOK
  <2> QED BY <2>1, <2>2, <2>3, <2>4, <2>5
<1>3. CASE UNCHANGED vars
  <2>1. /\ UNCHANGED <<failureLimit, turns, status>>
        /\ UNCHANGED <<malformed, failure, allErrors, history, cycleWarned>>
        /\ UNCHANGED <<streak, errorStreak, badStreak, warned>>
    BY <1>3 DEF vars, trackers, observers
  <2>2. TypeOK' /\ CountsBounded'
    BY <2>1 DEF TypeOK, CountsBounded
  <2>3. Measures' /\ WarnedOf'
    BY <2>1 DEF Measures, WarnedOf
  <2>4. BreakersExact'
    BY <2>1 DEF BreakersExact, FailureBreakerExact, MalformedBreakerExact, WarnedBeforeFinalize
  <2> QED BY <2>2, <2>3, <2>4
<1> QED BY <1>1, <1>2, <1>3 DEF Next

LEMMA GuardsInvariant == Spec => []GuardsInv
<1> QED BY GuardsInit, GuardsStep, PTL DEF Spec

(* Every state of the guards has its type, the trackers' counts are within *)
(* the turn budget and the cycle history within its bound.                 *)
THEOREM GuardsTypeCorrect == Spec => []TypeOK
<1>1. GuardsInv => TypeOK
  BY DEF GuardsInv
<1> QED BY GuardsInvariant, <1>1, PTL

(* The breakers of turn.rs fire exactly when the streaks of rounds, which  *)
(* no code keeps, say so, and the failure breakers never without warning.  *)
THEOREM BreakersAreExact == Spec => []BreakersExact
<1>1. GuardsInv => BreakersExact
  BY DEF GuardsInv
<1> QED BY GuardsInvariant, <1>1, PTL

-----------------------------------------------------------------------------

Below == {ss \in Nat \X Nat : ss[1] < ss[2]}

LEMMA LeastNatural ==
  ASSUME NEW S, S \subseteq Nat, S # {}
  PROVE  \E m \in S : \A k \in S : m <= k
<1>1. IsWellFoundedOn(Below, Nat)
  BY NatLessThanWellFounded DEF OpToRel, Below
<1>2. PICK m \in S : \A k \in S : <<k, m>> \notin Below
  BY <1>1, WFMin
<1>3. ASSUME NEW k \in S PROVE m <= k
  <2>1. k \in Nat /\ m \in Nat /\ ~(k < m)
    BY <1>2 DEF Below
  <2> QED BY <2>1
<1> QED BY <1>3

LEMMA NatSetInduction ==
  ASSUME NEW S, 0 \in S, \A n \in Nat : n \in S => n + 1 \in S
  PROVE  Nat \subseteq S
<1> SUFFICES ASSUME Nat \ S # {} PROVE FALSE
  OBVIOUS
<1>1. PICK m \in Nat \ S : \A k \in Nat \ S : m <= k
  BY LeastNatural
<1>2. m - 1 \in Nat /\ ~(m <= m - 1)
  OBVIOUS
<1> QED BY <1>1, <1>2

(* upto picks from all the entries at kept, position by position.          *)
Picks(upto, all, kept) ==
  upto = [n \in 0..Len(all) |->
            IF n = 0 THEN <<>>
            ELSE IF n \in kept THEN Append(upto[n - 1], all[n]) ELSE upto[n - 1]]

LEMMA PicksExist ==
  ASSUME NEW all, NEW kept, NEW n \in Nat, Len(all) = n
  PROVE  \E upto : Picks(upto, all, kept)
<1> DEFINE Then(s, k) == IF k \in kept THEN Append(s, all[k]) ELSE s
           Is(upto, m) == upto = [k \in 0..m |-> IF k = 0 THEN <<>> ELSE Then(upto[k - 1], k)]
           S == {m \in Nat : \E upto : Is(upto, m)}
<1>1. 0 \in S
  <2>1. Is([k \in 0..0 |-> <<>>], 0)
    OBVIOUS
  <2> QED BY <2>1
<1>2. ASSUME NEW m \in Nat, m \in S PROVE m + 1 \in S
  <2>1. PICK upto : Is(upto, m)
    BY <1>2
  <2> HIDE DEF Then
  <2> DEFINE new == [k \in 0..m + 1 |-> IF k = m + 1 THEN Then(upto[m], m + 1) ELSE upto[k]]
  <2>2. ASSUME NEW k \in 0..m + 1 PROVE new[k] = IF k = 0 THEN <<>> ELSE Then(new[k - 1], k)
    <3>1. CASE k = m + 1
      <4>1. new[m] = upto[m] /\ new[k] = Then(upto[m], m + 1) /\ k - 1 = m /\ k # 0
        BY <3>1
      <4> QED BY <3>1, <4>1
    <3>2. CASE k # m + 1 /\ k # 0
      <4>1. k \in 0..m /\ k - 1 \in 0..m + 1 /\ k - 1 # m + 1
        BY <3>2
      <4>2. new[k] = upto[k] /\ new[k - 1] = upto[k - 1]
        BY <4>1
      <4>3. upto[k] = Then(upto[k - 1], k)
        BY <2>1, <3>2, <4>1
      <4> QED BY <3>2, <4>2, <4>3
    <3>3. CASE k = 0
      BY <2>1, <3>3
    <3> QED BY <3>1, <3>2, <3>3
  <2>3. new = [k \in 0..m + 1 |-> new[k]]
    OBVIOUS
  <2> HIDE DEF new
  <2>4. Is(new, m + 1)
    BY <2>2, <2>3
  <2> HIDE DEF Is
  <2> QED BY <2>4
<1> HIDE DEF S
<1>3. n \in S
  BY <1>1, <1>2, NatSetInduction
<1> QED BY <1>3 DEF S, Picks

(* s lists the entries of all at kept, the k-th of them from at[k].        *)
Lists(s, at, all, kept) ==
  /\ Len(s) \in Nat /\ at \in [1..Len(s) -> kept]
  /\ \A k \in 1..Len(s) : s[k] = all[at[k]]
  /\ \A j, k \in 1..Len(s) : j < k => at[j] < at[k]
  /\ \A i \in kept : \E k \in 1..Len(s) : at[k] = i

LEMMA ListsOneMore ==
  ASSUME NEW V, NEW all, NEW m \in Nat, all[m + 1] \in V, NEW kept \in SUBSET (1..m),
         NEW s \in Seq(V), NEW at, Lists(s, at, all, kept)
  PROVE  \E new : Lists(Append(s, all[m + 1]), new, all, kept \cup {m + 1})
<1> DEFINE t == Append(s, all[m + 1])
           new == [k \in 1..Len(s) + 1 |-> IF k = Len(s) + 1 THEN m + 1 ELSE at[k]]
<1>1. /\ t \in Seq(V) /\ Len(s) \in Nat /\ Len(t) = Len(s) + 1 /\ t[Len(s) + 1] = all[m + 1]
      /\ \A k \in 1..Len(s) : t[k] = s[k]
  OBVIOUS
<1> HIDE DEF t
<1>2. \A k \in 1..Len(s) : k # Len(s) + 1 /\ new[k] = at[k] /\ at[k] \in kept /\ at[k] \in 1..m
  <2> SUFFICES ASSUME NEW k \in 1..Len(s)
               PROVE  k # Len(s) + 1 /\ new[k] = at[k] /\ at[k] \in kept /\ at[k] \in 1..m
    OBVIOUS
  <2>1. k # Len(s) + 1 /\ k \in 1..Len(s) + 1
    BY <1>1
  <2>2. new[k] = at[k]
    BY <2>1
  <2>3. at[k] \in kept
    BY DEF Lists
  <2> QED BY <2>1, <2>2, <2>3
<1>3. new[Len(s) + 1] = m + 1 /\ Len(s) + 1 \in 1..Len(t)
  BY <1>1
<1>4. \A k \in 1..Len(t) : k \in 1..Len(s) \/ k = Len(s) + 1
  BY <1>1
<1>5. new \in [1..Len(t) -> kept \cup {m + 1}]
  <2>1. \A k \in 1..Len(t) : new[k] \in kept \cup {m + 1}
    BY <1>2, <1>3, <1>4
  <2>2. new = [k \in 1..Len(t) |-> new[k]]
    BY <1>1
  <2> HIDE DEF new
  <2> QED BY <2>1, <2>2
<1> HIDE DEF new
<1>6. \A k \in 1..Len(t) : t[k] = all[new[k]]
  BY <1>1, <1>2, <1>3, <1>4 DEF Lists
<1>7. ASSUME NEW j \in 1..Len(t), NEW k \in 1..Len(t), j < k PROVE new[j] < new[k]
  <2>1. j \in 1..Len(s)
    BY <1>1, <1>4, <1>7
  <2>2. CASE k \in 1..Len(s)
    BY <1>2, <1>7, <2>1, <2>2 DEF Lists
  <2>3. CASE k = Len(s) + 1
    BY <1>2, <1>3, <2>1, <2>3
  <2> QED BY <1>4, <2>2, <2>3
<1>8. ASSUME NEW i \in kept \cup {m + 1} PROVE \E k \in 1..Len(t) : new[k] = i
  <2>1. CASE i = m + 1
    BY <1>3, <2>1
  <2>2. CASE i \in kept
    <3>1. PICK k \in 1..Len(s) : at[k] = i
      BY <2>2 DEF Lists
    <3> QED BY <1>1, <1>2, <3>1
  <2> QED BY <2>1, <2>2
<1>9. Lists(t, new, all, kept \cup {m + 1})
  BY <1>1, <1>5, <1>6, <1>7, <1>8 DEF Lists
<1> QED BY <1>9 DEF t

LEMMA PickedLists ==
  ASSUME NEW V, NEW all \in Seq(V), NEW kept \in SUBSET (1..Len(all))
  PROVE  Picked(all, kept) \in Seq(V) /\ \E at : Lists(Picked(all, kept), at, all, kept)
<1>1. Len(all) \in Nat /\ \A k \in 1..Len(all) : all[k] \in V
  OBVIOUS
<1>2. PICK upto : Picks(upto, all, kept) /\ Picked(all, kept) = upto[Len(all)]
  <2>1. \E upto : Picks(upto, all, kept)
    BY <1>1, PicksExist
  <2> DEFINE t == CHOOSE upto : Picks(upto, all, kept)
  <2>2. Picks(t, all, kept)
    BY <2>1
  <2>3. Picked(all, kept) = t[Len(all)]
    BY DEF Picked, Picks
  <2> HIDE DEF t
  <2> QED BY <2>2, <2>3
<1> DEFINE Part(m) == {k \in kept : k <= m}
           Good(s, m) == s \in Seq(V) /\ \E at : Lists(s, at, all, Part(m))
           S == {m \in Nat : m <= Len(all) => Good(upto[m], m)}
<1>3. \A m \in 0..Len(all) :
        upto[m] = IF m = 0 THEN <<>>
                  ELSE IF m \in kept THEN Append(upto[m - 1], all[m]) ELSE upto[m - 1]
  <2> DEFINE value(s, m) == IF m = 0 THEN <<>> ELSE IF m \in kept THEN Append(s, all[m]) ELSE s
  <2>1. upto = [m \in 0..Len(all) |-> value(upto[m - 1], m)]
    BY <1>2 DEF Picks
  <2>2. \A m \in 0..Len(all) : upto[m] = value(upto[m - 1], m)
    <3> HIDE DEF value
    <3> QED BY <2>1
  <2> QED BY <2>2
<1>4. 0 \in S
  <2>1. upto[0] = <<>>
    <3>1. 0 \in 0..Len(all)
      BY <1>1
    <3> QED BY <1>3, <3>1
  <2>4. Part(0) = {}
    <3>1. \A k \in kept : ~(k <= 0)
      BY <1>1
    <3> QED BY <3>1
  <2>2. Lists(<<>>, <<>>, all, {}) /\ <<>> \in Seq(V)
    BY DEF Lists
  <2>3. Good(upto[0], 0)
    <3> HIDE DEF Part
    <3> QED BY <2>1, <2>2, <2>4
  <2> QED BY <2>3
<1>5. ASSUME NEW m \in Nat, m \in S PROVE m + 1 \in S
  <2> SUFFICES ASSUME m + 1 <= Len(all) PROVE Good(upto[m + 1], m + 1)
    <3> HIDE DEF Good
    <3> QED OBVIOUS
  <2>1. m <= Len(all) /\ m + 1 \in 0..Len(all) /\ m + 1 \in 1..Len(all) /\ m + 1 # 0
        /\ (m + 1) - 1 = m
    BY <1>1
  <2>2. Good(upto[m], m)
    BY <1>5, <2>1
  <2>3. CASE m + 1 \in kept
    <3>1. upto[m + 1] = Append(upto[m], all[m + 1])
      BY <1>3, <2>1, <2>3
    <3>2. Part(m + 1) = Part(m) \cup {m + 1} /\ Part(m) \in SUBSET (1..m)
      <4>1. \A k \in kept : k \in Nat /\ 1 <= k /\ (k <= m + 1 <=> (k <= m \/ k = m + 1))
        BY <1>1
      <4>2. Part(m + 1) = Part(m) \cup {m + 1}
        BY <2>3, <4>1
      <4>3. \A k \in Part(m) : k \in 1..m
        <5>1. \A k \in Part(m) : k \in kept /\ k <= m
          OBVIOUS
        <5> HIDE DEF Part, Good, S
        <5>2. \A k \in Nat : 1 <= k /\ k <= m => k \in 1..m
          OBVIOUS
        <5> QED BY <4>1, <5>1, <5>2
      <4> HIDE DEF Part
      <4> QED BY <4>2, <4>3
    <3>3. all[m + 1] \in V
      BY <1>1, <2>1
    <3>4. PICK at : Lists(upto[m], at, all, Part(m))
      BY <2>2
    <3>5. upto[m] \in Seq(V)
      BY <2>2
    <3> HIDE DEF Part
    <3>6. \E new : Lists(upto[m + 1], new, all, Part(m + 1))
      <4>1. Part(m) \in SUBSET (1..m)
        BY <3>2
      <4>2. \E new : Lists(Append(upto[m], all[m + 1]), new, all, Part(m) \cup {m + 1})
        BY <3>3, <3>4, <3>5, <4>1, ListsOneMore
      <4> QED BY <3>1, <3>2, <4>2
    <3>7. upto[m + 1] \in Seq(V)
      BY <3>1, <3>3, <3>5
    <3> QED BY <3>6, <3>7
  <2>4. CASE m + 1 \notin kept
    <3>1. upto[m + 1] = upto[m]
      BY <1>3, <2>1, <2>4
    <3>2. Part(m + 1) = Part(m)
      <4>1. \A k \in kept : k <= m + 1 <=> k <= m
        BY <1>1, <2>4
      <4> QED BY <4>1
    <3> QED BY <2>2, <3>1, <3>2
  <2> QED BY <2>3, <2>4
<1> HIDE DEF S
<1>6. Len(all) \in S
  BY <1>1, <1>4, <1>5, NatSetInduction
<1>7. Good(upto[Len(all)], Len(all))
  <2> HIDE DEF Good
  <2> QED BY <1>1, <1>6 DEF S
<1>8. Part(Len(all)) = kept
  <2>1. \A k \in kept : k <= Len(all)
    BY <1>1
  <2> QED BY <2>1
<1> HIDE DEF Part
<1> QED BY <1>2, <1>7, <1>8

(* An initial stretch that is kept throughout stays where it is.           *)
LEMMA ListedPrefix ==
  ASSUME NEW s, NEW at, NEW all, NEW kept \in SUBSET Nat, Lists(s, at, all, kept),
         NEW n \in Nat, 1..n \subseteq kept, 0 \notin kept
  PROVE  n <= Len(s) /\ \A k \in 1..n : s[k] = all[k]
<1> DEFINE Moved == {k \in 1..n : ~(k <= Len(s) /\ at[k] = k)}
<1>1. Moved = {}
  <2> SUFFICES ASSUME Moved # {} PROVE FALSE
    OBVIOUS
  <2>1. PICK k \in Moved : \A j \in Moved : k <= j
    BY LeastNatural
  <2>2. k \in 1..n /\ k \in kept /\ k \in Nat /\ Len(s) \in Nat
    BY <2>1 DEF Lists
  <2>3. \A j \in 1..k - 1 : j <= Len(s) /\ at[j] = j
    <3>1. \A j \in 1..k - 1 : j \in 1..n /\ ~(k <= j)
      BY <2>2
    <3> QED BY <2>1, <3>1
  <2>4. PICK j \in 1..Len(s) : at[j] = k
    BY <2>2 DEF Lists
  <2>5. CASE j < k
    BY <2>2, <2>3, <2>4, <2>5
  <2>6. CASE j = k
    BY <2>1, <2>2, <2>4, <2>6
  <2>7. CASE k < j
    <3>1. k \in 1..Len(s)
      BY <2>2, <2>7
    <3>2. at[k] < k /\ at[k] \in kept
      BY <2>4, <2>7, <3>1 DEF Lists
    <3>3. at[k] \in 1..k - 1
      <4>1. at[k] \in Nat /\ at[k] # 0
        BY <3>2
      <4> QED BY <2>2, <3>2, <4>1
    <3>4. at[k] \in 1..Len(s) /\ at[at[k]] = at[k]
      BY <2>2, <2>3, <3>3
    <3>5. at[at[k]] < at[k]
      BY <3>1, <3>2, <3>4 DEF Lists
    <3> QED BY <2>2, <3>2, <3>4, <3>5
  <2> QED BY <2>2, <2>5, <2>6, <2>7
<1>2. \A k \in 1..n : k <= Len(s) /\ at[k] = k
  BY <1>1
<1>3. n <= Len(s)
  <2>1. CASE n = 0
    BY <2>1 DEF Lists
  <2>2. CASE n # 0
    <3>1. n \in 1..n
      BY <2>2
    <3> QED BY <1>2, <3>1
  <2> QED BY <2>1, <2>2
<1> HIDE DEF Moved
<1>4. \A k \in 1..n : k \in 1..Len(s)
  BY <1>2 DEF Lists
<1> QED BY <1>2, <1>3, <1>4 DEF Lists

(***************************************************************************)
(* What holds of a start at every step.                                    *)
(***************************************************************************)
Asked == Managed.skills
Bound == Managed.mcps
Servers == Get(config, "file", ConfigFile).servers

Early == {"shell", "load", "profile", "resolve", "resolved", "connect"}
Reading == {"check", "digest", "read", "resources"}
Built == {"resolved", "connect", "handshake", "inject"} \cup Reading \cup Begun
Serving == {"handshake", "inject", "ready", "stop hooks", "shutdown"} \cup Reading
Loading == {"handshake", "inject"} \cup Begun
OverAssets == {"no servers", "binding", "managed skill", "unsafe tree", "definition",
               "receipt incomplete", "handshake", "core asset"}

Versions == 1..MaxEdits + 1
Loads == {[name |-> Roots[r].name, path |-> r, from |-> "managed", content |-> v,
           usable |-> TRUE] : r \in DOMAIN Roots, v \in Versions}
SkillAssets == {[Asked[i].asset EXCEPT !.kind = "skill"] : i \in 1..Len(Asked)}
Receipts == [asset : SkillAssets, digest : Versions]

KindsKept ==
  /\ Shaped(world)
  /\ stage \in Stages /\ (stage = "failed" <=> gaveUp # "none")
  /\ position \in 1..Len(Asked) + 1
  /\ loaded \in Seq(Loads) /\ Len(loaded) = position - 1
  /\ receipts \in Seq(Receipts) /\ Len(receipts) = position - 1
  /\ \A r \in reports : r.phase \in {"connect", "inject", "handshake"} /\ r.ok \in BOOLEAN
  /\ tree \in [DOMAIN Roots -> Versions] /\ prompts \in 0..MaxPrompts

ServersKept ==
  /\ stage \in Early => connected = {}
  /\ stage \in Built => "file" \in DOMAIN config
  /\ connected \subseteq DOMAIN Servers
  /\ stage \in Serving => \A m \in Range(Bound) : m.server \in connected

(* The skills read so far are those asked for, one by one; no two of them  *)
(* have their asset, their root or their name in common.                   *)
Apart(i, j) == Asked[i].asset.id # Asked[j].asset.id /\ Asked[i].root # Asked[j].root
Matches(i) ==
  /\ loaded[i].path = Asked[i].root
  /\ receipts[i].asset = [Asked[i].asset EXCEPT !.kind = "skill"]
  /\ receipts[i].digest <= loaded[i].content
SkillsRead ==
  /\ \A i \in 1..position - 1 : Matches(i)
  /\ \A i, j \in 1..position - 1 : i < j => Apart(i, j) /\ loaded[i].name # loaded[j].name
Current == Asked[position].root
AtSkill ==
  /\ stage \in {"digest", "read"} =>
       /\ position <= Len(Asked) /\ Current \in DOMAIN Roots
       /\ \A i \in 1..position - 1 : Apart(i, position)
  /\ stage = "read" => digest \in Versions /\ digest <= tree[Current]
  /\ stage = "resources" => position > Len(Asked)

Records(phase, assets) == {[phase |-> phase, asset |-> a, ok |-> TRUE] : a \in assets}
ToldBy(s) ==
  (IF s \in Early THEN {} ELSE Records("connect", Assets(Bound)))
  \cup (IF s \in Early \cup Reading THEN {} ELSE Records("inject", Assets(Asked)))
  \cup (IF s \in Early \cup Reading \cup {"handshake"} THEN {}
        ELSE Records("handshake", Managed.runtime))
  \cup (IF s \in Begun THEN Records("inject", Managed.core) ELSE {})
Told ==
  /\ stage # "failed" => reports = ToldBy(stage)
  /\ gaveUp \in OverAssets => \E r \in reports : ~r.ok

Given ==
  /\ stage \in Loading =>
       position = Len(Asked) + 1 /\ Assets(Asked) \subseteq Assets(receipts)
  /\ stage \in Loading \ {"ended"} => visible = Deduplicate(AllSkills)
  /\ stage \in Loading \ {"handshake"} =>
       snapshot = Managed.runtime \cup Assets(receipts) \cup Assets(Bound)

StartInv ==
  /\ KindsKept /\ ServersKept /\ SkillsRead /\ AtSkill /\ Told /\ Given

LEMMA AskedShape ==
  ASSUME Shaped(world)
  PROVE  /\ Len(Asked) \in Nat /\ DOMAIN Asked = 1..Len(Asked)
         /\ \A i \in 1..Len(Asked) : Asked[i] \in [asset : Asset, root : STRING]
         /\ Len(Bound) \in Nat /\ DOMAIN Bound = 1..Len(Bound)
         /\ Assets(Asked) = {Asked[i].asset : i \in 1..Len(Asked)}
<1>1. Asked \in Seq([asset : Asset, root : STRING])
  BY DEF Shaped, Asked, Managed
<1>2. Bound \in Seq([asset : Asset, server : STRING])
  BY DEF Shaped, Bound, Managed
<1>3. \A s, S : s \in Seq(S) =>
        Len(s) \in Nat /\ DOMAIN s = 1..Len(s) /\ \A i \in 1..Len(s) : s[i] \in S
  OBVIOUS
<1>4. Len(Asked) \in Nat /\ DOMAIN Asked = 1..Len(Asked)
      /\ \A i \in 1..Len(Asked) : Asked[i] \in [asset : Asset, root : STRING]
  BY <1>1, <1>3
<1>5. Len(Bound) \in Nat /\ DOMAIN Bound = 1..Len(Bound)
  BY <1>2, <1>3
<1>6. Assets(Asked) = {Asked[i].asset : i \in DOMAIN Asked}
  BY DEF Assets, Range
<1> QED BY <1>4, <1>5, <1>6

LEMMA StartsRight ==
  ASSUME StartupInit
  PROVE  StartInv
<1> USE DEF StartupInit, LayersInit
<1>1. /\ stage = "shell" /\ gaveUp = "none" /\ connected = {} /\ position = 1
      /\ loaded = <<>> /\ receipts = <<>> /\ reports = {} /\ prompts = 0
      /\ tree = [r \in DOMAIN Roots |-> 1] /\ world \in Worlds
  OBVIOUS
<1>2. Shaped(world) /\ MaxEdits \in Nat /\ MaxPrompts \in Nat
  BY <1>1, StartupAssumption
<1> USE DEF Early, Reading, Built, Serving, Loading, Begun
<1>3. KindsKept
  <2>1. Len(Asked) \in Nat
    BY <1>2, AskedShape
  <2>2. loaded \in Seq(Loads) /\ Len(loaded) = position - 1
    BY <1>1
  <2>3. receipts \in Seq(Receipts) /\ Len(receipts) = position - 1
    BY <1>1
  <2>4. tree \in [DOMAIN Roots -> Versions]
    BY <1>1, <1>2 DEF Versions
  <2>5. stage \in Stages /\ (stage = "failed" <=> gaveUp # "none")
    BY <1>1 DEF Stages
  <2>6. position \in 1..Len(Asked) + 1 /\ prompts \in 0..MaxPrompts
    BY <1>1, <1>2, <2>1
  <2> QED BY <1>1, <1>2, <2>2, <2>3, <2>4, <2>5, <2>6 DEF KindsKept
<1>4. ServersKept
  BY <1>1 DEF ServersKept
<1>5. SkillsRead /\ AtSkill
  BY <1>1 DEF SkillsRead, AtSkill
<1>6. Told
  <2>1. ToldBy(stage) = {}
    BY <1>1 DEF ToldBy
  <2> QED BY <1>1, <2>1 DEF Told, OverAssets
<1>7. Given
  BY <1>1 DEF Given
<1> QED BY <1>3, <1>4, <1>5, <1>6, <1>7 DEF StartInv

(* Steps of the login, and the first configuration.                        *)
LEMMA NothingStarts ==
  ASSUME StartInv, UNCHANGED <<world, stage, layerVars, gaveUp, bootVars, tree, prompts>>
  PROVE  StartInv'
<1> USE DEF layerVars, bootVars
<1>1. KindsKept'
  BY DEF StartInv, KindsKept, Asked, Managed, Receipts, SkillAssets
<1>2. ServersKept'
  BY DEF StartInv, ServersKept, Servers, Bound, Managed
<1>3. SkillsRead'
  BY DEF StartInv, SkillsRead, Matches, Apart, Asked, Managed
<1>4. AtSkill'
  BY DEF StartInv, AtSkill, Current, Apart, Asked, Managed
<1>5. Told'
  BY DEF StartInv, Told, ToldBy, Asked, Bound, Managed
<1>6. Given'
  BY DEF StartInv, Given, Asked, Bound, Managed, AllSkills, Found, Usable
<1> QED BY <1>1, <1>2, <1>3, <1>4, <1>5, <1>6 DEF StartInv

LEMMA ConfigInitKeeps ==
  ASSUME StartInv, ConfigInit
  PROVE  StartInv'
<1>1. /\ stage = "shell" /\ stage' = "shell"
      /\ UNCHANGED <<layerVars, gaveUp, bootVars, tree, prompts>>
      /\ world' = [world EXCEPT !.global = Template, !.startup.no_global = FALSE]
  BY DEF ConfigInit
<1>2. Shaped(world)
  BY DEF StartInv, KindsKept
<1>3. world'.startup = [world.startup EXCEPT !.no_global = FALSE] /\ DOMAIN world' = DOMAIN world
  BY <1>1, <1>2 DEF Shaped
<1>4. /\ DOMAIN world'.startup = DOMAIN world.startup
      /\ world'.startup.managed = world.startup.managed
      /\ world'.startup.found = world.startup.found
  BY <1>2, <1>3 DEF Shaped
<1>5. Managed' = Managed /\ Asked' = Asked /\ Bound' = Bound
  BY <1>4 DEF Managed, Asked, Bound
<1>6. Shaped(world')
  BY <1>2, <1>3, <1>4 DEF Shaped
<1> USE DEF layerVars, bootVars
<1>7. KindsKept'
  BY <1>1, <1>5, <1>6 DEF StartInv, KindsKept, Receipts, SkillAssets
<1>8. ServersKept'
  BY <1>1, <1>5 DEF StartInv, ServersKept, Servers
<1>9. SkillsRead'
  BY <1>1, <1>5 DEF StartInv, SkillsRead, Matches, Apart
<1>10. AtSkill'
  BY <1>1, <1>5 DEF StartInv, AtSkill, Current, Apart
<1>11. Told'
  BY <1>1, <1>5 DEF StartInv, Told, ToldBy
<1>12. Given'
  BY <1>1 DEF Given, Loading, Begun
<1> QED BY <1>7, <1>8, <1>9, <1>10, <1>11, <1>12 DEF StartInv

(* Steps before the servers are connected; a start that gives up in one of *)
(* them gives up over its configuration.                                   *)
LEMMA EarlyKeeps ==
  ASSUME StartInv, stage \in Early,
         UNCHANGED <<world, bootVars, tree, prompts>>,
         \/ stage' \in Early /\ gaveUp' = gaveUp
         \/ stage' = "failed" /\ gaveUp' # "none" /\ gaveUp' \notin OverAssets,
         stage' \in Built => "file" \in DOMAIN config'
  PROVE  StartInv'
<1> USE DEF bootVars
<1>1. stage' \in Stages /\ (stage' = "failed" <=> gaveUp' # "none") /\ gaveUp' \notin OverAssets
  <2>1. stage # "failed" /\ gaveUp = "none"
    BY DEF StartInv, KindsKept, Early
  <2> QED BY <2>1 DEF Stages, Early, OverAssets
<1>2. stage' \notin Serving /\ stage' \notin Loading /\ stage' \notin {"digest", "read", "resources"}
  BY DEF Serving, Loading, Early, Begun, Reading
<1>3. Managed' = Managed /\ Asked' = Asked /\ Bound' = Bound
  BY DEF Managed, Asked, Bound
<1>4. KindsKept'
  BY <1>1, <1>3 DEF StartInv, KindsKept, Receipts, SkillAssets
<1>5. ServersKept'
  BY <1>2 DEF StartInv, ServersKept
<1>6. SkillsRead'
  BY <1>3 DEF StartInv, SkillsRead, Matches, Apart
<1>7. AtSkill'
  BY <1>2 DEF AtSkill
<1>8. Told'
  <2>1. ASSUME NEW s \in Early PROVE ToldBy(s) = {} /\ ToldBy(s)' = {}
    <3>1. s \notin Begun
      BY DEF Early, Begun
    <3> QED BY <3>1 DEF ToldBy
  <2>2. reports' = {} /\ stage # "failed"
    BY <2>1 DEF StartInv, Told, Early
  <2>3. stage' \in Early => ToldBy(stage') = {}
    BY <2>1
  <2> QED BY <1>1, <2>1, <2>2 DEF Told
<1>9. Given'
  BY <1>2 DEF Given
<1> QED BY <1>4, <1>5, <1>6, <1>7, <1>8, <1>9 DEF StartInv

LEMMA StartKeeps ==
  ASSUME StartInv, Start \/ OpenSession
  PROVE  StartInv'
<1>1. /\ stage \in {"shell", "resolved"} /\ UNCHANGED <<world, bootVars, tree, prompts, config>>
      /\ \/ stage' \in {"load", "connect"} /\ gaveUp' = gaveUp
         \/ stage' = "failed" /\ gaveUp' \in {"usage", "session", "shell"}
      /\ stage' = "connect" => stage = "resolved"
  BY DEF Start, OpenSession, Fail, layerVars
<1>2. stage \in Early /\ (stage' \in Early \/ stage' = "failed")
      /\ (stage' = "failed" => gaveUp' # "none" /\ gaveUp' \notin OverAssets)
  BY <1>1 DEF Early, OverAssets, StartInv, KindsKept
<1>3. stage' \in Built => "file" \in DOMAIN config'
  <2>1. stage' \in Built => stage' = "connect"
    BY <1>1 DEF Built, Reading, Begun
  <2>2. stage = "resolved" => "file" \in DOMAIN config
    BY DEF StartInv, ServersKept, Built
  <2> QED BY <1>1, <2>1, <2>2
<1>4. stage' = "failed" \/ gaveUp' = gaveUp
  BY <1>1
<1> QED BY <1>1, <1>2, <1>3, <1>4, EarlyKeeps

LEMMA RefusalReasons ==
  ASSUME NEW resolved, NEW cli
  PROVE  Refusal(resolved, cli)
           \in {"unknown provider", "no key", "thinking", "compaction level", "none"}
BY DEF Refusal

LEMMA ResolutionKeeps ==
  ASSUME StartInv, Resolution
  PROVE  StartInv'
<1>1. UNCHANGED <<world, bootVars, tree, prompts>>
  BY DEF Resolution, ConfigStep, LoadFiles, VisitProfile, ProfileFails, ResolveConfig
<1>2. PICK loggedIn : LoadFiles \/ VisitProfile \/ ProfileFails \/ ResolveConfig(loggedIn)
  BY DEF Resolution, ConfigStep
<1>3. CASE LoadFiles \/ VisitProfile
  <2>1. stage \in {"load", "profile"} /\ stage' \in {"load", "profile", "resolve"} /\ gaveUp' = gaveUp
    BY <1>3 DEF LoadFiles, VisitProfile
  <2>2. stage \in Early /\ stage' \in Early /\ stage' \notin Built
    BY <2>1 DEF Early, Built, Reading, Begun
  <2> QED BY <1>1, <2>1, <2>2, EarlyKeeps
<1>4. CASE ProfileFails
  <2>1. stage = "profile" /\ stage' = "failed" /\ gaveUp' \in {"profile cycle", "no such profile"}
    BY <1>4 DEF ProfileFails, Fail
  <2>2. stage \in Early /\ stage' \notin Built /\ gaveUp' \notin OverAssets /\ gaveUp' # "none"
    BY <2>1 DEF Early, Built, Reading, Begun, OverAssets
  <2> QED BY <1>1, <2>1, <2>2, EarlyKeeps
<1>5. CASE ResolveConfig(loggedIn)
  <2> DEFINE cli == Parsed(world.cli, world.env)
             resolved == Resolved(merged, cli, world.env, loggedIn)
  <2>1. /\ stage = "resolve"
        /\ IF Refusal(resolved, cli) # "none"
           THEN stage' = "failed" /\ gaveUp' = Refusal(resolved, cli)
           ELSE config' = resolved /\ stage' = "resolved" /\ gaveUp' = gaveUp
    BY <1>5 DEF ResolveConfig, Fail
  <2>2. "file" \in DOMAIN resolved
    BY DEF Resolved
  <2> HIDE DEF resolved
  <2>3. CASE Refusal(resolved, cli) # "none"
    <3>1. stage' = "failed" /\ gaveUp' # "none" /\ gaveUp' \notin OverAssets
      BY <2>1, <2>3, RefusalReasons DEF OverAssets
    <3>2. stage \in Early /\ stage' \notin Built
      BY <2>1, <3>1 DEF Early, Built, Reading, Begun
    <3> QED BY <1>1, <3>1, <3>2, EarlyKeeps
  <2>4. CASE Refusal(resolved, cli) = "none"
    <3>1. stage \in Early /\ stage' \in Early /\ gaveUp' = gaveUp /\ "file" \in DOMAIN config'
      BY <2>1, <2>2, <2>4 DEF Early
    <3> QED BY <1>1, <3>1, EarlyKeeps
  <2> QED BY <2>3, <2>4
<1> QED BY <1>2, <1>3, <1>4, <1>5

(* A record of failure is told of each of the assets given up over.        *)
LEMMA FailureTold ==
  ASSUME NEW phase \in {"connect", "inject", "handshake"}, NEW assets, assets # {},
         Report(phase, assets, FALSE)
  PROVE  \E r \in reports' : ~r.ok
<1>1. PICK a \in assets : TRUE
  OBVIOUS
<1>2. [phase |-> phase, asset |-> a, ok |-> FALSE] \in reports'
  BY <1>1 DEF Report
<1> QED BY <1>2

LEMMA RecordsKinds ==
  ASSUME NEW phase \in {"connect", "inject", "handshake"}, NEW assets, NEW ok \in BOOLEAN,
         StartInv, Report(phase, assets, ok)
  PROVE  \A r \in reports' : r.phase \in {"connect", "inject", "handshake"} /\ r.ok \in BOOLEAN
BY DEF Report, StartInv, KindsKept

(* A start that gives up over its assets keeps what it has.                *)
LEMMA GivesUp ==
  ASSUME StartInv, stage \in Early \cup Loading \cup Reading,
         UNCHANGED <<world, layerVars, connected, position, loaded, receipts, tree>>,
         prompts' = prompts \/ prompts' \in 0..MaxPrompts,
         stage' = "failed", gaveUp' # "none",
         \A r \in reports' : r.phase \in {"connect", "inject", "handshake"} /\ r.ok \in BOOLEAN,
         gaveUp' \in OverAssets => \E r \in reports' : ~r.ok
  PROVE  StartInv'
<1> USE DEF layerVars
<1>1. stage' \notin Early \cup Serving \cup Loading \cup Built \cup {"digest", "read", "resources"}
  BY DEF Serving, Loading, Early, Begun, Reading, Built
<1>2. KindsKept'
  BY DEF StartInv, KindsKept, Asked, Managed, Stages, Receipts, SkillAssets
<1>3. ServersKept'
  BY <1>1 DEF StartInv, ServersKept, Servers
<1>4. SkillsRead'
  BY DEF StartInv, SkillsRead, Matches, Apart, Asked, Managed
<1>5. AtSkill'
  BY <1>1 DEF AtSkill
<1>6. Told'
  BY DEF Told
<1>7. Given'
  BY <1>1 DEF Given
<1> QED BY <1>2, <1>3, <1>4, <1>5, <1>6, <1>7 DEF StartInv

LEMMA ConnectKeeps ==
  ASSUME StartInv, NEW live, ConnectMcp(live)
  PROVE  StartInv'
<1>1. /\ stage = "connect" /\ live \subseteq DOMAIN config.file.servers
      /\ UNCHANGED <<world, layerVars, position, digest, loaded, receipts, visible, snapshot,
                     tree, prompts>>
  BY DEF ConnectMcp
<1>2. Servers = config.file.servers /\ connected = {} /\ reports = {}
  <2>1. "file" \in DOMAIN config /\ connected = {}
    BY <1>1 DEF StartInv, ServersKept, Built, Early
  <2>2. reports = {}
    BY <1>1 DEF StartInv, Told, ToldBy, Early, Begun
  <2> QED BY <2>1, <2>2 DEF Servers, Get
<1>3. Len(Bound) \in Nat /\ DOMAIN Bound = 1..Len(Bound) /\ Shaped(world)
  BY AskedShape DEF StartInv, KindsKept
<1> DEFINE bad == BadBindings(live)
           first == CHOOSE i \in bad : \A j \in bad : i <= j
<1>4. CASE DOMAIN config.file.servers = {} /\ Bound # <<>>
  <2>1. Report("connect", Assets(Bound), FALSE) /\ stage' = "failed" /\ gaveUp' = "no servers"
        /\ UNCHANGED connected
    BY <1>4 DEF ConnectMcp, Fail, Bound
  <2>2. Assets(Bound) # {}
    <3>1. Bound \in Seq([asset : Asset, server : STRING])
      BY <1>3 DEF Shaped, Bound, Managed
    <3>2. 1 \in DOMAIN Bound
      BY <1>4, <3>1
    <3> QED BY <3>2 DEF Assets, Range
  <2>3. \E r \in reports' : ~r.ok
    BY <2>1, <2>2, FailureTold
  <2>4. stage \in Early
    BY <1>1 DEF Early
  <2>5. \A r \in reports' : r.phase \in {"connect", "inject", "handshake"} /\ r.ok \in BOOLEAN
    BY <2>1, RecordsKinds
  <2> QED BY <1>1, <2>1, <2>3, <2>4, <2>5, GivesUp
<1>5. CASE DOMAIN config.file.servers # {} /\ bad # {}
  <2>1. Report("connect", {Bound[first].asset}, FALSE) /\ stage' = "failed" /\ gaveUp' = "binding"
        /\ UNCHANGED connected
    BY <1>5 DEF ConnectMcp, Fail, Bound
  <2> HIDE DEF first
  <2>2. {Bound[first].asset} # {}
    OBVIOUS
  <2>3. \E r \in reports' : ~r.ok
    BY <2>1, <2>2, FailureTold
  <2>4. stage \in Early
    BY <1>1 DEF Early
  <2>5. \A r \in reports' : r.phase \in {"connect", "inject", "handshake"} /\ r.ok \in BOOLEAN
    BY <2>1, RecordsKinds
  <2> QED BY <1>1, <2>1, <2>3, <2>4, <2>5, GivesUp
<1>6. CASE /\ ~(DOMAIN config.file.servers = {} /\ Bound # <<>>)
           /\ ~(DOMAIN config.file.servers # {} /\ bad # {})
  <2>1. Report("connect", Assets(Bound), TRUE) /\ connected' = live /\ stage' = "check"
        /\ UNCHANGED gaveUp
    BY <1>6 DEF ConnectMcp, Bound
  <2>2. Managed' = Managed /\ Asked' = Asked /\ Bound' = Bound /\ config' = config
    BY <1>1 DEF Managed, Asked, Bound, layerVars
  <2>3. \A m \in Range(Bound) : m.server \in live
    <3>1. CASE Bound = <<>>
      BY <3>1 DEF Range
    <3>2. CASE bad = {}
      <4>1. \A i \in DOMAIN Bound : Bound[i].server \in live
        BY <3>2 DEF BadBindings, Bound
      <4> QED BY <4>1 DEF Range
    <3> QED BY <1>6, <3>1, <3>2
  <2>4. KindsKept'
    <3>1. \A r \in reports' : r.phase \in {"connect", "inject", "handshake"} /\ r.ok \in BOOLEAN
      BY <2>1, RecordsKinds
    <3>2. stage' \in Stages /\ (stage' = "failed" <=> gaveUp' # "none")
      BY <1>1, <2>1 DEF StartInv, KindsKept, Stages
    <3> QED BY <1>1, <2>2, <3>1, <3>2 DEF StartInv, KindsKept, Receipts, SkillAssets
  <2>5. ServersKept'
    <3>1. "file" \in DOMAIN config
      BY <1>1 DEF StartInv, ServersKept, Built
    <3>2. stage' \notin Early
      BY <2>1 DEF Early
    <3> QED BY <1>1, <1>2, <2>1, <2>2, <2>3, <3>1, <3>2 DEF ServersKept, Servers
  <2>6. SkillsRead'
    BY <1>1, <2>2 DEF StartInv, SkillsRead, Matches, Apart
  <2>7. AtSkill'
    BY <2>1 DEF AtSkill
  <2>8. Told'
    <3>1. reports' = Records("connect", Assets(Bound))
      BY <1>2, <2>1 DEF Report, Records
    <3>2. ToldBy("check")' = Records("connect", Assets(Bound))
      BY <2>2 DEF ToldBy, Early, Reading, Begun, Assets
    <3>3. gaveUp' \notin OverAssets
      BY <1>1, <2>1 DEF StartInv, KindsKept, OverAssets
    <3> QED BY <2>1, <3>1, <3>2, <3>3 DEF Told
  <2>9. Given'
    BY <2>1 DEF Given, Loading, Begun
  <2> QED BY <2>4, <2>5, <2>6, <2>7, <2>8, <2>9 DEF StartInv
<1> QED BY <1>4, <1>5, <1>6

LEMMA SkillsFailKeeps ==
  ASSUME StartInv, stage \in Reading, NEW reason, reason # "none", SkillsFail(reason),
         UNCHANGED <<world, layerVars, connected, tree, prompts>>,
         reason \in OverAssets => Asked # <<>>
  PROVE  StartInv'
<1>1. /\ Report("inject", Assets(Asked), FALSE) /\ stage' = "failed" /\ gaveUp' = reason
      /\ UNCHANGED <<position, digest, loaded, receipts, visible>>
  BY DEF SkillsFail, Fail, Asked
<1>2. \A r \in reports' : r.phase \in {"connect", "inject", "handshake"} /\ r.ok \in BOOLEAN
  BY <1>1, RecordsKinds
<1>3. reason \in OverAssets => \E r \in reports' : ~r.ok
  <2> SUFFICES ASSUME Asked # <<>> PROVE \E r \in reports' : ~r.ok
    OBVIOUS
  <2>1. Asked \in Seq([asset : Asset, root : STRING])
    BY DEF StartInv, KindsKept, Shaped, Asked, Managed
  <2>2. 1 \in DOMAIN Asked
    BY <2>1
  <2>3. Assets(Asked) # {}
    BY <2>2 DEF Assets, Range
  <2> QED BY <1>1, <2>3, FailureTold
<1> QED BY <1>1, <1>2, <1>3, GivesUp

LEMMA CheckKeeps ==
  ASSUME StartInv, CheckManaged
  PROVE  StartInv'
<1>1. /\ stage = "check" /\ position <= Len(Asked)
      /\ UNCHANGED <<world, layerVars, connected, snapshot, tree, prompts>>
  BY DEF CheckManaged, Asked
<1>2. Len(Asked) \in Nat /\ DOMAIN Asked = 1..Len(Asked) /\ position \in 1..Len(Asked) /\ Asked # <<>>
  <2>1. Len(Asked) \in Nat /\ DOMAIN Asked = 1..Len(Asked) /\ position \in 1..Len(Asked)
    BY <1>1, AskedShape DEF StartInv, KindsKept
  <2> QED BY <2>1
<1>3. CASE SkillsFail("managed skill")
  BY <1>1, <1>2, <1>3, SkillsFailKeeps DEF Reading
<1>4. CASE ~SkillsFail("managed skill")
  <2>1. /\ stage' = "digest"
        /\ UNCHANGED <<position, digest, loaded, receipts, visible, reports, gaveUp>>
        /\ ~\E e \in {Asked[j] : j \in 1..position - 1} :
              e.asset.id = Asked[position].asset.id \/ e.root = Current
        /\ Current \in DOMAIN Roots
    BY <1>4 DEF CheckManaged, Asked, Current
  <2>2. \A i \in 1..position - 1 : Apart(i, position)
    BY <2>1 DEF Apart, Current
  <2> USE DEF layerVars
  <2>3. Managed' = Managed /\ Asked' = Asked /\ Bound' = Bound
    BY <1>1 DEF Managed, Asked, Bound
  <2>4. KindsKept'
    BY <1>1, <2>1, <2>3 DEF StartInv, KindsKept, Stages, Receipts, SkillAssets
  <2>5. ServersKept'
    BY <1>1, <2>1, <2>3 DEF StartInv, ServersKept, Servers, Early, Built, Serving, Reading
  <2>6. SkillsRead'
    <3>1. \A i, j : /\ Matches(i)' = Matches(i) /\ Apart(i, j)' = Apart(i, j)
                   /\ loaded'[i].name = loaded[i].name
      BY <2>1, <2>3 DEF Matches, Apart
    <3> QED BY <2>1, <3>1 DEF StartInv, SkillsRead
  <2>7. AtSkill'
    BY <1>1, <1>2, <2>1, <2>2, <2>3 DEF AtSkill, Current, Apart
  <2>8. Told'
    <3>1. ToldBy("digest")' = ToldBy("check")
      BY <2>3 DEF ToldBy, Early, Reading, Begun
    <3> QED BY <1>1, <2>1, <3>1 DEF StartInv, Told
  <2>9. Given'
    BY <2>1 DEF Given, Loading, Begun
  <2> QED BY <2>4, <2>5, <2>6, <2>7, <2>8, <2>9 DEF StartInv
<1> QED BY <1>3, <1>4

LEMMA DigestKeeps ==
  ASSUME StartInv, DigestManaged
  PROVE  StartInv'
<1>1. /\ stage = "digest" /\ UNCHANGED <<world, layerVars, connected, snapshot, tree, prompts>>
      /\ position <= Len(Asked) /\ Current \in DOMAIN Roots
      /\ \A i \in 1..position - 1 : Apart(i, position)
  BY DEF DigestManaged, StartInv, AtSkill
<1>2. Asked # <<>>
  <2>1. Len(Asked) \in Nat /\ position \in 1..Len(Asked)
    BY <1>1, AskedShape DEF StartInv, KindsKept
  <2> QED BY <2>1
<1>3. CASE SkillsFail("unsafe tree")
  BY <1>1, <1>2, <1>3, SkillsFailKeeps DEF Reading
<1>4. CASE ~SkillsFail("unsafe tree")
  <2>1. /\ stage' = "read" /\ digest' = tree[Current]
        /\ UNCHANGED <<position, loaded, receipts, visible, reports, gaveUp>>
    BY <1>4 DEF DigestManaged, Asked, Current
  <2>2. tree[Current] \in Versions /\ Versions \subseteq Nat
    BY <1>1, StartupAssumption DEF StartInv, KindsKept, Versions
  <2> USE DEF layerVars
  <2>3. Managed' = Managed /\ Asked' = Asked /\ Bound' = Bound
    BY <1>1 DEF Managed, Asked, Bound
  <2>4. KindsKept'
    BY <1>1, <2>1, <2>3 DEF StartInv, KindsKept, Stages, Receipts, SkillAssets
  <2>5. ServersKept'
    BY <1>1, <2>1, <2>3 DEF StartInv, ServersKept, Servers, Early, Built, Serving, Reading
  <2>6. SkillsRead'
    BY <1>1, <2>1, <2>3 DEF StartInv, SkillsRead, Matches, Apart
  <2>7. AtSkill'
    <3>1. tree[Current] <= tree[Current]
      <4>1. tree[Current] \in Nat
        BY <2>2
      <4> QED BY <4>1
    <3> QED BY <1>1, <2>1, <2>2, <2>3, <3>1 DEF AtSkill, Current, Apart
  <2>8. Told'
    <3>1. ToldBy("read")' = ToldBy("digest")
      BY <2>3 DEF ToldBy, Early, Reading, Begun
    <3> QED BY <1>1, <2>1, <3>1 DEF StartInv, Told
  <2>9. Given'
    BY <2>1 DEF Given, Loading, Begun
  <2> QED BY <2>4, <2>5, <2>6, <2>7, <2>8, <2>9 DEF StartInv
<1> QED BY <1>3, <1>4

LEMMA Appended ==
  ASSUME NEW S, NEW s \in Seq(S), NEW n \in Nat, Len(s) = n, NEW e \in S
  PROVE  /\ Append(s, e) \in Seq(S) /\ Len(Append(s, e)) = n + 1
         /\ Append(s, e)[n + 1] = e
         /\ \A i \in 1..n : Append(s, e)[i] = s[i]
OBVIOUS

LEMMA LoadKinds ==
  ASSUME NEW r \in DOMAIN Roots, NEW v \in Versions
  PROVE  [name |-> Roots[r].name, path |-> r, from |-> "managed", content |-> v,
          usable |-> TRUE] \in Loads
<1> DEFINE load(q, w) == [name |-> Roots[q].name, path |-> q, from |-> "managed",
                          content |-> w, usable |-> TRUE]
<1>1. Loads = {load(q, w) : q \in DOMAIN Roots, w \in Versions}
  BY DEF Loads
<1>2. \E q \in DOMAIN Roots, w \in Versions : load(r, v) = load(q, w)
  OBVIOUS
<1> HIDE DEF load
<1>3. load(r, v) \in Loads
  BY <1>1, <1>2
<1> QED BY <1>3 DEF load

LEMMA ReadKeeps ==
  ASSUME StartInv, ReadManaged
  PROVE  StartInv'
<1>1. /\ stage = "read" /\ UNCHANGED <<world, layerVars, connected, snapshot, tree, prompts>>
      /\ position <= Len(Asked) /\ Current \in DOMAIN Roots
      /\ \A i \in 1..position - 1 : Apart(i, position)
      /\ digest \in Versions /\ digest <= tree[Current]
  BY DEF ReadManaged, StartInv, AtSkill
<1>2. /\ Len(Asked) \in Nat /\ position \in 1..Len(Asked) /\ Asked # <<>>
      /\ Asked[position] \in [asset : Asset, root : STRING]
  <2>1. /\ Len(Asked) \in Nat /\ position \in 1..Len(Asked)
        /\ \A i \in 1..Len(Asked) : Asked[i] \in [asset : Asset, root : STRING]
    BY <1>1, AskedShape DEF StartInv, KindsKept
  <2> QED BY <2>1
<1>3. CASE SkillsFail("definition")
  BY <1>1, <1>2, <1>3, SkillsFailKeeps DEF Reading
<1>4. CASE ~SkillsFail("definition")
  <2> DEFINE name == Roots[Current].name
             load == [name |-> name, path |-> Current, from |-> "managed",
                      content |-> tree[Current], usable |-> TRUE]
             receipt == [asset |-> [Asked[position].asset EXCEPT !.kind = "skill"],
                         digest |-> digest]
             last == position - 1
  <2>1. /\ stage' = "check" /\ position' = position + 1
        /\ loaded' = Append(loaded, load) /\ receipts' = Append(receipts, receipt)
        /\ UNCHANGED <<digest, visible, reports, gaveUp>>
        /\ ~\E s \in Range(loaded) : s.name = name
    BY <1>4 DEF ReadManaged, Asked, Current
  <2>2. tree[Current] \in Versions /\ Versions \subseteq Nat
    BY <1>1, StartupAssumption DEF StartInv, KindsKept, Versions
  <2>3. load \in Loads /\ receipt \in Receipts
    <3>1. load \in Loads
      BY <1>1, <2>2, LoadKinds
    <3>2. [Asked[position].asset EXCEPT !.kind = "skill"] \in SkillAssets
      BY <1>2 DEF SkillAssets
    <3> QED BY <1>1, <3>1, <3>2 DEF Receipts
  <2>4. last \in Nat /\ last + 1 = position /\ position' - 1 = position
    BY <1>2, <2>1
  <2>5. load.path = Current /\ load.name = name /\ load.content = tree[Current]
        /\ receipt.asset = [Asked[position].asset EXCEPT !.kind = "skill"]
        /\ receipt.digest = digest
    OBVIOUS
  <2> HIDE DEF load, receipt
  <2>6. /\ loaded' \in Seq(Loads) /\ Len(loaded') = position' - 1 /\ loaded'[position] = load
        /\ \A i \in 1..last : loaded'[i] = loaded[i]
        /\ receipts' \in Seq(Receipts) /\ Len(receipts') = position' - 1
        /\ receipts'[position] = receipt
        /\ \A i \in 1..last : receipts'[i] = receipts[i]
    <3>1. /\ loaded \in Seq(Loads) /\ Len(loaded) = last
          /\ receipts \in Seq(Receipts) /\ Len(receipts) = last
      BY DEF StartInv, KindsKept
    <3> HIDE DEF last
    <3>2. /\ loaded' \in Seq(Loads) /\ Len(loaded') = last + 1 /\ loaded'[last + 1] = load
          /\ \A i \in 1..last : loaded'[i] = loaded[i]
      BY <2>1, <2>3, <2>4, <3>1, Appended
    <3>3. /\ receipts' \in Seq(Receipts) /\ Len(receipts') = last + 1
          /\ receipts'[last + 1] = receipt
          /\ \A i \in 1..last : receipts'[i] = receipts[i]
      BY <2>1, <2>3, <2>4, <3>1, Appended
    <3> QED BY <2>4, <3>2, <3>3
  <2>7. \A i \in 1..position' - 1 : i \in 1..last \/ i = position
    BY <2>4
  <2>8. \A i \in 1..last : loaded[i].name # name
    <3>1. \A i \in 1..last : i \in DOMAIN loaded
      <4>1. loaded \in Seq(Loads) /\ Len(loaded) = last
        BY DEF StartInv, KindsKept
      <4> QED BY <4>1
    <3> QED BY <2>1, <3>1 DEF Range
  <2> USE DEF layerVars
  <2>9. Managed' = Managed /\ Asked' = Asked /\ Bound' = Bound
    BY <1>1 DEF Managed, Asked, Bound
  <2>10. KindsKept'
    <3>1. position' \in 1..Len(Asked') + 1
      BY <1>2, <2>1, <2>9
    <3>2. (receipts \in Seq(Receipts))'
      BY <2>6, <2>9 DEF Receipts, SkillAssets
    <3> QED BY <1>1, <2>1, <2>6, <2>9, <3>1, <3>2 DEF StartInv, KindsKept, Stages
  <2>11. ServersKept'
    BY <1>1, <2>1, <2>9 DEF StartInv, ServersKept, Servers, Early, Built, Serving, Reading
  <2>12. SkillsRead'
    <3>1. ASSUME NEW i \in 1..position' - 1 PROVE Matches(i)'
      <4>1. CASE i \in 1..last
        <5>1. Matches(i)
          BY <4>1 DEF StartInv, SkillsRead
        <5> QED BY <2>6, <2>9, <4>1, <5>1 DEF Matches
      <4>2. CASE i = position
        <5>1. /\ loaded'[i].path = Asked[i].root /\ receipts'[i].digest <= loaded'[i].content
              /\ receipts'[i].asset = [Asked[i].asset EXCEPT !.kind = "skill"]
          BY <1>1, <2>5, <2>6, <4>2 DEF Current
        <5> QED BY <2>9, <5>1 DEF Matches
      <4> QED BY <2>7, <4>1, <4>2
    <3>2. ASSUME NEW i \in 1..position' - 1, NEW j \in 1..position' - 1, i < j
          PROVE  Apart(i, j) /\ loaded'[i].name # loaded'[j].name
      <4>1. i \in 1..last
        BY <2>4, <3>2
      <4>2. CASE j \in 1..last
        <5>1. Apart(i, j) /\ loaded[i].name # loaded[j].name
          BY <3>2, <4>1, <4>2 DEF StartInv, SkillsRead
        <5> QED BY <2>6, <4>1, <4>2, <5>1
      <4>3. CASE j = position
        BY <1>1, <2>5, <2>6, <2>8, <4>1, <4>3
      <4> QED BY <2>7, <4>2, <4>3
    <3> QED BY <2>9, <3>1, <3>2 DEF SkillsRead, Apart
  <2>13. AtSkill'
    BY <2>1 DEF AtSkill
  <2>14. Told'
    <3>1. ToldBy("check")' = ToldBy("read")
      BY <2>9 DEF ToldBy, Early, Reading, Begun
    <3> QED BY <1>1, <2>1, <3>1 DEF StartInv, Told
  <2>15. Given'
    BY <2>1 DEF Given, Loading, Begun
  <2> QED BY <2>10, <2>11, <2>12, <2>13, <2>14, <2>15 DEF StartInv
<1> QED BY <1>3, <1>4

LEMMA ManagedReadKeeps ==
  ASSUME StartInv, ManagedRead
  PROVE  StartInv'
<1>1. /\ stage = "check" /\ position > Len(Asked)
      /\ UNCHANGED <<world, layerVars, connected, snapshot, tree, prompts>>
  BY DEF ManagedRead, Asked
<1>2. CASE Managed.asked /\ Managed.id = ""
  <2>1. SkillsFail("snapshot id")
    BY <1>2 DEF ManagedRead
  <2>2. "snapshot id" \notin OverAssets /\ stage \in Reading
    BY <1>1 DEF OverAssets, Reading
  <2> QED BY <1>1, <2>1, <2>2, SkillsFailKeeps
<1>3. CASE ~(Managed.asked /\ Managed.id = "")
  <2>1. /\ stage' = "resources"
        /\ UNCHANGED <<position, digest, loaded, receipts, visible, reports, gaveUp>>
    BY <1>3 DEF ManagedRead
  <2> USE DEF layerVars
  <2>2. Managed' = Managed /\ Asked' = Asked /\ Bound' = Bound
    BY <1>1 DEF Managed, Asked, Bound
  <2>3. KindsKept'
    BY <1>1, <2>1, <2>2 DEF StartInv, KindsKept, Stages, Receipts, SkillAssets
  <2>4. ServersKept'
    BY <1>1, <2>1, <2>2 DEF StartInv, ServersKept, Servers, Early, Built, Serving, Reading
  <2>5. SkillsRead'
    BY <1>1, <2>1, <2>2 DEF StartInv, SkillsRead, Matches, Apart
  <2>6. AtSkill'
    BY <1>1, <2>1, <2>2 DEF AtSkill
  <2>7. Told'
    <3>1. ToldBy("resources")' = ToldBy("check")
      BY <2>2 DEF ToldBy, Early, Reading, Begun
    <3> QED BY <1>1, <2>1, <3>1 DEF StartInv, Told
  <2>8. Given'
    BY <2>1 DEF Given, Loading, Begun
  <2> QED BY <2>3, <2>4, <2>5, <2>6, <2>7, <2>8 DEF StartInv
<1> QED BY <1>2, <1>3

LEMMA LoadKeeps ==
  ASSUME StartInv, LoadSkills
  PROVE  StartInv'
<1>1. /\ stage = "resources" /\ position > Len(Asked)
      /\ UNCHANGED <<world, layerVars, connected, snapshot, tree, prompts>>
  BY DEF LoadSkills, StartInv, AtSkill
<1>2. Len(Asked) \in Nat /\ position = Len(Asked) + 1
  BY <1>1, AskedShape DEF StartInv, KindsKept
<1>3. CASE ~(Assets(Asked) \subseteq Assets(receipts))
  <2>1. SkillsFail("receipt incomplete")
    BY <1>3 DEF LoadSkills, Asked
  <2>2. Asked # <<>>
    <3>1. DOMAIN <<>> = {}
      OBVIOUS
    <3>2. Assets(<<>>) = {}
      BY <3>1 DEF Assets, Range
    <3> QED BY <1>3, <3>2
  <2> QED BY <1>1, <2>1, <2>2, SkillsFailKeeps DEF Reading
<1>4. CASE Assets(Asked) \subseteq Assets(receipts)
  <2>1. /\ visible' = Deduplicate(AllSkills) /\ stage' = "handshake"
        /\ Report("inject", Assets(Asked), TRUE)
        /\ UNCHANGED <<position, digest, loaded, receipts, gaveUp>>
    BY <1>4 DEF LoadSkills, Asked
  <2> USE DEF layerVars
  <2>2. Managed' = Managed /\ Asked' = Asked /\ Bound' = Bound /\ AllSkills' = AllSkills
    BY <1>1, <2>1 DEF Managed, Asked, Bound, AllSkills, Found, Usable
  <2>3. KindsKept'
    <3>1. \A r \in reports' : r.phase \in {"connect", "inject", "handshake"} /\ r.ok \in BOOLEAN
      BY <2>1, RecordsKinds
    <3> QED BY <1>1, <2>1, <2>2, <3>1 DEF StartInv, KindsKept, Stages, Receipts, SkillAssets
  <2>4. ServersKept'
    BY <1>1, <2>1, <2>2 DEF StartInv, ServersKept, Servers, Early, Built, Serving, Reading
  <2>5. SkillsRead'
    BY <1>1, <2>1, <2>2 DEF StartInv, SkillsRead, Matches, Apart
  <2>6. AtSkill'
    BY <2>1 DEF AtSkill
  <2>7. Told'
    <3>1. reports' = ToldBy("resources") \cup Records("inject", Assets(Asked))
      BY <1>1, <2>1 DEF StartInv, Told, Report, Records
    <3>2. ToldBy("handshake")' = ToldBy("resources") \cup Records("inject", Assets(Asked))
      BY <2>2 DEF ToldBy, Early, Reading, Begun
    <3>3. gaveUp' \notin OverAssets
      BY <1>1, <2>1 DEF StartInv, KindsKept, OverAssets
    <3> QED BY <2>1, <3>1, <3>2, <3>3 DEF Told
  <2>8. Given'
    <3>1. visible' = Deduplicate(AllSkills)' /\ position' = Len(Asked') + 1
          /\ (Assets(Asked) \subseteq Assets(receipts))'
      BY <1>2, <1>4, <2>1, <2>2 DEF Assets
    <3> QED BY <2>1, <3>1 DEF Given, Begun
  <2> QED BY <2>3, <2>4, <2>5, <2>6, <2>7, <2>8 DEF StartInv
<1> QED BY <1>3, <1>4

LEMMA HandshakeKeeps ==
  ASSUME StartInv, Handshake
  PROVE  StartInv'
<1>1. /\ stage = "handshake"
      /\ UNCHANGED <<world, layerVars, connected, position, digest, loaded, receipts,
                     visible, tree, prompts>>
  BY DEF Handshake
<1>2. \A m \in Range(Bound) : m.server \in connected
  BY <1>1 DEF StartInv, ServersKept, Serving
<1>3. CASE stage' = "failed"
  <2>1. Report("handshake", Managed.runtime, FALSE) /\ gaveUp' = "handshake"
        /\ Managed.runtime # {}
    <3>1. stage' # "inject"
      BY <1>3
    <3> QED BY <1>2, <3>1 DEF Handshake, Fail, Bound
  <2>2. \E r \in reports' : ~r.ok
    BY <2>1, FailureTold
  <2>3. \A r \in reports' : r.phase \in {"connect", "inject", "handshake"} /\ r.ok \in BOOLEAN
    BY <2>1, RecordsKinds
  <2>4. stage \in Loading
    BY <1>1 DEF Loading
  <2> QED BY <1>1, <1>3, <2>1, <2>2, <2>3, <2>4, GivesUp
<1>4. CASE stage' # "failed"
  <2>1. /\ snapshot' = Managed.runtime \cup Assets(receipts) \cup Assets(Bound)
        /\ Report("handshake", Managed.runtime, TRUE)
        /\ stage' = "inject" /\ gaveUp' = gaveUp
    BY <1>4 DEF Handshake, Fail, Bound
  <2> USE DEF layerVars
  <2>2. Managed' = Managed /\ Asked' = Asked /\ Bound' = Bound /\ AllSkills' = AllSkills
    BY <1>1, <2>1 DEF Managed, Asked, Bound, AllSkills, Found, Usable
  <2>3. KindsKept'
    <3>1. \A r \in reports' : r.phase \in {"connect", "inject", "handshake"} /\ r.ok \in BOOLEAN
      BY <2>1, RecordsKinds
    <3>2. (receipts \in Seq(Receipts))'
      BY <1>1, <2>2 DEF StartInv, KindsKept, Receipts, SkillAssets
    <3> QED BY <1>1, <2>1, <2>2, <3>1, <3>2 DEF StartInv, KindsKept, Stages
  <2>4. ServersKept'
    BY <1>1, <2>1, <2>2 DEF StartInv, ServersKept, Servers, Early, Built, Serving, Reading
  <2>5. SkillsRead'
    BY <1>1, <2>1, <2>2 DEF StartInv, SkillsRead, Matches, Apart
  <2>6. AtSkill'
    BY <2>1 DEF AtSkill
  <2>7. Told'
    <3>1. reports' = ToldBy("handshake") \cup Records("handshake", Managed.runtime)
      BY <1>1, <2>1 DEF StartInv, Told, Report, Records
    <3>2. ToldBy("inject")' = ToldBy("handshake") \cup Records("handshake", Managed.runtime)
      BY <2>2 DEF ToldBy, Early, Reading, Begun
    <3>3. gaveUp' \notin OverAssets
      BY <1>1, <2>1 DEF StartInv, KindsKept, OverAssets
    <3> QED BY <2>1, <3>1, <3>2, <3>3 DEF Told
  <2>8. Given'
    <3>1. /\ visible' = Deduplicate(AllSkills)' /\ position' = Len(Asked') + 1
          /\ (Assets(Asked) \subseteq Assets(receipts))'
      BY <1>1, <2>1, <2>2 DEF StartInv, Given, Loading
    <3>2. (snapshot = Managed.runtime \cup Assets(receipts) \cup Assets(Bound))'
      BY <1>1, <2>1, <2>2
    <3> QED BY <2>1, <3>1, <3>2 DEF Given
  <2> QED BY <2>3, <2>4, <2>5, <2>6, <2>7, <2>8 DEF StartInv
<1> QED BY <1>3, <1>4

LEMMA InjectKeeps ==
  ASSUME StartInv, Inject
  PROVE  StartInv'
<1> DEFINE invalid == {a \in Managed.core : a.kind # "assistant"}
           one == CHOOSE a \in invalid : TRUE
<1>1. /\ stage = "inject"
      /\ UNCHANGED <<world, layerVars, connected, position, digest, loaded, receipts,
                     visible, snapshot, tree, prompts>>
  BY DEF Inject
<1>2. CASE invalid # {}
  <2>1. Report("inject", {one}, FALSE) /\ stage' = "failed" /\ gaveUp' = "core asset"
    BY <1>2 DEF Inject, Fail
  <2> HIDE DEF one
  <2>2. {one} # {}
    OBVIOUS
  <2>3. \E r \in reports' : ~r.ok
    BY <2>1, <2>2, FailureTold
  <2>4. \A r \in reports' : r.phase \in {"connect", "inject", "handshake"} /\ r.ok \in BOOLEAN
    BY <2>1, RecordsKinds
  <2>5. stage \in Loading
    BY <1>1 DEF Loading
  <2> QED BY <1>1, <2>1, <2>3, <2>4, <2>5, GivesUp
<1>3. CASE invalid = {}
  <2>1. Report("inject", Managed.core, TRUE) /\ stage' = "ready" /\ gaveUp' = gaveUp
    BY <1>3 DEF Inject
  <2> HIDE DEF one, invalid
  <2> USE DEF layerVars
  <2>2. Managed' = Managed /\ Asked' = Asked /\ Bound' = Bound /\ AllSkills' = AllSkills
    BY <1>1, <2>1 DEF Managed, Asked, Bound, AllSkills, Found, Usable
  <2>3. KindsKept'
    <3>1. \A r \in reports' : r.phase \in {"connect", "inject", "handshake"} /\ r.ok \in BOOLEAN
      BY <2>1, RecordsKinds
    <3>2. (receipts \in Seq(Receipts))'
      BY <1>1, <2>2 DEF StartInv, KindsKept, Receipts, SkillAssets
    <3> QED BY <1>1, <2>1, <2>2, <3>1, <3>2 DEF StartInv, KindsKept, Stages
  <2>4. ServersKept'
    BY <1>1, <2>1, <2>2 DEF StartInv, ServersKept, Servers, Early, Built, Serving, Reading, Begun
  <2>5. SkillsRead'
    BY <1>1, <2>1, <2>2 DEF StartInv, SkillsRead, Matches, Apart
  <2>6. AtSkill'
    BY <2>1 DEF AtSkill
  <2>7. Told'
    <3>1. reports' = ToldBy("inject") \cup Records("inject", Managed.core)
      BY <1>1, <2>1 DEF StartInv, Told, Report, Records
    <3>2. ToldBy("ready")' = ToldBy("inject") \cup Records("inject", Managed.core)
      BY <2>2 DEF ToldBy, Early, Reading, Begun
    <3>3. gaveUp' \notin OverAssets
      BY <1>1, <2>1 DEF StartInv, KindsKept, OverAssets
    <3> QED BY <2>1, <3>1, <3>2, <3>3 DEF Told
  <2>8. Given'
    <3>1. /\ visible' = Deduplicate(AllSkills)' /\ position' = Len(Asked') + 1
          /\ (Assets(Asked) \subseteq Assets(receipts))'
          /\ (snapshot = Managed.runtime \cup Assets(receipts) \cup Assets(Bound))'
      BY <1>1, <2>1, <2>2 DEF StartInv, Given, Loading
    <3> QED BY <2>1, <3>1 DEF Given
  <2> QED BY <2>3, <2>4, <2>5, <2>6, <2>7, <2>8 DEF StartInv
<1> QED BY <1>2, <1>3

LEMMA SaveKeeps ==
  ASSUME StartInv, NEW root, SaveSkill(root)
  PROVE  StartInv'
<1>1. /\ stage \in Reading /\ tree[root] <= MaxEdits /\ tree' = [tree EXCEPT ![root] = @ + 1]
      /\ UNCHANGED <<world, stage, layerVars, gaveUp, bootVars, prompts>>
  BY DEF SaveSkill, Reading
<1>2. tree \in [DOMAIN Roots -> Versions] /\ MaxEdits \in Nat
  BY StartupAssumption DEF StartInv, KindsKept
<1>3. \A r \in DOMAIN Roots : tree'[r] \in Versions /\ tree[r] \in Versions /\ tree[r] <= tree'[r]
  BY <1>1, <1>2 DEF Versions
<1>4. tree' \in [DOMAIN Roots -> Versions]
  <2>1. tree' = [r \in DOMAIN Roots |-> tree'[r]]
    BY <1>1, <1>2
  <2> QED BY <1>3, <2>1
<1> USE DEF layerVars, bootVars
<1>5. Managed' = Managed /\ Asked' = Asked /\ Bound' = Bound
  BY <1>1 DEF Managed, Asked, Bound
<1>6. KindsKept'
  <2>1. (receipts \in Seq(Receipts))'
    BY <1>1, <1>5 DEF StartInv, KindsKept, Receipts, SkillAssets
  <2> QED BY <1>1, <1>4, <1>5, <2>1 DEF StartInv, KindsKept
<1>7. ServersKept'
  BY <1>1, <1>5 DEF StartInv, ServersKept, Servers
<1>8. SkillsRead'
  BY <1>1, <1>5 DEF StartInv, SkillsRead, Matches, Apart
<1>9. AtSkill'
  <2>1. ASSUME stage = "read" PROVE digest <= tree'[Current]
    <3>1. digest \in Versions /\ digest <= tree[Current] /\ Current \in DOMAIN Roots
      BY <2>1 DEF StartInv, AtSkill
    <3>2. tree'[Current] \in Nat /\ tree[Current] \in Nat /\ tree[Current] <= tree'[Current]
          /\ digest \in Nat
      BY <1>2, <1>3, <3>1 DEF Versions
    <3> QED BY <3>1, <3>2
  <2> QED BY <1>1, <1>5, <2>1 DEF StartInv, AtSkill, Current, Apart
<1>10. Told'
  BY <1>1, <1>5 DEF StartInv, Told, ToldBy
<1>11. Given'
  BY <1>1 DEF Given, Loading, Reading, Begun
<1> QED BY <1>6, <1>7, <1>8, <1>9, <1>10, <1>11 DEF StartInv

(* The program runs and ends.                                              *)
LEMMA RunningKeeps ==
  ASSUME StartInv, stage \in Begun, stage' \in Begun, stage = "ended" => stage' = "ended",
         UNCHANGED <<world, layerVars, gaveUp, position, loaded, receipts, visible,
                     snapshot, reports, tree>>,
         prompts' \in 0..MaxPrompts,
         connected' = connected \/ (connected' = {} /\ stage' = "ended")
  PROVE  StartInv'
<1> USE DEF layerVars
<1>1. Managed' = Managed /\ Asked' = Asked /\ Bound' = Bound
      /\ (stage' # "ended" => AllSkills' = AllSkills)
  BY DEF Managed, Asked, Bound, AllSkills, Found, Usable
<1>2. stage' \in Built /\ stage \in Built /\ stage' \in Stages /\ stage' # "failed"
      /\ stage # "failed" /\ stage \in Loading /\ stage' \in Loading
      /\ stage' \notin Early \cup Reading \cup {"handshake"}
      /\ stage \notin Early \cup Reading \cup {"handshake"}
  BY DEF Built, Stages, Begun, Loading, Early, Reading
<1>3. KindsKept'
  <2>1. (receipts \in Seq(Receipts))'
    BY <1>1 DEF StartInv, KindsKept, Receipts, SkillAssets
  <2> QED BY <1>1, <1>2, <2>1 DEF StartInv, KindsKept
<1>4. ServersKept'
  <2>1. stage' \in Serving => stage \in Serving /\ connected' = connected
    BY DEF Serving, Begun, Reading
  <2>2. (connected \subseteq DOMAIN Servers)'
    BY DEF StartInv, ServersKept, Servers
  <2> QED BY <1>1, <1>2, <2>1, <2>2 DEF StartInv, ServersKept
<1>5. SkillsRead'
  BY <1>1 DEF StartInv, SkillsRead, Matches, Apart
<1>6. AtSkill'
  BY DEF AtSkill, Begun
<1>7. Told'
  <2>1. ASSUME NEW s \in Begun, NEW t \in Begun PROVE ToldBy(s) = ToldBy(t) /\ ToldBy(s)' = ToldBy(s)
    <3>1. s \notin Early \cup Reading \cup {"handshake"} /\ t \notin Early \cup Reading \cup {"handshake"}
      BY DEF Early, Reading, Begun
    <3> QED BY <1>1, <3>1 DEF ToldBy
  <2>2. reports = ToldBy(stage) /\ (gaveUp \in OverAssets => \E r \in reports : ~r.ok)
    BY <1>2 DEF StartInv, Told
  <2>3. ToldBy(stage)' = ToldBy(stage)
    <3>1. \A s \in Begun : ToldBy(s)' = ToldBy(stage)
      BY <2>1
    <3> QED BY <1>1, <1>2 DEF ToldBy
  <2> QED BY <2>2, <2>3 DEF Told
<1>8. Given'
  <2>1. /\ stage' # "ended" => visible' = Deduplicate(AllSkills)'
        /\ position' = Len(Asked') + 1
        /\ (Assets(Asked) \subseteq Assets(receipts))'
        /\ (snapshot = Managed.runtime \cup Assets(receipts) \cup Assets(Bound))'
    BY <1>1, <1>2 DEF StartInv, Given
  <2> QED BY <2>1 DEF Given
<1> QED BY <1>3, <1>4, <1>5, <1>6, <1>7, <1>8 DEF StartInv

LEMMA RunKeeps ==
  ASSUME StartInv,
         \/ \E result \in {"ok", "error", "aborted"} : RunPrompt(result)
         \/ EmptyLine \/ RunStopHooks \/ ShutDownServers
  PROVE  StartInv'
<1>1. MaxPrompts \in Nat /\ prompts \in 0..MaxPrompts
      /\ \A r \in reports : r.phase \in {"connect", "inject", "handshake"} /\ r.ok \in BOOLEAN
  BY StartupAssumption DEF StartInv, KindsKept
<1>2. ASSUME NEW result, RunPrompt(result) PROVE StartInv'
  <2>1. /\ stage = "ready" /\ UNCHANGED <<world, layerVars, bootVars, tree>>
        /\ \/ stage' = "failed" /\ gaveUp' = "run"
           \/ stage' \in {"ready", "stop hooks"} /\ gaveUp' = gaveUp
    BY <1>2 DEF RunPrompt, Fail
  <2>2. prompts' \in 0..MaxPrompts
    <3>1. prompts < MaxPrompts /\ prompts' = prompts + 1
      BY <1>2 DEF RunPrompt
    <3> QED BY <1>1, <3>1
  <2>3. CASE stage' = "failed"
    <3>1. gaveUp' \notin OverAssets /\ gaveUp' # "none" /\ stage \in Loading
      BY <2>1, <2>3 DEF OverAssets, Loading, Begun
    <3> QED BY <1>1, <2>1, <2>2, <2>3, <3>1, GivesUp DEF bootVars
  <2>4. CASE stage' # "failed"
    <3>1. stage \in Begun /\ stage' \in Begun /\ stage # "ended" /\ gaveUp' = gaveUp
      BY <2>1, <2>4 DEF Begun
    <3> QED BY <2>1, <2>2, <3>1, RunningKeeps DEF bootVars
  <2> QED BY <2>3, <2>4
<1>3. CASE EmptyLine \/ RunStopHooks
  <2>1. /\ stage \in {"ready", "stop hooks"} /\ stage' \in {"stop hooks", "shutdown"}
        /\ UNCHANGED <<world, layerVars, gaveUp, bootVars, tree, prompts>>
    BY <1>3 DEF EmptyLine, RunStopHooks
  <2>2. stage \in Begun /\ stage' \in Begun /\ stage # "ended"
    BY <2>1 DEF Begun
  <2> QED BY <1>1, <2>1, <2>2, RunningKeeps DEF bootVars
<1>4. CASE ShutDownServers
  BY <1>1, <1>4, RunningKeeps DEF ShutDownServers, Begun
<1> QED BY <1>2, <1>3, <1>4

LEMMA PollsApart ==
  ASSUME NEW n \in Nat, NEW t \in Nat, NEW late \in Nat, n * Interval <= t, t <= ExpiresIn
  PROVE  /\ (n + 1) * Interval <= t + Interval + late
         /\ ((n + 1) - 1) * Interval <= ExpiresIn
<1>1. Interval \in Nat /\ ExpiresIn \in Nat
  BY LoginTimes
<1> DEFINE spent == n * Interval
<1>2. spent \in Nat /\ (n + 1) * Interval = spent + Interval /\ (n + 1) - 1 = n
  BY <1>1
<1> HIDE DEF spent
<1>3. spent <= t
  BY DEF spent
<1>4. spent + Interval <= t + Interval + late /\ spent <= ExpiresIn
  BY <1>1, <1>2, <1>3
<1> QED BY <1>2, <1>4 DEF spent

LEMMA LoginKeeps ==
  ASSUME LoginTypeOK,
         \/ LoginStep \/ UserAnswers \/ Logout
         \/ \E clientId \in BOOLEAN : BeginLogin(clientId)
  PROVE  LoginTypeOK'
<1> DEFINE Kinds == {"none", "requesting", "waiting", "asking", "granted", "failed"}
           Paced(n, t) == n * Interval <= t /\ (n - 1) * Interval <= ExpiresIn
<1>1. /\ login \in Kinds /\ now \in Nat /\ polls \in Nat
      /\ grant \in {"pending", "approved", "denied"} /\ credentials \in BOOLEAN
      /\ Paced(polls, now)
  BY DEF LoginTypeOK
<1>2. ASSUME login' \in Kinds, now' \in Nat, polls' \in Nat,
             grant' \in {"pending", "approved", "denied"}, credentials' \in BOOLEAN,
             Paced(polls', now')
      PROVE  LoginTypeOK'
  BY <1>2 DEF LoginTypeOK
<1>3. Interval \in Nat /\ SlowDown \in Nat /\ ExpiresIn \in Nat /\ Waits \subseteq Nat
  BY LoginTimes
<1>4. CASE DeviceCode \/ UserAnswers
  <2>1. /\ login' \in Kinds /\ grant' \in {"pending", "approved", "denied"}
        /\ now' = now /\ polls' = polls /\ credentials' = credentials
    BY <1>1, <1>4 DEF DeviceCode, UserAnswers
  <2> QED BY <1>1, <1>2, <2>1
<1>5. CASE Logout
  <2>1. /\ login' = login /\ grant' = grant /\ now' = now /\ polls' = polls
        /\ credentials' = FALSE
    BY <1>5 DEF Logout
  <2> QED BY <1>1, <1>2, <2>1
<1>6. CASE PauseBeforePoll
  <2>1. login' \in Kinds /\ grant' = grant /\ credentials' = credentials
    BY <1>6 DEF PauseBeforePoll, Poll
  <2>2. CASE now > ExpiresIn
    <3>1. now' = now /\ polls' = polls
      BY <1>6, <2>2 DEF PauseBeforePoll, Poll
    <3> QED BY <1>1, <1>2, <2>1, <3>1
  <2>3. CASE ~(now > ExpiresIn)
    <3>1. PICK late \in Waits : now' = now + Interval + late
      BY <1>6, <2>3 DEF PauseBeforePoll, Poll
    <3>2. polls' = polls + 1
      BY <1>6, <2>3 DEF PauseBeforePoll, Poll
    <3>3. late \in Nat /\ now <= ExpiresIn
      BY <1>1, <1>3, <2>3
    <3>4. Paced(polls + 1, now + Interval + late)
      BY <1>1, <3>3, PollsApart
    <3>5. now' \in Nat /\ polls' \in Nat
      BY <1>1, <1>3, <3>1, <3>2, <3>3
    <3> QED BY <1>1, <1>2, <2>1, <3>1, <3>2, <3>4, <3>5
  <2> QED BY <2>2, <2>3
<1>7. ASSUME NEW answer \in ServerAnswers, PollAnswer(answer) PROVE LoginTypeOK'
  <2>1. login' \in Kinds
    BY <1>7 DEF PollAnswer
  <2>2. grant' = grant /\ polls' = polls
    BY <1>7 DEF PollAnswer
  <2>3. credentials' \in BOOLEAN
    <3>1. credentials' \in {TRUE, credentials, credentials \/ answer = "token"}
      BY <1>7 DEF PollAnswer
    <3> QED BY <1>1, <3>1
  <2>4. PICK late \in Waits :
          now' = now + late + (IF answer = "slow_down" THEN SlowDown ELSE 0)
    BY <1>7 DEF PollAnswer
  <2>5. now' \in Nat /\ now <= now'
    BY <1>1, <1>3, <2>4
  <2>6. Paced(polls, now')
    <3> DEFINE spent == polls * Interval
    <3>1. spent \in Nat /\ spent <= now
      BY <1>1, <1>3
    <3> HIDE DEF spent
    <3>2. spent <= now'
      BY <1>1, <2>5, <3>1
    <3> QED BY <1>1, <3>2 DEF spent
  <2> QED BY <1>1, <1>2, <2>1, <2>2, <2>3, <2>5, <2>6
<1>8. ASSUME NEW clientId, BeginLogin(clientId) PROVE LoginTypeOK'
  <2>1. login' \in Kinds /\ now' = 0 /\ polls' = 0 /\ grant' = "pending"
        /\ credentials' = credentials
    BY <1>8 DEF BeginLogin
  <2>2. Paced(0, 0)
    BY <1>3
  <2> QED BY <1>1, <1>2, <2>1, <2>2
<1> QED BY <1>4, <1>5, <1>6, <1>7, <1>8 DEF LoginStep

LEMMA LoginAside ==
  ASSUME LoginTypeOK, UNCHANGED loginVars
  PROVE  LoginTypeOK'
BY DEF LoginTypeOK, loginVars

LEMMA BootstrapKeeps ==
  ASSUME StartInv, Bootstrap
  PROVE  StartInv'
BY StartKeeps, ConnectKeeps, CheckKeeps, DigestKeeps, ReadKeeps, ManagedReadKeeps, LoadKeeps,
   HandshakeKeeps, InjectKeeps DEF Bootstrap

LEMMA BootstrapAside ==
  ASSUME Bootstrap
  PROVE  UNCHANGED loginVars
BY DEF Bootstrap, OpenSession, ConnectMcp, CheckManaged, DigestManaged, ReadManaged, ManagedRead,
       LoadSkills, Handshake, Inject

LEMMA StartInvStep ==
  ASSUME StartInv, LoginTypeOK, [StartupNext]_startupVars
  PROVE  StartInv' /\ LoginTypeOK'
<1>1. CASE UNCHANGED startupVars
  BY <1>1, NothingStarts, LoginAside DEF startupVars
<1>2. CASE AuthLogin
  <2>1. HasClientId(world.global.sections) \in BOOLEAN
    BY DEF HasClientId
  <2>2. LoginTypeOK'
    BY <1>2, <2>1, LoginKeeps DEF AuthLogin
  <2> QED BY <1>2, <2>2, NothingStarts DEF AuthLogin
<1>3. CASE AuthLogout
  BY <1>3, NothingStarts, LoginKeeps DEF AuthLogout
<1>4. CASE ConfigInit
  BY <1>4, ConfigInitKeeps, LoginAside DEF ConfigInit
<1>5. CASE Start
  BY <1>5, StartKeeps, LoginAside DEF Start
<1>6. CASE LoggingIn
  BY <1>6, NothingStarts, LoginKeeps DEF LoggingIn
<1>7. CASE UserAnswers /\ UNCHANGED <<world, stage, layerVars, gaveUp, bootVars, tree, prompts>>
  BY <1>7, NothingStarts, LoginKeeps
<1>8. CASE Resolution
  BY <1>8, ResolutionKeeps, LoginAside DEF Resolution
<1>9. CASE Bootstrap
  BY <1>9, BootstrapKeeps, BootstrapAside, LoginAside
<1>10. CASE \E r \in DOMAIN Roots : SaveSkill(r)
  BY <1>10, SaveKeeps, LoginAside DEF SaveSkill
<1>11. CASE \/ \E result \in {"ok", "error", "aborted"} : RunPrompt(result)
            \/ EmptyLine \/ RunStopHooks \/ ShutDownServers
  <2>1. UNCHANGED loginVars
    BY <1>11 DEF RunPrompt, EmptyLine, RunStopHooks, ShutDownServers
  <2> QED BY <1>11, <2>1, RunKeeps, LoginAside
<1> QED
  BY <1>1, <1>2, <1>3, <1>4, <1>5, <1>6, <1>7, <1>8, <1>9, <1>10, <1>11 DEF StartupNext

LEMMA StartInvAlways == StartupSpec => [](StartInv /\ LoginTypeOK)
<1>1. StartupInit => StartInv /\ LoginTypeOK
  <2> SUFFICES ASSUME StartupInit PROVE LoginTypeOK
    BY StartsRight
  <2>1. now = 0 /\ polls = 0 /\ login = "none" /\ grant = "pending" /\ credentials \in BOOLEAN
    BY DEF StartupInit, LoginInit
  <2>2. 0 * Interval <= 0 /\ (0 - 1) * Interval <= ExpiresIn
    BY LoginTimes
  <2> QED BY <2>1, <2>2 DEF LoginTypeOK
<1>2. (StartInv /\ LoginTypeOK) /\ [StartupNext]_startupVars => (StartInv /\ LoginTypeOK)'
  BY StartInvStep
<1> QED BY <1>1, <1>2, PTL DEF StartupSpec

(* The variables of a start keep their kinds, it fails with a reason, and  *)
(* a login polls at most once in an interval of its code's life and once   *)
(* after it, however long requests and pauses take (auth.rs, login).       *)
THEOREM StartupTypesAreKept == StartupSpec => []StartupTypeOK
<1>1. StartInv /\ LoginTypeOK => StartupTypeOK
  <2> SUFFICES ASSUME StartInv, LoginTypeOK PROVE StartupTypeOK
    OBVIOUS
  <2>1. KindsKept /\ connected \subseteq DOMAIN Servers
    BY DEF StartInv, ServersKept
  <2>2. (stage = "failed") = (gaveUp # "none")
    BY <2>1 DEF KindsKept
  <2> QED BY <2>1, <2>2 DEF KindsKept, StartupTypeOK, Asked, Servers, Versions
<1> QED BY <1>1, StartInvAlways, PTL

-----------------------------------------------------------------------------

LEMMA ReceiptsMatch ==
  ASSUME StartInv, stage \in Loading
  PROVE  /\ Assets(receipts) = Assets(Asked)
         /\ \A i \in DOMAIN receipts : receipts[i].digest <= loaded[i].content
<1>1. /\ Len(Asked) \in Nat
      /\ \A i \in 1..Len(Asked) : Asked[i] \in [asset : Asset, root : STRING]
      /\ Assets(Asked) = {Asked[i].asset : i \in 1..Len(Asked)}
  BY AskedShape DEF StartInv, KindsKept
<1>2. /\ position - 1 = Len(Asked) /\ DOMAIN receipts = 1..Len(Asked)
      /\ Assets(Asked) \subseteq Assets(receipts)
  <2>1. receipts \in Seq(Receipts) /\ Len(receipts) = position - 1
    BY DEF StartInv, KindsKept
  <2>2. position = Len(Asked) + 1 /\ Assets(Asked) \subseteq Assets(receipts)
    BY DEF StartInv, Given
  <2> QED BY <1>1, <2>1, <2>2
<1>3. \A i \in 1..Len(Asked) : Matches(i)
  BY <1>2 DEF StartInv, SkillsRead
<1>4. \A i, j \in 1..Len(Asked) : i < j => Apart(i, j)
  BY <1>2 DEF StartInv, SkillsRead
<1>5. ASSUME NEW i \in 1..Len(Asked) PROVE receipts[i].asset = Asked[i].asset
  <2>1. Asked[i].asset \in Assets(receipts)
    BY <1>1, <1>2
  <2>2. PICK j \in 1..Len(Asked) : receipts[j].asset = Asked[i].asset
    BY <1>2, <2>1 DEF Assets, Range
  <2>3. receipts[j].asset = [Asked[j].asset EXCEPT !.kind = "skill"] /\ Asked[j].asset \in Asset
    BY <1>1, <1>3 DEF Matches
  <2>4. receipts[j].asset.id = Asked[j].asset.id
    BY <2>3 DEF Asset
  <2>5. ~Apart(i, j) /\ ~Apart(j, i)
    BY <2>2, <2>4 DEF Apart
  <2>6. i = j
    BY <1>1, <1>4, <2>5
  <2> QED BY <2>2, <2>6
<1>6. Assets(receipts) = {receipts[i].asset : i \in 1..Len(Asked)}
  BY <1>2 DEF Assets, Range
<1>7. Assets(receipts) = Assets(Asked)
  BY <1>1, <1>5, <1>6
<1> QED BY <1>2, <1>3, <1>7 DEF Matches

LEMMA Backed ==
  ASSUME StartInv
  PROVE  SnapshotBacked
<1>1. ASSUME stage \in Begun
      PROVE  /\ snapshot = Managed.runtime \cup Assets(Asked) \cup Assets(Bound)
             /\ \A i \in DOMAIN receipts : receipts[i].digest <= loaded[i].content
             /\ reports = Records("connect", Assets(Bound))
                  \cup Records("inject", Assets(Asked) \cup Managed.core)
                  \cup Records("handshake", Managed.runtime)
  <2>1. stage \in Loading \ {"handshake"} /\ stage # "failed"
        /\ stage \notin Early \cup Reading \cup {"handshake"}
    BY <1>1 DEF Loading, Begun, Early, Reading
  <2>2. /\ Assets(receipts) = Assets(Asked)
        /\ \A i \in DOMAIN receipts : receipts[i].digest <= loaded[i].content
    BY <2>1, ReceiptsMatch
  <2>3. snapshot = Managed.runtime \cup Assets(receipts) \cup Assets(Bound)
    BY <2>1 DEF StartInv, Given
  <2>4. reports = ToldBy(stage)
    BY <2>1 DEF StartInv, Told
  <2>5. reports = Records("connect", Assets(Bound)) \cup Records("inject", Assets(Asked))
                    \cup Records("handshake", Managed.runtime) \cup Records("inject", Managed.core)
    BY <1>1, <2>1, <2>4 DEF ToldBy
  <2>6. Records("inject", Assets(Asked) \cup Managed.core)
          = Records("inject", Assets(Asked)) \cup Records("inject", Managed.core)
    BY DEF Records
  <2> QED BY <2>2, <2>3, <2>5, <2>6
<1>2. stage \in {"ready", "stop hooks", "shutdown"} => \A m \in Range(Bound) : m.server \in connected
  BY DEF StartInv, ServersKept, Serving
<1>3. gaveUp \in OverAssets => \E r \in reports : ~r.ok
  BY DEF StartInv, Told
<1> QED BY <1>1, <1>2, <1>3 DEF SnapshotBacked, Records, Asked, Bound, OverAssets

(* The skills there are, in the order of their sources.                    *)
Lying == [name : STRING, path : STRING, usable : BOOLEAN, content : Nat,
          server : STRING, from : {"mcp", "user", "project", "added"}]
Ranked(s, lo, hi) ==
  /\ \A i \in 1..Len(s) : Rank[s[i].from] \in lo..hi
  /\ \A i, j \in 1..Len(s) : i < j => Rank[s[i].from] <= Rank[s[j].from]

LEMMA RankedConcat ==
  ASSUME NEW V, NEW s \in Seq(V), NEW t \in Seq(V), NEW lo \in Nat, NEW mid \in Nat, NEW next \in Nat,
         NEW hi \in Nat, lo <= mid, mid <= next, next <= hi, Ranked(s, lo, mid), Ranked(t, next, hi)
  PROVE  s \o t \in Seq(V) /\ Ranked(s \o t, lo, hi)
<1> DEFINE all == s \o t
           k(i) == i - Len(s)
<1>1. /\ all \in Seq(V) /\ Len(s) \in Nat /\ Len(t) \in Nat /\ Len(all) = Len(s) + Len(t)
      /\ \A i \in 1..Len(s) : all[i] = s[i]
      /\ \A i \in Len(s) + 1..Len(s) + Len(t) : all[i] = t[k(i)]
  OBVIOUS
<1> HIDE DEF all
<1>2. \A i \in 1..Len(all) : i \in 1..Len(s) \/ (i \in Len(s) + 1..Len(s) + Len(t) /\ k(i) \in 1..Len(t))
  BY <1>1
<1>3. \A i \in 1..Len(s) : Rank[all[i].from] \in lo..mid
  BY <1>1 DEF Ranked
<1>4. \A i \in Len(s) + 1..Len(s) + Len(t) : k(i) \in 1..Len(t) /\ Rank[all[i].from] \in next..hi
  <2>1. \A i \in Len(s) + 1..Len(s) + Len(t) : k(i) \in 1..Len(t)
    BY <1>1
  <2> HIDE DEF k
  <2> QED BY <1>1, <2>1 DEF Ranked
<1>5. ASSUME NEW i \in 1..Len(all) PROVE Rank[all[i].from] \in lo..hi
  <2>1. \A r \in lo..mid : r \in lo..hi
    OBVIOUS
  <2>2. \A r \in next..hi : r \in lo..hi
    OBVIOUS
  <2> HIDE DEF k
  <2> QED BY <1>2, <1>3, <1>4, <2>1, <2>2
<1>6. ASSUME NEW i \in 1..Len(all), NEW j \in 1..Len(all), i < j
      PROVE  Rank[all[i].from] <= Rank[all[j].from]
  <2>1. CASE j \in 1..Len(s)
    <3>1. i \in 1..Len(s)
      BY <1>1, <1>6, <2>1
    <3> QED BY <1>1, <1>6, <2>1, <3>1 DEF Ranked
  <2>2. CASE i \in 1..Len(s) /\ j \in Len(s) + 1..Len(s) + Len(t)
    BY <1>3, <1>4, <2>2
  <2>3. CASE i \in Len(s) + 1..Len(s) + Len(t) /\ j \in Len(s) + 1..Len(s) + Len(t)
    <3>1. k(i) \in 1..Len(t) /\ k(j) \in 1..Len(t) /\ k(i) < k(j)
      BY <1>1, <1>6, <2>3
    <3> HIDE DEF k
    <3> QED BY <1>1, <2>3, <3>1 DEF Ranked
  <2>4. i \in Len(s) + 1..Len(s) + Len(t) => j \notin 1..Len(s)
    BY <1>1, <1>6
  <2> QED BY <1>2, <2>1, <2>2, <2>3, <2>4
<1>7. Ranked(all, lo, hi)
  BY <1>5, <1>6 DEF Ranked
<1> QED BY <1>1, <1>7 DEF all

LEMMA UsableRanked ==
  ASSUME NEW found \in Seq(Lying), NEW source, Rank[source] \in Nat
  PROVE  /\ Usable(found, source) \in Seq(Lying)
         /\ Ranked(Usable(found, source), Rank[source], Rank[source])
<1> DEFINE kept == {i \in DOMAIN found :
                      /\ found[i].usable /\ found[i].from = source
                      /\ source = "mcp" => found[i].server \in connected}
           s == Usable(found, source)
<1>1. kept \in SUBSET (1..Len(found))
  OBVIOUS
<1>2. s = Picked(found, kept)
  BY Zenon DEF Usable
<1> HIDE DEF s
<1>3. s \in Seq(Lying) /\ \E at : Lists(s, at, found, kept)
  BY <1>1, <1>2, PickedLists
<1>4. PICK at : Lists(s, at, found, kept)
  BY <1>3
<1>5. \A i \in 1..Len(s) : s[i] = found[at[i]] /\ at[i] \in kept
  BY <1>4 DEF Lists
<1>6. \A i \in 1..Len(s) : s[i].from = source
  <2>1. \A k \in kept : found[k].from = source
    OBVIOUS
  <2> HIDE DEF kept
  <2> QED BY <1>5, <2>1
<1> HIDE DEF kept
<1>7. \A i \in 1..Len(s) : Rank[s[i].from] = Rank[source]
  BY <1>6
<1>8. \A n \in Nat : n \in n..n /\ n <= n
  OBVIOUS
<1>9. Ranked(s, Rank[source], Rank[source])
  BY <1>7, <1>8 DEF Ranked
<1> QED BY <1>3, <1>9 DEF s

LEMMA FoundRanked ==
  ASSUME Shaped(world)
  PROVE  Found \in Seq(Lying) /\ Ranked(Found, 2, 4)
<1> DEFINE found == world.startup.found
           of(source) == Usable(found, source)
           mcp == of("mcp")
<1>1. found \in Seq(Lying)
  BY DEF Shaped, Lying
<1>2. Rank["mcp"] = 2 /\ Rank["user"] = 3 /\ Rank["project"] = 3 /\ Rank["added"] = 4
  BY DEF Rank
<1> HIDE DEF found
<1>3. /\ of("mcp") \in Seq(Lying) /\ Ranked(of("mcp"), 2, 2)
      /\ of("user") \in Seq(Lying) /\ Ranked(of("user"), 3, 3)
      /\ of("project") \in Seq(Lying) /\ Ranked(of("project"), 3, 3)
      /\ of("added") \in Seq(Lying) /\ Ranked(of("added"), 4, 4)
  <2>1. ASSUME NEW source, NEW r \in Nat, Rank[source] = r
        PROVE  of(source) \in Seq(Lying) /\ Ranked(of(source), r, r)
    BY <1>1, <2>1, UsableRanked
  <2> HIDE DEF of
  <2> QED BY <1>2, <2>1
<1>4. Found = mcp \o of("user") \o of("project") \o of("added")
  BY DEF Found, found
<1>5. mcp \in Seq(Lying) /\ Ranked(mcp, 2, 2)
  BY <1>3
<1> HIDE DEF of, mcp
<1> DEFINE two == mcp \o of("user")
           three == two \o of("project")
           four == three \o of("added")
<1>6. two \in Seq(Lying) /\ Ranked(two, 2, 3)
  BY <1>3, <1>5, RankedConcat, SMTT(30)
<1> HIDE DEF two
<1>7. three \in Seq(Lying) /\ Ranked(three, 2, 3)
  BY <1>3, <1>6, RankedConcat, SMTT(30)
<1> HIDE DEF three
<1>8. four \in Seq(Lying) /\ Ranked(four, 2, 4)
  BY <1>3, <1>7, RankedConcat, SMTT(30)
<1> QED BY <1>4, <1>8 DEF two, three

(* What is kept of skills in the order of their sources stays in it; every *)
(* skill is kept, or one of no lower rank has its name or its path, and    *)
(* its name is kept if it shares its path with no other.                   *)
Accounted(all, kept, i) ==
  LET skill    == all[i]
      others   == {j \in DOMAIN all : j # i}
      samePath == {j \in others : all[j].path = skill.path}
  IN /\ \/ skill \in Range(kept)
        \/ \E j \in others : /\ Rank[all[j].from] <= Rank[skill.from]
                             /\ j \in samePath \/ all[j].name = skill.name
     /\ samePath = {} => \E v \in Range(kept) : v.name = skill.name

LEMMA Deduplicated ==
  ASSUME NEW V, NEW all \in Seq(V), Ranked(all, 1, 4)
  PROVE  LET kept == Deduplicate(all) IN
         /\ kept \in Seq(V)
         /\ \A i, j \in DOMAIN kept : i < j =>
              /\ kept[i].name # kept[j].name /\ kept[i].path # kept[j].path
              /\ Rank[kept[i].from] <= Rank[kept[j].from]
         /\ \A i \in DOMAIN all : Accounted(all, kept, i)
<1> DEFINE kept == Deduplicate(all)
           paths == {i \in DOMAIN all : \A j \in 1..i - 1 : all[j].path # all[i].path}
<1>1. Kept(all) = {i \in paths : \A j \in paths : j < i => all[j].name # all[i].name}
  BY DEF Kept
<1>2. Kept(all) \in SUBSET (1..Len(all)) /\ DOMAIN all = 1..Len(all) /\ Len(all) \in Nat
  <2>1. DOMAIN all = 1..Len(all) /\ Len(all) \in Nat
    OBVIOUS
  <2>2. Kept(all) \in SUBSET (DOMAIN all)
    BY <1>1
  <2> QED BY <2>1, <2>2
<1>3. kept = Picked(all, Kept(all))
  BY DEF Deduplicate
<1> HIDE DEF kept
<1>4. kept \in Seq(V) /\ \E at : Lists(kept, at, all, Kept(all))
  BY <1>2, <1>3, PickedLists
<1>5. PICK at : Lists(kept, at, all, Kept(all))
  BY <1>4
<1>6. DOMAIN kept = 1..Len(kept)
  BY <1>4
<1>7. ASSUME NEW i \in DOMAIN kept, NEW j \in DOMAIN kept, i < j
      PROVE  /\ kept[i].name # kept[j].name /\ kept[i].path # kept[j].path
             /\ Rank[kept[i].from] <= Rank[kept[j].from]
  <2>1. /\ kept[i] = all[at[i]] /\ kept[j] = all[at[j]] /\ at[i] < at[j]
        /\ at[i] \in Kept(all) /\ at[j] \in Kept(all)
    BY <1>5, <1>6, <1>7 DEF Lists
  <2>2. at[i] \in paths /\ at[j] \in paths /\ all[at[i]].name # all[at[j]].name
    BY <1>1, <2>1
  <2>3. at[i] \in 1..at[j] - 1 /\ at[i] \in 1..Len(all) /\ at[j] \in 1..Len(all)
    BY <1>2, <2>1
  <2>4. all[at[i]].path # all[at[j]].path
    BY <2>2, <2>3
  <2>5. Rank[all[at[i]].from] <= Rank[all[at[j]].from]
    BY <2>1, <2>3 DEF Ranked
  <2> QED BY <2>1, <2>2, <2>4, <2>5
<1>8. ASSUME NEW i \in DOMAIN all,
             ~\E j \in 1..i - 1 : all[j].name = all[i].name \/ all[j].path = all[i].path
      PROVE  all[i] \in Range(kept)
  <2>1. i \in paths
    BY <1>8
  <2>2. ASSUME NEW j \in paths, j < i PROVE all[j].name # all[i].name
    <3>1. j \in 1..i - 1
      BY <1>2, <2>2
    <3> QED BY <1>8, <3>1
  <2>3. i \in Kept(all)
    BY <1>1, <2>1, <2>2
  <2>4. PICK n \in 1..Len(kept) : at[n] = i
    BY <1>5, <2>3 DEF Lists
  <2>5. kept[n] = all[i] /\ n \in DOMAIN kept
    BY <1>5, <1>6, <2>4 DEF Lists
  <2> QED BY <2>5 DEF Range
<1>9. ASSUME NEW i \in DOMAIN all, \A j \in DOMAIN all : j # i => all[j].path # all[i].path
      PROVE  \E v \in Range(kept) : v.name = all[i].name
  <2> DEFINE named == {j \in paths : all[j].name = all[i].name}
  <2>1. i \in paths
    <3>1. \A j \in 1..i - 1 : j \in DOMAIN all /\ j # i
      BY <1>2, <1>9
    <3> QED BY <1>9, <3>1
  <2>2. named \subseteq Nat /\ i \in named
    BY <1>2, <2>1
  <2>3. PICK m \in named : \A j \in named : m <= j
    <3> HIDE DEF named
    <3> QED BY <2>2, LeastNatural
  <2>4. m \in paths /\ all[m].name = all[i].name /\ m \in Nat
    BY <2>2, <2>3
  <2>5. ASSUME NEW j \in paths, j < m PROVE all[j].name # all[m].name
    <3>1. j \in Nat /\ ~(m <= j)
      BY <1>2, <2>4, <2>5
    <3> QED BY <2>3, <2>4, <3>1
  <2>6. m \in Kept(all)
    BY <1>1, <2>4, <2>5
  <2>7. PICK n \in 1..Len(kept) : at[n] = m
    BY <1>5, <2>6 DEF Lists
  <2>8. kept[n] = all[m] /\ n \in DOMAIN kept
    BY <1>5, <1>6, <2>7 DEF Lists
  <2> QED BY <2>4, <2>8 DEF Range
<1>10. ASSUME NEW i \in DOMAIN all PROVE Accounted(all, kept, i)
  <2> DEFINE others == {j \in DOMAIN all : j # i}
             samePath == {j \in others : all[j].path = all[i].path}
  <2>1. \/ all[i] \in Range(kept)
        \/ \E j \in others : /\ Rank[all[j].from] <= Rank[all[i].from]
                             /\ j \in samePath \/ all[j].name = all[i].name
    <3>1. CASE \E j \in 1..i - 1 : all[j].name = all[i].name \/ all[j].path = all[i].path
      <4>1. PICK j \in 1..i - 1 : all[j].name = all[i].name \/ all[j].path = all[i].path
        BY <3>1
      <4>2. j \in 1..Len(all) /\ i \in 1..Len(all) /\ j < i /\ j # i
        BY <1>2, <4>1
      <4>3. Rank[all[j].from] <= Rank[all[i].from]
        BY <4>2 DEF Ranked
      <4>4. j \in others /\ (j \in samePath \/ all[j].name = all[i].name)
        BY <1>2, <4>1, <4>2
      <4> QED BY <4>3, <4>4
    <3> QED BY <1>8, <3>1
  <2>2. samePath = {} => \E v \in Range(kept) : v.name = all[i].name
    BY <1>9
  <2> QED BY <2>1, <2>2 DEF Accounted
<1>11. /\ kept \in Seq(V)
       /\ \A i, j \in DOMAIN kept : i < j =>
            /\ kept[i].name # kept[j].name /\ kept[i].path # kept[j].path
            /\ Rank[kept[i].from] <= Rank[kept[j].from]
       /\ \A i \in DOMAIN all : Accounted(all, kept, i)
  BY <1>4, <1>7, <1>10
<1> QED BY <1>11 DEF kept

LEMMA WiderSeq ==
  ASSUME NEW S, NEW T, NEW s \in Seq(S)
  PROVE  s \in Seq(S \cup T) /\ s \in Seq(T \cup S)
OBVIOUS

LEMMA SkillsInOrder ==
  ASSUME StartInv
  PROVE  /\ AllSkills \in Seq(Loads \cup Lying) /\ Ranked(AllSkills, 1, 4)
         /\ Len(loaded) \in Nat /\ Len(loaded) <= Len(AllSkills)
         /\ \A i \in 1..Len(loaded) : AllSkills[i] = loaded[i]
<1>1. loaded \in Seq(Loads) /\ Shaped(world)
  BY DEF StartInv, KindsKept
<1>2. Found \in Seq(Lying) /\ Ranked(Found, 2, 4)
  BY <1>1, FoundRanked
<1>3. Ranked(loaded, 1, 1)
  <2>1. \A e \in Loads : e.from = "managed"
    BY DEF Loads
  <2>2. \A i \in 1..Len(loaded) : loaded[i].from = "managed"
    BY <1>1, <2>1
  <2>3. Rank["managed"] = 1
    BY DEF Rank
  <2>4. \A i \in 1..Len(loaded) : Rank[loaded[i].from] = 1
    BY <2>2, <2>3
  <2> QED BY <2>4 DEF Ranked
<1>4. loaded \in Seq(Loads \cup Lying) /\ Found \in Seq(Loads \cup Lying)
  BY <1>1, <1>2, WiderSeq
<1>5. AllSkills \in Seq(Loads \cup Lying) /\ Ranked(AllSkills, 1, 4)
  BY <1>2, <1>3, <1>4, RankedConcat DEF AllSkills
<1>6. /\ Len(loaded) \in Nat /\ Len(loaded) <= Len(AllSkills)
      /\ \A i \in 1..Len(loaded) : AllSkills[i] = loaded[i]
  BY <1>4 DEF AllSkills
<1> QED BY <1>5, <1>6

LEMMA LoadedFirst ==
  ASSUME StartInv, stage \in Loading
  PROVE  IsPrefix(loaded, Deduplicate(AllSkills))
<1> DEFINE all == AllSkills
           kept == Deduplicate(all)
           n == Len(loaded)
<1>1. /\ all \in Seq(Loads \cup Lying) /\ n \in Nat /\ n <= Len(all)
      /\ \A i \in 1..n : all[i] = loaded[i]
  BY SkillsInOrder
<1> HIDE DEF all
<1>2. Kept(all) \in SUBSET (1..Len(all))
  <2>1. DOMAIN all = 1..Len(all)
    BY <1>1
  <2>2. Kept(all) \in SUBSET (DOMAIN all)
    BY DEF Kept
  <2> QED BY <2>1, <2>2
<1>3. \A i, j \in 1..n : i < j => all[i].name # all[j].name /\ all[i].path # all[j].path
  <2>1. n = position - 1 /\ position - 1 \in Nat
    BY <1>1 DEF StartInv, KindsKept
  <2>2. ASSUME NEW i \in 1..n, NEW j \in 1..n, i < j
        PROVE  loaded[i].name # loaded[j].name /\ loaded[i].path # loaded[j].path
    <3>1. i \in 1..position - 1 /\ j \in 1..position - 1
      BY <2>1
    <3>2. Apart(i, j) /\ loaded[i].name # loaded[j].name /\ Matches(i) /\ Matches(j)
      BY <2>2, <3>1 DEF StartInv, SkillsRead
    <3> QED BY <3>2 DEF Matches, Apart
  <2> HIDE DEF n
  <2> QED BY <1>1, <2>2
<1>4. 1..n \subseteq Kept(all)
  <2> SUFFICES ASSUME NEW i \in 1..n PROVE i \in Kept(all)
    OBVIOUS
  <2>1. i \in DOMAIN all /\ \A j \in 1..i - 1 : j \in 1..n /\ j < i
    BY <1>1
  <2> HIDE DEF n
  <2>2. \A j \in 1..i - 1 : all[j].path # all[i].path
    BY <1>3, <2>1
  <2>3. \A j \in DOMAIN all : j < i => all[j].name # all[i].name
    <3>1. \A j \in DOMAIN all : j < i => j \in 1..n
      BY <1>1, <2>1
    <3> QED BY <1>3, <3>1
  <2> QED BY <2>1, <2>2, <2>3 DEF Kept
<1>5. kept \in Seq(Loads \cup Lying) /\ \E at : Lists(kept, at, all, Kept(all))
  BY <1>1, <1>2, PickedLists DEF Deduplicate
<1>6. n <= Len(kept) /\ \A k \in 1..n : kept[k] = all[k]
  <2>1. PICK at : Lists(kept, at, all, Kept(all))
    BY <1>5
  <2>2. Kept(all) \in SUBSET Nat /\ 0 \notin Kept(all)
    BY <1>1, <1>2
  <2> HIDE DEF n, kept
  <2> QED BY <1>1, <1>4, <2>1, <2>2, ListedPrefix
<1>7. \A k \in 1..n : kept[k] = loaded[k]
  <2> HIDE DEF n, kept
  <2> QED BY <1>1, <1>6
<1>8. SubSeq(loaded, 1, n) = SubSeq(kept, 1, n)
  <2>1. loaded \in Seq(Loads)
    BY DEF StartInv, KindsKept
  <2> HIDE DEF kept
  <2> QED BY <1>5, <1>6, <1>7, <2>1
<1>9. IsPrefix(loaded, kept)
  <2> HIDE DEF kept
  <2> QED BY <1>6, <1>8 DEF IsPrefix
<1> QED BY <1>9 DEF all

LEMMA SkillsPrecede ==
  ASSUME StartInv
  PROVE  SkillPrecedence
<1> SUFFICES ASSUME stage \in Loading \ {"ended"}
             PROVE  /\ IsPrefix(loaded, visible)
                    /\ \A i, j \in DOMAIN visible : i < j =>
                         /\ visible[i].name # visible[j].name /\ visible[i].path # visible[j].path
                         /\ Rank[visible[i].from] <= Rank[visible[j].from]
                    /\ \A i \in DOMAIN AllSkills : Accounted(AllSkills, visible, i)
  BY DEF SkillPrecedence, Loading, Begun, Accounted
<1>1. visible = Deduplicate(AllSkills)
  BY DEF StartInv, Given
<1>2. IsPrefix(loaded, visible)
  BY <1>1, LoadedFirst
<1>3. AllSkills \in Seq(Loads \cup Lying) /\ Ranked(AllSkills, 1, 4)
  BY SkillsInOrder
<1> QED BY <1>1, <1>2, <1>3, Deduplicated

(* Whatever the host asks for and its author saves meanwhile, the engine   *)
(* runs with the skills of the highest sources, each once, and the host is *)
(* told exactly what runs (bootstrap.rs, build; loader.rs).                *)
THEOREM AssetsAreExact == StartupSpec => []AssetsExact
<1>1. StartInv /\ LoginTypeOK => AssetsExact
  BY SkillsPrecede, Backed DEF AssetsExact
<1> QED BY <1>1, StartInvAlways, PTL

-----------------------------------------------------------------------------

(***************************************************************************)
(* Layers.  A chain of Get reads a list of them from the strongest down.   *)
(***************************************************************************)
LEMMA GetOver ==
  ASSUME NEW f, NEW g, NEW k, NEW o
  PROVE  Get(Over(f, g), k, o) = Get(f, k, Get(g, k, o))
BY DEF Get, Over

LEMMA GetOnly ==
  ASSUME NEW f, NEW keys, NEW k, NEW o
  PROVE  /\ k \in keys => Get(Only(f, keys), k, o) = Get(f, k, o)
         /\ k \notin keys => Get(Only(f, keys), k, o) = o
BY DEF Get, Only

LEMMA GetNothing ==
  ASSUME NEW k, NEW o
  PROVE  Get(<<>>, k, o) = o
BY DEF Get

LEMMA MergedPlain ==
  ASSUME NEW base, NEW over, NEW k, NEW o, k # "compat"
  PROVE  Get(MergeProvider(base, over), k, o) = Get(over, k, Get(base, k, o))
<1>1. CASE "compat" \in DOMAIN base \cap DOMAIN over
  <2> DEFINE both == Over(over, base)
             new == Over(over.compat, base.compat)
  <2>1. MergeProvider(base, over) = [both EXCEPT !.compat = new]
    BY <1>1 DEF MergeProvider
  <2>2. both = [x \in DOMAIN both |-> both[x]]
    BY DEF Over
  <2> HIDE DEF both, new
  <2>3. Get([both EXCEPT !.compat = new], k, o) = Get(both, k, o)
    BY <2>2 DEF Get
  <2> QED BY <2>1, <2>3, GetOver DEF both
<1>2. CASE "compat" \notin DOMAIN base \cap DOMAIN over
  BY <1>2, GetOver DEF MergeProvider
<1> QED BY <1>1, <1>2

LEMMA MergedCompat ==
  ASSUME NEW base, NEW over, NEW f, NEW o
  PROVE  Get(Get(MergeProvider(base, over), "compat", <<>>), f, o)
           = Get(Get(over, "compat", <<>>), f, Get(Get(base, "compat", <<>>), f, o))
<1>1. CASE "compat" \in DOMAIN base \cap DOMAIN over
  <2> DEFINE both == Over(over, base)
             new == Over(over.compat, base.compat)
  <2>1. MergeProvider(base, over) = [both EXCEPT !.compat = new]
    BY <1>1 DEF MergeProvider
  <2>2. both = [x \in DOMAIN both |-> both[x]] /\ "compat" \in DOMAIN both
    BY <1>1 DEF Over
  <2> HIDE DEF both, new
  <2>3. Get([both EXCEPT !.compat = new], "compat", <<>>) = new
    BY <2>2 DEF Get
  <2>4. Get(over, "compat", <<>>) = over.compat /\ Get(base, "compat", <<>>) = base.compat
    BY <1>1 DEF Get
  <2> QED BY <2>1, <2>3, <2>4, GetOver DEF new
<1>2. CASE "compat" \notin DOMAIN base \cap DOMAIN over
  <2>1. MergeProvider(base, over) = Over(over, base)
    BY <1>2 DEF MergeProvider
  <2>2. Get(Over(over, base), "compat", <<>>) = Get(over, "compat", Get(base, "compat", <<>>))
    BY GetOver
  <2>3. CASE "compat" \in DOMAIN over
    <3>1. /\ Get(over, "compat", Get(base, "compat", <<>>)) = Get(over, "compat", <<>>)
          /\ Get(base, "compat", <<>>) = <<>>
      BY <1>2, <2>3 DEF Get
    <3> QED BY <2>1, <2>2, <3>1, GetNothing
  <2>4. CASE "compat" \notin DOMAIN over
    <3>1. /\ Get(over, "compat", Get(base, "compat", <<>>)) = Get(base, "compat", <<>>)
          /\ Get(over, "compat", <<>>) = <<>>
      BY <2>4 DEF Get
    <3> QED BY <2>1, <2>2, <3>1, GetNothing
  <2> QED BY <2>3, <2>4
<1> QED BY <1>1, <1>2

List(layers) == layers \in Seq(Range(layers))

LEMMA ListOf ==
  ASSUME NEW V, NEW s \in Seq(V)
  PROVE  List(s) /\ Len(s) \in Nat /\ DOMAIN s = 1..Len(s)
<1>1. Len(s) \in Nat /\ DOMAIN s = 1..Len(s) /\ \A i \in 1..Len(s) : s[i] \in Range(s)
  BY DEF Range
<1> QED BY <1>1 DEF List

LEMMA ListShort ==
  ASSUME NEW a, NEW b
  PROVE  List(<<>>) /\ List(<<a>>) /\ List(<<a, b>>)
<1>1. <<>> \in Seq({a, b}) /\ <<a>> \in Seq({a, b}) /\ <<a, b>> \in Seq({a, b})
  OBVIOUS
<1> QED BY <1>1, ListOf

LEMMA ListMapped ==
  ASSUME NEW s, List(s), NEW t, t = [i \in DOMAIN s |-> t[i]]
  PROVE  List(t) /\ Len(t) = Len(s) /\ DOMAIN t = DOMAIN s
<1> DEFINE V == {t[i] : i \in DOMAIN s}
<1>1. Len(s) \in Nat /\ DOMAIN s = 1..Len(s)
  BY DEF List
<1>2. t \in Seq(V) /\ Len(t) = Len(s) /\ DOMAIN t = DOMAIN s
  BY <1>1
<1> HIDE DEF V
<1> QED BY <1>2, ListOf

LEMMA ListConcat ==
  ASSUME NEW s, NEW t, List(s), List(t)
  PROVE  /\ List(s \o t) /\ Len(s) \in Nat /\ Len(t) \in Nat
         /\ DOMAIN s = 1..Len(s) /\ DOMAIN t = 1..Len(t) /\ DOMAIN (s \o t) = 1..Len(s) + Len(t)
         /\ \A i \in 1..Len(s) : (s \o t)[i] = s[i]
         /\ \A i \in 1..Len(t) : (s \o t)[Len(s) + i] = t[i]
<1> DEFINE V == Range(s) \cup Range(t)
<1>1. s \in Seq(V) /\ t \in Seq(V)
  BY WiderSeq DEF List
<1> HIDE DEF V
<1>2. /\ s \o t \in Seq(V) /\ Len(s) \in Nat /\ Len(t) \in Nat
      /\ DOMAIN s = 1..Len(s) /\ DOMAIN t = 1..Len(t) /\ DOMAIN (s \o t) = 1..Len(s) + Len(t)
  BY <1>1
<1>3. \A i \in 1..Len(s) : (s \o t)[i] = s[i]
  BY <1>1
<1>4. ASSUME NEW i \in 1..Len(t) PROVE (s \o t)[Len(s) + i] = t[i]
  <2>1. Len(s) + i \in 1..Len(s) + Len(t) /\ ~(Len(s) + i <= Len(s)) /\ (Len(s) + i) - Len(s) = i
    BY <1>2
  <2> QED BY <1>1, <1>2, <2>1
<1> QED BY <1>2, <1>3, <1>4, ListOf

(* The layer at i is the first that states k.                              *)
FirstAt(layers, k, i) ==
  /\ i \in DOMAIN layers /\ k \in DOMAIN layers[i]
  /\ \A j \in DOMAIN layers : j < i => k \notin DOMAIN layers[j]
Unstated(layers, k) == \A i \in DOMAIN layers : k \notin DOMAIN layers[i]

LEMMA FirstStatedIs ==
  ASSUME NEW layers, List(layers), NEW k, NEW o
  PROVE  /\ Unstated(layers, k) => FirstStated(layers, k, o) = o
         /\ \A i : FirstAt(layers, k, i) => FirstStated(layers, k, o) = layers[i][k]
         /\ Unstated(layers, k) \/ \E i : FirstAt(layers, k, i)
<1> DEFINE hits == {i \in DOMAIN layers : k \in DOMAIN layers[i]}
           first == CHOOSE i \in hits : \A j \in hits : i <= j
<1>1. DOMAIN layers \subseteq Nat
  <2>1. DOMAIN layers = 1..Len(layers) /\ Len(layers) \in Nat
    BY DEF List
  <2> QED BY <2>1
<1>2. FirstStated(layers, k, o) = IF hits = {} THEN o ELSE layers[first][k]
  BY DEF FirstStated
<1>3. Unstated(layers, k) => hits = {}
  BY DEF Unstated
<1>4. ASSUME NEW i, FirstAt(layers, k, i) PROVE hits # {} /\ first = i
  <2>1. i \in hits /\ \A j \in hits : i <= j
    BY <1>1, <1>4 DEF FirstAt
  <2>2. \A m \in hits : (\A j \in hits : m <= j) => m = i
    BY <1>1, <2>1
  <2> HIDE DEF hits
  <2> QED BY <2>1, <2>2
<1>5. ASSUME ~Unstated(layers, k) PROVE \E i : FirstAt(layers, k, i)
  <2>1. hits # {} /\ hits \subseteq Nat
    BY <1>1, <1>5 DEF Unstated
  <2>2. PICK m \in hits : \A j \in hits : m <= j
    <3> HIDE DEF hits
    <3> QED BY <2>1, LeastNatural
  <2>3. \A j \in DOMAIN layers : j < m => j \notin hits
    BY <1>1, <2>1, <2>2
  <2>4. FirstAt(layers, k, m)
    BY <2>2, <2>3 DEF FirstAt
  <2> QED BY <2>4
<1> HIDE DEF hits, first
<1> QED BY <1>2, <1>3, <1>4, <1>5

LEMMA FirstIs ==
  ASSUME NEW layers, List(layers), NEW k, NEW i, FirstAt(layers, k, i), NEW o
  PROVE  FirstStated(layers, k, o) = layers[i][k]
BY FirstStatedIs

LEMMA NoneIs ==
  ASSUME NEW layers, List(layers), NEW k, Unstated(layers, k), NEW o
  PROVE  FirstStated(layers, k, o) = o
BY FirstStatedIs

LEMMA FirstOfOne ==
  ASSUME NEW a, NEW k, NEW o
  PROVE  FirstStated(<<a>>, k, o) = Get(a, k, o)
<1>1. List(<<a>>) /\ DOMAIN <<a>> = {1} /\ <<a>>[1] = a
  <2>1. DOMAIN <<a>> = {1} /\ <<a>>[1] = a
    OBVIOUS
  <2> QED BY <2>1, ListShort
<1>2. CASE k \in DOMAIN a
  <2>1. FirstAt(<<a>>, k, 1)
    BY <1>1, <1>2 DEF FirstAt
  <2> QED BY <1>1, <1>2, <2>1, FirstStatedIs DEF Get
<1>3. CASE k \notin DOMAIN a
  <2>1. Unstated(<<a>>, k)
    BY <1>1, <1>3 DEF Unstated
  <2> QED BY <1>1, <1>3, <2>1, FirstStatedIs DEF Get
<1> QED BY <1>2, <1>3

LEMMA FirstOfNone ==
  ASSUME NEW k, NEW o
  PROVE  FirstStated(<<>>, k, o) = o
<1>1. List(<<>>) /\ Unstated(<<>>, k)
  <2>1. DOMAIN <<>> = {}
    OBVIOUS
  <2> QED BY <2>1, ListShort DEF Unstated
<1> QED BY <1>1, FirstStatedIs

LEMMA FirstOfBoth ==
  ASSUME NEW s, NEW t, List(s), List(t), NEW k, NEW o
  PROVE  FirstStated(s \o t, k, o) = FirstStated(s, k, FirstStated(t, k, o))
<1> DEFINE all == s \o t
<1>1. /\ List(all) /\ Len(s) \in Nat /\ Len(t) \in Nat
      /\ DOMAIN s = 1..Len(s) /\ DOMAIN t = 1..Len(t) /\ DOMAIN all = 1..Len(s) + Len(t)
      /\ \A i \in 1..Len(s) : all[i] = s[i]
      /\ \A i \in 1..Len(t) : all[Len(s) + i] = t[i]
  BY ListConcat
<1> HIDE DEF all
<1>2. ASSUME NEW i \in 1..Len(s) + Len(t), i \notin 1..Len(s)
      PROVE  i - Len(s) \in 1..Len(t) /\ all[i] = t[i - Len(s)]
  <2>1. i - Len(s) \in 1..Len(t) /\ Len(s) + (i - Len(s)) = i
    BY <1>1, <1>2
  <2> QED BY <1>1, <2>1
<1>3. ASSUME NEW i, FirstAt(s, k, i) PROVE FirstAt(all, k, i) /\ all[i] = s[i]
  <2>1. i \in 1..Len(s) /\ \A j \in 1..Len(s) : j < i => k \notin DOMAIN s[j]
    BY <1>1, <1>3 DEF FirstAt
  <2>2. \A j \in DOMAIN all : j < i => j \in 1..Len(s)
    BY <1>1, <2>1
  <2>3. i \in DOMAIN all
    BY <1>1, <2>1
  <2> QED BY <1>1, <1>3, <2>1, <2>2, <2>3 DEF FirstAt
<1>4. ASSUME Unstated(s, k), NEW i, FirstAt(t, k, i)
      PROVE  FirstAt(all, k, Len(s) + i) /\ all[Len(s) + i] = t[i]
  <2>1. i \in 1..Len(t) /\ k \in DOMAIN t[i] /\ \A j \in 1..Len(t) : j < i => k \notin DOMAIN t[j]
    BY <1>1, <1>4 DEF FirstAt
  <2>2. ASSUME NEW j \in DOMAIN all, j < Len(s) + i PROVE k \notin DOMAIN all[j]
    <3>1. CASE j \in 1..Len(s)
      BY <1>1, <1>4, <3>1 DEF Unstated
    <3>2. CASE j \notin 1..Len(s)
      <4>1. j - Len(s) \in 1..Len(t) /\ all[j] = t[j - Len(s)]
        BY <1>1, <1>2, <3>2
      <4>2. j - Len(s) < i
        BY <1>1, <2>1, <2>2
      <4> QED BY <2>1, <4>1, <4>2
    <3> QED BY <3>1, <3>2
  <2>3. Len(s) + i \in DOMAIN all
    BY <1>1, <2>1
  <2> QED BY <1>1, <2>1, <2>2, <2>3 DEF FirstAt
<1>5. ASSUME Unstated(s, k), Unstated(t, k) PROVE Unstated(all, k)
  BY <1>1, <1>2, <1>5 DEF Unstated
<1>6. CASE \E i : FirstAt(s, k, i)
  <2>1. PICK i : FirstAt(s, k, i)
    BY <1>6
  <2>2. FirstAt(all, k, i) /\ all[i] = s[i]
    BY <1>3, <2>1
  <2>3. FirstStated(all, k, o) = all[i][k]
    BY <1>1, <2>2, FirstIs
  <2>4. FirstStated(s, k, FirstStated(t, k, o)) = s[i][k]
    BY <2>1, FirstIs
  <2> QED BY <2>2, <2>3, <2>4 DEF all
<1>7. CASE Unstated(s, k) /\ \E i : FirstAt(t, k, i)
  <2>1. PICK i : FirstAt(t, k, i)
    BY <1>7
  <2>2. FirstAt(all, k, Len(s) + i) /\ all[Len(s) + i] = t[i]
    BY <1>4, <1>7, <2>1
  <2>3. FirstStated(all, k, o) = all[Len(s) + i][k]
    BY <1>1, <2>2, FirstIs
  <2>4. FirstStated(t, k, o) = t[i][k]
    BY <2>1, FirstIs
  <2>5. FirstStated(s, k, FirstStated(t, k, o)) = FirstStated(t, k, o)
    BY <1>7, NoneIs
  <2> QED BY <2>2, <2>3, <2>4, <2>5 DEF all
<1>8. CASE Unstated(s, k) /\ Unstated(t, k)
  <2>1. FirstStated(all, k, o) = o
    BY <1>1, <1>5, <1>8, NoneIs
  <2>2. FirstStated(t, k, o) = o
    BY <1>8, NoneIs
  <2>3. FirstStated(s, k, FirstStated(t, k, o)) = FirstStated(t, k, o)
    BY <1>8, NoneIs
  <2> QED BY <2>1, <2>2, <2>3 DEF all
<1>9. Unstated(s, k) \/ \E i : FirstAt(s, k, i)
  BY FirstStatedIs
<1>10. Unstated(t, k) \/ \E i : FirstAt(t, k, i)
  BY FirstStatedIs
<1> QED BY <1>6, <1>7, <1>8, <1>9, <1>10 DEF all

(* What the resolution has done so far.                                    *)
MergedFiles == MergeFiles(world.global, world.project)
Named == Get(world.cli, "profile", "none")
ParentOf(n) == Get(MergedFiles.profiles[n], "extends", "none")
ChainLayers == [i \in DOMAIN chain |-> MergedFiles.profiles[chain[i]]]

ChainInv ==
  /\ List(chain)
  /\ \A i \in 1..Len(chain) : chain[i] \in DOMAIN MergedFiles.profiles /\ chain[i] # "none"
  /\ \A i, j \in 1..Len(chain) : i < j => chain[i] # chain[j]
  /\ \A i, j \in 1..Len(chain) : j = i + 1 => ParentOf(chain[i]) = chain[j]
  /\ IF Len(chain) = 0 THEN wanted = Named
     ELSE chain[1] = Named /\ ParentOf(chain[Len(chain)]) = wanted
OverlayInv == \A k, o : Get(overlay, k, o) = FirstStated(ChainLayers, k, o)

Unread == stage \in {"shell", "load"} \/ gaveUp = "usage"
Unprofiled == gaveUp \in {"profile cycle", "no such profile"}
Settled == stage # "profile" /\ ~Unread /\ ~Unprofiled
IsResolved ==
  \E loggedIn :
    LET resolved == Resolved(merged, Options, world.env, loggedIn)
    IN config = resolved /\ Refusal(resolved, Options) = "none"

LayersInv ==
  /\ Unread => chain = <<>> /\ overlay = <<>> /\ config = <<>>
  /\ ~Unread => ChainInv /\ OverlayInv
  /\ stage = "profile" => merged = MergedFiles /\ wanted # "none" /\ config = <<>>
  /\ Unprofiled => /\ merged = MergedFiles /\ wanted # "none" /\ config = <<>>
                   /\ wanted \notin DOMAIN merged.profiles \ Range(chain)
  /\ Settled => /\ wanted = "none"
                /\ merged = IF Len(chain) = 0 THEN MergedFiles
                            ELSE ApplyProfile(MergedFiles, overlay)
  /\ config # <<>> => Settled /\ IsResolved

LEMMA ChainList ==
  ASSUME List(chain)
  PROVE  List(ChainLayers) /\ DOMAIN ChainLayers = DOMAIN chain /\ Len(ChainLayers) = Len(chain)
<1> DEFINE layers == ChainLayers
<1>1. layers = [i \in DOMAIN chain |-> layers[i]]
  BY DEF ChainLayers
<1> HIDE DEF layers
<1>2. List(layers) /\ Len(layers) = Len(chain) /\ DOMAIN layers = DOMAIN chain
  BY <1>1, ListMapped
<1> QED BY <1>2 DEF layers

LEMMA LayersStart ==
  ASSUME StartupInit
  PROVE  LayersInv
<1>1. stage = "shell" /\ gaveUp = "none" /\ chain = <<>> /\ overlay = <<>> /\ config = <<>>
  BY DEF StartupInit, LayersInit
<1> QED BY <1>1 DEF LayersInv, Unread, Unprofiled, Settled

(* Steps that leave the layers alone.                                      *)
LEMMA LayersSame ==
  ASSUME LayersInv, UNCHANGED layerVars, UNCHANGED <<world, stage, gaveUp>>
  PROVE  LayersInv'
<1> USE DEF layerVars
<1>1. /\ Unread' = Unread /\ Unprofiled' = Unprofiled /\ Settled' = Settled
      /\ MergedFiles' = MergedFiles
  BY DEF Unread, Unprofiled, Settled, MergedFiles
<1>2. ChainInv /\ OverlayInv => ChainInv' /\ OverlayInv'
  BY DEF ChainInv, OverlayInv, ChainLayers, ParentOf, MergedFiles, Named
<1>3. IsResolved => IsResolved'
  BY DEF IsResolved, Options
<1> QED BY <1>1, <1>2, <1>3 DEF LayersInv

LEMMA LayersUnread ==
  ASSUME LayersInv, UNCHANGED layerVars, Unread, Unread', stage' # "profile", ~Unprofiled'
  PROVE  LayersInv'
<1>1. chain' = <<>> /\ overlay' = <<>> /\ config' = <<>>
  BY DEF LayersInv, layerVars
<1>2. ~Settled'
  BY DEF Settled
<1> QED BY <1>1, <1>2 DEF LayersInv

LEMMA LayersOnward ==
  ASSUME LayersInv, UNCHANGED layerVars, UNCHANGED world, Settled,
         stage' \notin {"shell", "load", "profile"},
         gaveUp' \notin {"usage", "profile cycle", "no such profile"}
  PROVE  LayersInv'
<1> USE DEF layerVars
<1>1. ~Unread /\ ~Unread' /\ ~Unprofiled' /\ Settled' /\ stage' # "profile"
  BY DEF Unread, Settled, Unprofiled
<1>2. ChainInv' /\ OverlayInv'
  BY <1>1 DEF LayersInv, ChainInv, OverlayInv, ChainLayers, ParentOf, MergedFiles, Named
<1>3. IsResolved => IsResolved'
  BY DEF IsResolved, Options
<1>4. MergedFiles' = MergedFiles
  BY DEF MergedFiles
<1> QED BY <1>1, <1>2, <1>3, <1>4 DEF LayersInv

LEMMA LoadFilesKeeps ==
  ASSUME LayersInv, StartInv, LoadFiles
  PROVE  LayersInv'
<1>1. /\ stage = "load" /\ merged' = MergedFiles /\ wanted' = Named
      /\ stage' = (IF wanted' = "none" THEN "resolve" ELSE "profile")
      /\ UNCHANGED <<world, chain, overlay, config, gaveUp>>
  BY DEF LoadFiles, MergedFiles, Named
<1>2. gaveUp = "none" /\ chain = <<>> /\ overlay = <<>> /\ config = <<>>
  BY <1>1 DEF LayersInv, Unread, StartInv, KindsKept
<1>3. Len(chain) = 0 /\ List(chain) /\ DOMAIN chain = {}
  <2>1. Len(<<>>) = 0 /\ DOMAIN <<>> = {}
    OBVIOUS
  <2> QED BY <1>2, <2>1, ListShort
<1>4. MergedFiles' = MergedFiles /\ Named' = Named
  BY <1>1 DEF MergedFiles, Named
<1>5. ChainInv'
  BY <1>1, <1>3, <1>4 DEF ChainInv
<1>6. OverlayInv'
  <2>1. List(ChainLayers) /\ DOMAIN ChainLayers = {} /\ ChainLayers' = ChainLayers
    BY <1>1, <1>3, <1>4, ChainList DEF ChainLayers
  <2>2. \A k, o : FirstStated(ChainLayers, k, o) = o
    BY <2>1, NoneIs DEF Unstated
  <2>3. \A k, o : Get(overlay, k, o) = o
    BY <1>2, GetNothing
  <2> QED BY <1>1, <2>1, <2>2, <2>3 DEF OverlayInv
<1>7. ~Unread' /\ ~Unprofiled'
  BY <1>1, <1>2 DEF Unread, Unprofiled
<1>8. Settled' => stage' = "resolve" /\ wanted' = "none"
  BY <1>1 DEF Settled
<1> QED BY <1>1, <1>2, <1>3, <1>4, <1>5, <1>6, <1>7, <1>8 DEF LayersInv

LEMMA ProfileFailsKeeps ==
  ASSUME LayersInv, StartInv, ProfileFails
  PROVE  LayersInv'
<1>1. /\ stage = "profile" /\ stage' = "failed" /\ gaveUp' \in {"profile cycle", "no such profile"}
      /\ wanted \notin DOMAIN merged.profiles \ Range(chain)
      /\ UNCHANGED <<world, layerVars>>
  BY DEF ProfileFails, Fail
<1> USE DEF layerVars
<1>2. gaveUp = "none" /\ ~Unread /\ ~Unread' /\ Unprofiled' /\ ~Settled'
  BY <1>1 DEF Unread, Unprofiled, Settled, StartInv, KindsKept
<1>3. ChainInv' /\ OverlayInv'
  BY <1>1, <1>2 DEF LayersInv, ChainInv, OverlayInv, ChainLayers, ParentOf, MergedFiles, Named
<1>4. MergedFiles' = MergedFiles
  BY <1>1 DEF MergedFiles
<1> QED BY <1>1, <1>2, <1>3, <1>4 DEF LayersInv

LEMMA ResolveKeeps ==
  ASSUME LayersInv, StartInv, NEW loggedIn, ResolveConfig(loggedIn)
  PROVE  LayersInv'
<1> DEFINE resolved == Resolved(merged, Options, world.env, loggedIn)
           refusal == Refusal(resolved, Options)
<1>1. /\ stage = "resolve" /\ UNCHANGED <<world, merged, chain, wanted, overlay>>
      /\ \/ refusal # "none" /\ stage' = "failed" /\ gaveUp' = refusal /\ config' = config
         \/ refusal = "none" /\ config' = resolved /\ stage' = "resolved" /\ gaveUp' = gaveUp
  BY DEF ResolveConfig, Fail, Options
<1>2. refusal \in {"unknown provider", "no key", "thinking", "compaction level", "none"}
  BY RefusalReasons
<1> HIDE DEF refusal
<1>3. gaveUp = "none" /\ Settled /\ ~Unread /\ ~Unread' /\ ~Unprofiled' /\ Settled'
  BY <1>1, <1>2 DEF Unread, Unprofiled, Settled, StartInv, KindsKept
<1>4. ChainInv' /\ OverlayInv'
  BY <1>1, <1>3 DEF LayersInv, ChainInv, OverlayInv, ChainLayers, ParentOf, MergedFiles, Named
<1>5. MergedFiles' = MergedFiles /\ Options' = Options
  BY <1>1 DEF MergedFiles, Options
<1>6. config' # <<>> => IsResolved'
  <2>1. CASE refusal # "none"
    BY <1>1, <1>5, <2>1 DEF LayersInv, IsResolved
  <2>2. CASE refusal = "none"
    <3>1. config' = resolved /\ Refusal(resolved, Options) = "none"
      BY <1>1, <2>2 DEF refusal
    <3> QED BY <1>1, <1>5, <3>1 DEF IsResolved
  <2> QED BY <2>1, <2>2
<1>7. stage' # "profile"
  BY <1>1
<1> QED BY <1>1, <1>3, <1>4, <1>5, <1>6, <1>7 DEF LayersInv

LEMMA VisitKeeps ==
  ASSUME LayersInv, StartInv, VisitProfile
  PROVE  LayersInv'
<1> DEFINE profile == merged.profiles[wanted]
<1>1. /\ stage = "profile" /\ wanted \in DOMAIN merged.profiles /\ wanted \notin Range(chain)
      /\ overlay' = Over(overlay, profile)
      /\ wanted' = Get(profile, "extends", "none")
      /\ chain' = Append(chain, wanted)
      /\ \/ wanted' # "none" /\ stage' = stage /\ merged' = merged
         \/ wanted' = "none" /\ stage' = "resolve" /\ merged' = ApplyProfile(merged, overlay')
      /\ UNCHANGED <<world, config, gaveUp>>
  BY DEF VisitProfile, MergeProfiles
<1>2. gaveUp = "none" /\ ~Unread /\ merged = MergedFiles /\ wanted # "none" /\ config = <<>>
      /\ ChainInv /\ OverlayInv
  BY <1>1 DEF LayersInv, Unread, StartInv, KindsKept
<1>3. MergedFiles' = MergedFiles /\ Named' = Named /\ \A n : ParentOf(n)' = ParentOf(n)
  BY <1>1 DEF MergedFiles, Named, ParentOf
<1>4. /\ List(chain') /\ Len(chain) \in Nat /\ Len(chain') = Len(chain) + 1
      /\ DOMAIN chain = 1..Len(chain) /\ DOMAIN chain' = 1..Len(chain) + 1
      /\ chain'[Len(chain) + 1] = wanted /\ \A i \in 1..Len(chain) : chain'[i] = chain[i]
  <2>1. List(chain)
    BY <1>2 DEF ChainInv
  <2> DEFINE V == Range(chain) \cup {wanted}
  <2>2. chain \in Seq(V) /\ wanted \in V
    BY <2>1, WiderSeq DEF List
  <2> HIDE DEF V
  <2>3. /\ chain' \in Seq(V) /\ Len(chain) \in Nat /\ Len(chain') = Len(chain) + 1
        /\ DOMAIN chain = 1..Len(chain) /\ DOMAIN chain' = 1..Len(chain) + 1
        /\ chain'[Len(chain) + 1] = wanted /\ \A i \in 1..Len(chain) : chain'[i] = chain[i]
    BY <1>1, <2>2
  <2> QED BY <2>3, ListOf
<1>5. \A i \in 1..Len(chain') : i \in 1..Len(chain) \/ i = Len(chain) + 1
  BY <1>4
<1>6. ParentOf(wanted) = wanted'
  BY <1>1, <1>2 DEF ParentOf
<1>7. ChainInv'
  <2>1. \A i \in 1..Len(chain') : chain'[i] \in DOMAIN MergedFiles.profiles /\ chain'[i] # "none"
    BY <1>1, <1>2, <1>4, <1>5 DEF ChainInv
  <2>2. ASSUME NEW i \in 1..Len(chain'), NEW j \in 1..Len(chain'), i < j PROVE chain'[i] # chain'[j]
    <3>1. i \in 1..Len(chain)
      BY <1>4, <2>2
    <3>2. CASE j \in 1..Len(chain)
      BY <1>2, <1>4, <2>2, <3>1, <3>2 DEF ChainInv
    <3>3. CASE j = Len(chain) + 1
      <4>1. chain[i] \in Range(chain)
        BY <1>4, <3>1 DEF Range
      <4> QED BY <1>1, <1>4, <3>1, <3>3, <4>1
    <3> QED BY <1>5, <3>2, <3>3
  <2>3. ASSUME NEW i \in 1..Len(chain'), NEW j \in 1..Len(chain'), j = i + 1
        PROVE  ParentOf(chain'[i]) = chain'[j]
    <3>1. i \in 1..Len(chain)
      BY <1>4, <2>3
    <3>2. CASE j \in 1..Len(chain)
      <4>1. ParentOf(chain[i]) = chain[j]
        BY <1>2, <2>3, <3>1, <3>2 DEF ChainInv
      <4> QED BY <1>4, <3>1, <3>2, <4>1
    <3>3. CASE j = Len(chain) + 1
      <4>1. i = Len(chain) /\ Len(chain) # 0
        <5>1. \A m \in Nat : \A x \in 1..m : x + 1 = m + 1 => x = m /\ m # 0
          OBVIOUS
        <5> QED BY <1>4, <2>3, <3>1, <3>3, <5>1
      <4>2. ParentOf(chain[i]) = wanted
        BY <1>2, <4>1 DEF ChainInv
      <4> QED BY <1>4, <3>1, <3>3, <4>2
    <3> QED BY <1>5, <3>2, <3>3
  <2>4. Len(chain') # 0 /\ chain'[1] = Named /\ ParentOf(chain'[Len(chain')]) = wanted'
    <3>1. chain'[1] = Named
      <4>1. CASE Len(chain) = 0
        BY <1>2, <1>4, <4>1 DEF ChainInv
      <4>2. CASE Len(chain) # 0
        <5>1. 1 \in 1..Len(chain) /\ chain[1] = Named
          BY <1>2, <1>4, <4>2 DEF ChainInv
        <5> QED BY <1>4, <5>1
      <4> QED BY <4>1, <4>2
    <3> QED BY <1>4, <1>6, <3>1
  <2> QED BY <1>3, <1>4, <2>1, <2>2, <2>3, <2>4 DEF ChainInv
<1>8. OverlayInv'
  <2>1. List(ChainLayers) /\ DOMAIN ChainLayers = DOMAIN chain /\ Len(ChainLayers) = Len(chain)
    BY <1>2, ChainList DEF ChainInv
  <2>2. List(<<profile>>) /\ DOMAIN <<profile>> = 1..1 /\ <<profile>>[1] = profile /\ Len(<<profile>>) = 1
    <3> HIDE DEF profile
    <3>1. DOMAIN <<profile>> = 1..1 /\ <<profile>>[1] = profile /\ Len(<<profile>>) = 1
      OBVIOUS
    <3> QED BY <3>1, ListShort
  <2> DEFINE all == ChainLayers \o <<profile>>
  <2>3. /\ List(all) /\ DOMAIN all = 1..Len(chain) + 1
        /\ \A i \in 1..Len(chain) : all[i] = ChainLayers[i]
        /\ all[Len(chain) + 1] = profile
    <3> HIDE DEF profile
    <3>1. /\ List(all) /\ DOMAIN all = 1..Len(ChainLayers) + Len(<<profile>>)
          /\ \A i \in 1..Len(ChainLayers) : all[i] = ChainLayers[i]
          /\ \A i \in 1..Len(<<profile>>) : all[Len(ChainLayers) + i] = <<profile>>[i]
      BY <2>1, <2>2, ListConcat
    <3> HIDE DEF all
    <3> QED BY <2>1, <2>2, <3>1
  <2>4. ChainLayers' = [i \in 1..Len(chain) + 1 |-> MergedFiles.profiles[chain'[i]]]
    BY <1>3, <1>4 DEF ChainLayers
  <2>5. \A i \in 1..Len(chain) : ChainLayers[i] = MergedFiles.profiles[chain[i]]
    BY <1>4 DEF ChainLayers
  <2>6. \A i \in 1..Len(chain) + 1 : all[i] = MergedFiles.profiles[chain'[i]]
    <3>1. MergedFiles.profiles[chain'[Len(chain) + 1]] = profile
      BY <1>2, <1>4
    <3>2. \A i \in 1..Len(chain) + 1 : i \in 1..Len(chain) \/ i = Len(chain) + 1
      BY <1>4
    <3> HIDE DEF all, profile
    <3> QED BY <1>4, <2>3, <2>5, <3>1, <3>2
  <2>7. ChainLayers' = all
    <3>1. all = [i \in DOMAIN all |-> all[i]]
      BY <2>3 DEF List
    <3> HIDE DEF all
    <3> QED BY <2>3, <2>4, <2>6, <3>1
  <2>8. ASSUME NEW k, NEW o PROVE Get(overlay', k, o) = FirstStated(ChainLayers', k, o)
    <3>1. Get(overlay', k, o) = Get(overlay, k, Get(profile, k, o))
      BY <1>1, GetOver
    <3>2. Get(overlay, k, Get(profile, k, o)) = FirstStated(ChainLayers, k, Get(profile, k, o))
      BY <1>2 DEF OverlayInv
    <3>3. FirstStated(all, k, o) = FirstStated(ChainLayers, k, FirstStated(<<profile>>, k, o))
      <4> HIDE DEF profile
      <4> QED BY <2>1, <2>2, FirstOfBoth
    <3>4. FirstStated(<<profile>>, k, o) = Get(profile, k, o)
      BY FirstOfOne
    <3> HIDE DEF all, profile
    <3> QED BY <2>7, <3>1, <3>2, <3>3, <3>4
  <2> QED BY <2>8 DEF OverlayInv
<1>9. ~Unread' /\ ~Unprofiled'
  BY <1>1, <1>2 DEF Unread, Unprofiled
<1>10. Settled' => stage' = "resolve" /\ wanted' = "none" /\ merged' = ApplyProfile(merged, overlay')
  BY <1>1 DEF Settled
<1>11. Len(chain') # 0
  BY <1>4
<1> QED BY <1>1, <1>2, <1>3, <1>7, <1>8, <1>9, <1>10, <1>11 DEF LayersInv

LEMMA BootstrapOnward ==
  ASSUME Bootstrap
  PROVE  /\ UNCHANGED <<world, layerVars>>
         /\ stage \in {"resolved", "connect", "check", "digest", "read", "resources",
                      "handshake", "inject"}
         /\ stage' \notin {"shell", "load", "profile"}
         /\ gaveUp' = gaveUp \/ gaveUp' \notin {"usage", "profile cycle", "no such profile"}
<1>1. CASE OpenSession
  BY <1>1 DEF OpenSession, Fail
<1>2. CASE \E live \in SUBSET DOMAIN Get(config, "file", ConfigFile).servers : ConnectMcp(live)
  <2>1. PICK live : ConnectMcp(live)
    BY <1>2
  <2>2. stage = "connect" /\ UNCHANGED <<world, layerVars>>
    BY <2>1 DEF ConnectMcp
  <2>3. \/ stage' = "failed" /\ gaveUp' \in {"no servers", "binding"}
        \/ stage' = "check" /\ gaveUp' = gaveUp
    BY <2>1 DEF ConnectMcp, Fail
  <2> QED BY <2>2, <2>3
<1>3. CASE CheckManaged
  BY <1>3 DEF CheckManaged, SkillsFail, Fail
<1>4. CASE DigestManaged
  BY <1>4 DEF DigestManaged, SkillsFail, Fail
<1>5. CASE ReadManaged
  BY <1>5 DEF ReadManaged, SkillsFail, Fail
<1>6. CASE ManagedRead \/ LoadSkills
  BY <1>6 DEF ManagedRead, LoadSkills, SkillsFail, Fail
<1>7. CASE Handshake
  BY <1>7 DEF Handshake, Fail
<1>8. CASE Inject
  BY <1>8 DEF Inject, Fail
<1> QED BY <1>1, <1>2, <1>3, <1>4, <1>5, <1>6, <1>7, <1>8 DEF Bootstrap

LEMMA LayersInvStep ==
  ASSUME StartInv, LayersInv, [StartupNext]_startupVars
  PROVE  LayersInv'
<1>0. stage = "failed" <=> gaveUp # "none"
  BY DEF StartInv, KindsKept
<1>1. CASE UNCHANGED startupVars \/ AuthLogin \/ AuthLogout \/ LoggingIn
           \/ (UserAnswers /\ UNCHANGED <<world, stage, layerVars, gaveUp, bootVars, tree, prompts>>)
           \/ (\E r \in DOMAIN Roots : SaveSkill(r))
  <2>1. UNCHANGED layerVars /\ UNCHANGED <<world, stage, gaveUp>>
    BY <1>1 DEF startupVars, AuthLogin, AuthLogout, LoggingIn, SaveSkill
  <2> QED BY <2>1, LayersSame
<1>2. CASE ConfigInit
  <2>1. UNCHANGED layerVars /\ stage = "shell" /\ stage' = "shell" /\ gaveUp' = gaveUp
    BY <1>2 DEF ConfigInit
  <2> QED BY <1>0, <2>1, LayersUnread DEF Unread, Unprofiled
<1>3. CASE Start
  <2>1. /\ UNCHANGED layerVars /\ stage = "shell"
        /\ \/ stage' = "failed" /\ gaveUp' = "usage"
           \/ stage' = "load" /\ gaveUp' = gaveUp
    BY <1>3 DEF Start, Fail
  <2> QED BY <1>0, <2>1, LayersUnread DEF Unread, Unprofiled
<1>4. CASE Resolution
  BY <1>4, LoadFilesKeeps, ProfileFailsKeeps, ResolveKeeps, VisitKeeps DEF Resolution, ConfigStep
<1>5. CASE Bootstrap
  <2>1. Settled
    BY <1>0, <1>5, BootstrapOnward DEF Settled, Unread, Unprofiled
  <2>2. gaveUp' \notin {"usage", "profile cycle", "no such profile"}
    BY <1>0, <1>5, BootstrapOnward
  <2> QED BY <1>5, <2>1, <2>2, BootstrapOnward, LayersOnward
<1>6. CASE \/ \E result \in {"ok", "error", "aborted"} : RunPrompt(result)
           \/ EmptyLine \/ RunStopHooks \/ ShutDownServers
  <2>1. /\ UNCHANGED layerVars /\ UNCHANGED world /\ stage \in {"ready", "stop hooks", "shutdown"}
        /\ stage' \in {"ready", "stop hooks", "shutdown", "ended", "failed"}
        /\ gaveUp' \in {gaveUp, "run"}
    <3>1. CASE \E result \in {"ok", "error", "aborted"} : RunPrompt(result)
      <4>1. PICK result \in {"ok", "error", "aborted"} : RunPrompt(result)
        BY <3>1
      <4>2. /\ UNCHANGED <<world, layerVars>> /\ stage = "ready"
            /\ \/ stage' = "failed" /\ gaveUp' = "run"
               \/ stage' = "stop hooks" /\ gaveUp' = gaveUp
               \/ stage' = stage /\ gaveUp' = gaveUp
        BY <4>1 DEF RunPrompt, Fail
      <4> QED BY <4>2
    <3>2. CASE EmptyLine
      BY <3>2 DEF EmptyLine
    <3>3. CASE RunStopHooks
      BY <3>3 DEF RunStopHooks
    <3>4. CASE ShutDownServers
      BY <3>4 DEF ShutDownServers, layerVars
    <3> QED BY <1>6, <3>1, <3>2, <3>3, <3>4
  <2>2. Settled /\ gaveUp' \notin {"usage", "profile cycle", "no such profile"}
    BY <1>0, <2>1 DEF Settled, Unread, Unprofiled
  <2>3. stage' \notin {"shell", "load", "profile"}
    BY <2>1
  <2> QED BY <2>1, <2>2, <2>3, LayersOnward
<1> QED BY <1>1, <1>2, <1>3, <1>4, <1>5, <1>6 DEF StartupNext

LEMMA LayersInvAlways == StartupSpec => [](StartInv /\ LayersInv)
<1>1. StartupInit => LayersInv
  BY LayersStart
<1>2. (StartInv /\ LayersInv) /\ [StartupNext]_startupVars => LayersInv'
  BY LayersInvStep
<1> QED BY <1>1, <1>2, StartInvAlways, PTL DEF StartupSpec

(***************************************************************************)
(* A chain of profiles is refused exactly when it does not resolve.        *)
(***************************************************************************)
Parent(n) == Get(merged.profiles[n], "extends", "none")

LEMMA ChainOf ==
  ASSUME ChainInv, merged.profiles = MergedFiles.profiles
  PROVE  /\ Len(chain) \in Nat /\ DOMAIN chain = 1..Len(chain)
         /\ Range(chain) \subseteq DOMAIN merged.profiles \ {"none"}
         /\ \A i \in 1..Len(chain) : chain[i] \in Range(chain)
         /\ \A n \in Range(chain) : \E i \in 1..Len(chain) : chain[i] = n
         /\ \A i \in 1..Len(chain) :
              Parent(chain[i]) = IF i = Len(chain) THEN wanted ELSE chain[i + 1]
<1>1. Len(chain) \in Nat /\ DOMAIN chain = 1..Len(chain)
  BY DEF ChainInv, List
<1>2. \A n : ParentOf(n) = Parent(n)
  BY DEF ParentOf, Parent
<1>3. Range(chain) = {chain[i] : i \in 1..Len(chain)}
  BY <1>1 DEF Range
<1>4. ASSUME NEW i \in 1..Len(chain)
      PROVE  Parent(chain[i]) = IF i = Len(chain) THEN wanted ELSE chain[i + 1]
  <2>1. CASE i = Len(chain)
    <3>1. Len(chain) # 0
      BY <1>1
    <3> QED BY <1>2, <2>1, <3>1 DEF ChainInv
  <2>2. CASE i # Len(chain)
    <3>1. \A m \in Nat : \A x \in 1..m : x # m => x + 1 \in 1..m
      OBVIOUS
    <3>2. i + 1 \in 1..Len(chain)
      BY <1>1, <2>2, <3>1
    <3> QED BY <1>2, <2>2, <3>2 DEF ChainInv
  <2> QED BY <2>1, <2>2
<1>5. Range(chain) \subseteq DOMAIN merged.profiles \ {"none"}
  BY <1>3 DEF ChainInv
<1> QED BY <1>1, <1>3, <1>4, <1>5

(* A chain that came to its end is a line of ancestors.                    *)
LEMMA EndedResolves ==
  ASSUME ChainInv, merged.profiles = MergedFiles.profiles, wanted = "none"
  PROVE  ProfileResolvable(merged.profiles, Named)
<1>1. CASE Len(chain) = 0
  BY <1>1 DEF ChainInv, ProfileResolvable
<1>2. CASE Len(chain) # 0
  <2> DEFINE line == Range(chain)
  <2>1. chain[1] = Named /\ 1 \in 1..Len(chain) /\ Len(chain) \in Nat
    BY <1>2, ChainOf DEF ChainInv
  <2>2. Named \in line /\ line \in SUBSET (DOMAIN merged.profiles \ {"none"})
    BY <2>1, ChainOf
  <2>3. ASSUME NEW n \in line PROVE Parent(n) \in line \cup {"none"}
    <3>1. PICK i \in 1..Len(chain) : chain[i] = n
      BY ChainOf
    <3>2. Parent(n) = IF i = Len(chain) THEN wanted ELSE chain[i + 1]
      BY <3>1, ChainOf
    <3>3. i # Len(chain) => i + 1 \in 1..Len(chain)
      BY <2>1
    <3>4. i # Len(chain) => chain[i + 1] \in line
      BY <3>3, ChainOf
    <3> QED BY <3>2, <3>4
  <2>4. ASSUME NEW ring \in SUBSET line, ring # {} PROVE \E n \in ring : Parent(n) \notin ring
    <3> DEFINE spots == {Len(chain) - i : i \in {i \in 1..Len(chain) : chain[i] \in ring}}
    <3>1. PICK r : r \in ring
      BY <2>4
    <3>2. PICK p \in 1..Len(chain) : chain[p] = r
      BY <3>1, ChainOf
    <3>3. spots # {} /\ spots \subseteq Nat
      BY <2>1, <3>1, <3>2
    <3>4. PICK m \in spots : \A j \in spots : m <= j
      <4> HIDE DEF spots
      <4> QED BY <3>3, LeastNatural
    <3>5. PICK i \in 1..Len(chain) : chain[i] \in ring /\ m = Len(chain) - i
      BY <3>4
    <3>6. Parent(chain[i]) = IF i = Len(chain) THEN wanted ELSE chain[i + 1]
      BY ChainOf
    <3>7. CASE i = Len(chain)
      <4>1. "none" \notin ring
        BY <2>2
      <4> QED BY <3>5, <3>6, <3>7, <4>1
    <3>8. CASE i # Len(chain)
      <4>1. i + 1 \in 1..Len(chain) /\ ~(Len(chain) - i <= Len(chain) - (i + 1))
        BY <2>1, <3>8
      <4>2. Len(chain) - (i + 1) \notin spots
        BY <3>4, <3>5, <4>1
      <4>3. chain[i + 1] \notin ring
        BY <4>1, <4>2
      <4> QED BY <3>5, <3>6, <3>8, <4>3
    <3> QED BY <3>7, <3>8
  <2> HIDE DEF line
  <2> QED BY <2>2, <2>3, <2>4 DEF ProfileResolvable, Parent
<1> QED BY <1>1, <1>2

(* A chain that stopped at a missing profile or at one of its own is not.  *)
LEMMA StoppedDoesNot ==
  ASSUME ChainInv, merged.profiles = MergedFiles.profiles, wanted # "none",
         wanted \notin DOMAIN merged.profiles \ Range(chain)
  PROVE  ~ProfileResolvable(merged.profiles, Named)
<1>1. Named # "none"
  BY DEF ChainInv
<1> SUFFICES ASSUME NEW line \in SUBSET (DOMAIN merged.profiles \ {"none"}),
                    Named \in line, \A n \in line : Parent(n) \in line \cup {"none"},
                    \A ring \in SUBSET line : ring # {} => \E n \in ring : Parent(n) \notin ring
             PROVE  FALSE
  BY <1>1 DEF ProfileResolvable, Parent
<1>2. Len(chain) \in Nat /\ \A i \in 1..Len(chain) : chain[i] \in Range(chain)
  BY ChainOf
<1>3. Len(chain) # 0 => chain[1] = Named
  BY DEF ChainInv
<1>4. \A i \in 1..Len(chain) : chain[i] \in line
  <2> DEFINE bad == {i \in 1..Len(chain) : chain[i] \notin line}
  <2> SUFFICES bad = {}
    OBVIOUS
  <2> SUFFICES ASSUME bad # {} PROVE FALSE
    OBVIOUS
  <2>1. bad \subseteq Nat
    BY <1>2
  <2>2. PICK m \in bad : \A j \in bad : m <= j
    <3> HIDE DEF bad
    <3> QED BY <2>1, LeastNatural
  <2>3. m \in 1..Len(chain) /\ chain[m] \notin line
    BY <2>2
  <2>4. m # 1
    BY <1>2, <1>3, <2>3
  <2>5. m - 1 \in 1..Len(chain) /\ m - 1 # Len(chain) /\ (m - 1) + 1 = m /\ ~(m <= m - 1)
    BY <1>2, <2>3, <2>4
  <2>6. chain[m - 1] \in line
    BY <2>2, <2>5
  <2>7. Parent(chain[m - 1]) = chain[m]
    BY <2>5, ChainOf
  <2>8. chain[m] # "none"
    BY <2>3, ChainOf, <1>2
  <2> QED BY <2>3, <2>6, <2>7, <2>8
<1>5. wanted \in line
  <2>1. CASE Len(chain) = 0
    BY <2>1 DEF ChainInv
  <2>2. CASE Len(chain) # 0
    <3>1. Len(chain) \in 1..Len(chain)
      BY <1>2, <2>2
    <3>2. Parent(chain[Len(chain)]) = wanted
      BY <3>1, ChainOf
    <3> QED BY <1>4, <3>1, <3>2
  <2> QED BY <2>1, <2>2
<1>6. wanted \in Range(chain)
  BY <1>5
<1>7. \A n \in Range(chain) : Parent(n) \in Range(chain)
  <2> TAKE n \in Range(chain)
  <2>1. PICK i \in 1..Len(chain) : chain[i] = n
    BY ChainOf
  <2>2. Parent(n) = IF i = Len(chain) THEN wanted ELSE chain[i + 1]
    BY <2>1, ChainOf
  <2>3. i # Len(chain) => i + 1 \in 1..Len(chain)
    BY <1>2
  <2> QED BY <1>2, <1>6, <2>2, <2>3
<1>8. Range(chain) \in SUBSET line
  <2>1. ASSUME NEW n \in Range(chain) PROVE n \in line
    <3>1. PICK i \in 1..Len(chain) : chain[i] = n
      BY ChainOf
    <3> QED BY <1>4, <3>1
  <2> QED BY <2>1
<1> QED BY <1>6, <1>7, <1>8

LEMMA ProfilesKept ==
  ASSUME LayersInv, Settled
  PROVE  merged.profiles = MergedFiles.profiles
<1>1. \A file, profile : "profiles" \in DOMAIN file =>
        ApplyProfile(file, profile).profiles = file.profiles
  BY DEF ApplyProfile
<1>2. "profiles" \in DOMAIN MergedFiles
  BY DEF MergedFiles, MergeFiles
<1> QED BY <1>1, <1>2 DEF LayersInv

LEMMA ErrorsExact ==
  ASSUME StartInv, LayersInv
  PROVE  ProfileErrorsExact
<1> SUFFICES ASSUME stage \notin {"shell", "load", "profile"}, gaveUp # "usage"
             PROVE  (gaveUp \in {"profile cycle", "no such profile"})
                      = ~ProfileResolvable(merged.profiles, Named)
  BY DEF ProfileErrorsExact, Named
<1>1. ~Unread /\ ChainInv
  BY DEF Unread, LayersInv
<1>2. ASSUME Unprofiled PROVE ~ProfileResolvable(merged.profiles, Named)
  BY <1>1, <1>2, StoppedDoesNot DEF LayersInv
<1>3. ASSUME ~Unprofiled PROVE ProfileResolvable(merged.profiles, Named)
  <2>1. Settled
    BY <1>1, <1>3 DEF Settled
  <2>2. wanted = "none"
    BY <2>1 DEF LayersInv
  <2> QED BY <1>1, <2>1, <2>2, ProfilesKept, EndedResolves
<1>4. Unprofiled <=> ~ProfileResolvable(merged.profiles, Named)
  BY <1>2, <1>3
<1>5. ProfileResolvable(merged.profiles, Named) \in BOOLEAN /\ Unprofiled \in BOOLEAN
  BY DEF ProfileResolvable, Unprofiled
<1>6. Unprofiled = ~ProfileResolvable(merged.profiles, Named)
  BY <1>4, <1>5
<1> QED BY <1>6 DEF Unprofiled

(***************************************************************************)
(* Every setting is the one of the first layer that states it.             *)
(***************************************************************************)
LEMMA FirstOfTwo ==
  ASSUME NEW a, NEW b, NEW k, NEW o
  PROVE  FirstStated(<<a, b>>, k, o) = Get(a, k, Get(b, k, o))
<1> DEFINE s == <<a, b>>
<1>1. List(s) /\ DOMAIN s = {1, 2} /\ s[1] = a /\ s[2] = b
  <2>1. DOMAIN s = {1, 2} /\ s[1] = a /\ s[2] = b
    OBVIOUS
  <2> QED BY <2>1, ListShort
<1> HIDE DEF s
<1>2. CASE k \in DOMAIN a
  <2>1. FirstAt(s, k, 1)
    BY <1>1, <1>2 DEF FirstAt
  <2> QED BY <1>1, <1>2, <2>1, FirstIs DEF Get, s
<1>3. CASE k \notin DOMAIN a /\ k \in DOMAIN b
  <2>1. FirstAt(s, k, 2)
    BY <1>1, <1>3 DEF FirstAt
  <2> QED BY <1>1, <1>3, <2>1, FirstIs DEF Get, s
<1>4. CASE k \notin DOMAIN a /\ k \notin DOMAIN b
  <2>1. Unstated(s, k)
    BY <1>1, <1>4 DEF Unstated
  <2> QED BY <1>1, <1>4, <2>1, NoneIs DEF Get, s
<1> QED BY <1>2, <1>3, <1>4

LEMMA ProfilesAre ==
  ASSUME LayersInv, Settled
  PROVE  /\ List(ProfileLayers) /\ DOMAIN ProfileLayers = DOMAIN chain
         /\ \A k, o : Get(overlay, k, o) = FirstStated(ProfileLayers, k, o)
         /\ Len(chain) = 0 => \A k, o : FirstStated(ProfileLayers, k, o) = o
<1>1. ProfileLayers = ChainLayers
  BY ProfilesKept DEF ProfileLayers, ChainLayers
<1>2. ChainInv /\ OverlayInv
  BY DEF LayersInv, Settled
<1>3. List(ProfileLayers) /\ DOMAIN ProfileLayers = DOMAIN chain
  BY <1>1, <1>2, ChainList DEF ChainInv
<1>4. ASSUME Len(chain) = 0, NEW k, NEW o PROVE FirstStated(ProfileLayers, k, o) = o
  <2>1. DOMAIN ProfileLayers = {}
    <3>1. DOMAIN chain = 1..0
      BY <1>2, <1>4 DEF ChainInv, List
    <3> QED BY <1>3, <3>1
  <2>2. Unstated(ProfileLayers, k)
    BY <2>1 DEF Unstated
  <2> QED BY <1>3, <2>2, NoneIs
<1> QED BY <1>1, <1>2, <1>3, <1>4 DEF OverlayInv

EntryOfFiles(n) == Get(MergedFiles.providers, n, <<>>)
EntryOf(n) == Get(merged.providers, n, <<>>)
InProject(n) == Get(world.project.providers, n, <<>>)
InGlobal(n) == Get(world.global.providers, n, <<>>)

LEMMA FilesAre ==
  /\ MergedFiles.provider = FileProvider
  /\ MergedFiles.default = Over(world.project.default, world.global.default)
  /\ MergedFiles.providers = MergeProviders(world.global.providers, world.project.providers)
  /\ MergedFiles.servers = Over(world.project.servers, world.global.servers)
  /\ {"provider", "default", "shell", "providers", "servers", "tools", "compact"}
       \subseteq DOMAIN MergedFiles
BY DEF MergedFiles, MergeFiles, FileProvider

LEMMA EntryLayersAre ==
  ASSUME NEW n
  PROVE  EntryLayers(n) = <<InProject(n), InGlobal(n)>> /\ List(EntryLayers(n))
<1>1. EntryLayers(n) = <<InProject(n), InGlobal(n)>>
  <2> DEFINE p == world.project
             g == world.global
  <2>1. Files = <<p, g>>
    BY DEF Files
  <2> HIDE DEF p, g
  <2>2. DOMAIN Files = {1, 2} /\ Files[1] = p /\ Files[2] = g
    BY <2>1
  <2>3. EntryLayers(n) = [i \in {1, 2} |-> Get(Files[i].providers, n, <<>>)]
    BY <2>2 DEF EntryLayers
  <2>4. EntryLayers(n) = <<Get(p.providers, n, <<>>), Get(g.providers, n, <<>>)>>
    BY <2>2, <2>3
  <2> QED BY <2>4 DEF p, g, InProject, InGlobal
<1> QED BY <1>1, ListShort

LEMMA EntryOfFilesIs ==
  ASSUME NEW n
  PROVE  \/ EntryOfFiles(n) = MergeProvider(InGlobal(n), InProject(n))
         \/ EntryOfFiles(n) = <<>> /\ InGlobal(n) = <<>> /\ InProject(n) = <<>>
BY FilesAre DEF EntryOfFiles, InGlobal, InProject, MergeProviders, Get

LEMMA FilesPlain ==
  ASSUME NEW n, NEW k, k # "compat", NEW o
  PROVE  Get(EntryOfFiles(n), k, o) = FirstStated(EntryLayers(n), k, o)
<1>1. FirstStated(EntryLayers(n), k, o) = Get(InProject(n), k, Get(InGlobal(n), k, o))
  BY EntryLayersAre, FirstOfTwo
<1>2. CASE EntryOfFiles(n) = MergeProvider(InGlobal(n), InProject(n))
  BY <1>1, <1>2, MergedPlain
<1>3. CASE EntryOfFiles(n) = <<>> /\ InGlobal(n) = <<>> /\ InProject(n) = <<>>
  BY <1>1, <1>3, GetNothing
<1> QED BY <1>2, <1>3, EntryOfFilesIs

Compats(layers) == [i \in DOMAIN layers |-> Get(layers[i], "compat", <<>>)]
CompatOf(entry) == Get(entry, "compat", <<>>)

LEMMA FilesCompat ==
  ASSUME NEW n, NEW f, NEW o
  PROVE  Get(CompatOf(EntryOfFiles(n)), f, o) = FirstStated(Compats(EntryLayers(n)), f, o)
<1> DEFINE a == InProject(n)
           b == InGlobal(n)
<1>1. Compats(EntryLayers(n)) = <<CompatOf(a), CompatOf(b)>>
  <2>1. EntryLayers(n) = <<a, b>>
    BY EntryLayersAre
  <2> HIDE DEF a, b
  <2>2. DOMAIN <<a, b>> = {1, 2} /\ <<a, b>>[1] = a /\ <<a, b>>[2] = b
    OBVIOUS
  <2>3. Compats(EntryLayers(n)) = [i \in {1, 2} |-> CompatOf(<<a, b>>[i])]
    BY <2>1, <2>2 DEF Compats, CompatOf
  <2> QED BY <2>2, <2>3
<1>2. FirstStated(Compats(EntryLayers(n)), f, o) = Get(CompatOf(a), f, Get(CompatOf(b), f, o))
  BY <1>1, FirstOfTwo
<1>3. CASE EntryOfFiles(n) = MergeProvider(b, a)
  BY <1>2, <1>3, MergedCompat DEF CompatOf
<1>4. CASE EntryOfFiles(n) = <<>> /\ b = <<>> /\ a = <<>>
  <2>1. CompatOf(<<>>) = <<>>
    BY GetNothing DEF CompatOf
  <2> QED BY <1>2, <1>4, <2>1, GetNothing
<1> QED BY <1>3, <1>4, EntryOfFilesIs

(* What applying the profiles does to the file.                            *)
Laid == Only(overlay, {"api_key", "base_url", "compat"})

LEMMA Applied ==
  ASSUME NEW file, NEW profile,
         {"provider", "default", "shell", "providers", "servers", "tools", "compact"}
           \subseteq DOMAIN file
  PROVE  LET new == ApplyProfile(file, profile)
             target == Get(profile, "provider", file.provider)
             served == DOMAIN file.servers \cap
                         Get(profile, "mcp_servers", DOMAIN file.servers)
         IN /\ new.provider = target
            /\ new.default = Over(Only(profile, DefaultKeys), file.default)
            /\ new.providers =
                 Over([n \in {target} |-> MergeProvider(
                         Get(file.providers, target, <<>>),
                         Only(profile, {"api_key", "base_url", "compat"}))], file.providers)
            /\ new.servers = Only(file.servers, served)
            /\ {"servers", "tools", "compact"} \subseteq DOMAIN new
BY DEF ApplyProfile

LEMMA TargetIs ==
  ASSUME LayersInv, Settled
  PROVE  /\ merged.provider = ProfileTarget
         /\ \A k, o : Get(merged.default, k, o)
              = IF k \in DefaultKeys
                THEN FirstStated(ProfileLayers, k, Get(MergedFiles.default, k, o))
                ELSE Get(MergedFiles.default, k, o)
         /\ DOMAIN merged.servers
              = DOMAIN MergedFiles.servers
                  \cap FirstStated(ProfileLayers, "mcp_servers", DOMAIN MergedFiles.servers)
         /\ \A n : \/ n = ProfileTarget /\ EntryOf(n) = MergeProvider(EntryOfFiles(n), Laid)
                   \/ n # ProfileTarget /\ EntryOf(n) = EntryOfFiles(n)
                   \/ Len(chain) = 0 /\ EntryOf(n) = EntryOfFiles(n)
         /\ {"servers", "tools", "compact"} \subseteq DOMAIN merged
<1>1. CASE Len(chain) = 0
  <2>1. merged = MergedFiles
    BY <1>1 DEF LayersInv
  <2>2. \A k, o : FirstStated(ProfileLayers, k, o) = o
    BY <1>1, ProfilesAre
  <2> QED BY <1>1, <2>1, <2>2, FilesAre DEF ProfileTarget, EntryOf, EntryOfFiles
<1>2. CASE Len(chain) # 0
  <2>1. merged = ApplyProfile(MergedFiles, overlay)
    BY <1>2 DEF LayersInv
  <2>2. \A k, o : Get(overlay, k, o) = FirstStated(ProfileLayers, k, o)
    BY ProfilesAre
  <2>3. Get(overlay, "provider", MergedFiles.provider) = ProfileTarget
    BY <2>2, FilesAre DEF ProfileTarget
  <2> DEFINE served == DOMAIN MergedFiles.servers \cap
                         Get(overlay, "mcp_servers", DOMAIN MergedFiles.servers)
             one == [n \in {ProfileTarget} |-> MergeProvider(EntryOfFiles(ProfileTarget), Laid)]
  <2>4. /\ merged.provider = ProfileTarget
        /\ merged.default = Over(Only(overlay, DefaultKeys), MergedFiles.default)
        /\ merged.providers = Over(one, MergedFiles.providers)
        /\ merged.servers = Only(MergedFiles.servers, served)
        /\ {"servers", "tools", "compact"} \subseteq DOMAIN merged
    <3> DEFINE new == ApplyProfile(MergedFiles, overlay)
               target == Get(overlay, "provider", MergedFiles.provider)
    <3>1. /\ new.provider = target
          /\ new.default = Over(Only(overlay, DefaultKeys), MergedFiles.default)
          /\ new.providers =
               Over([n \in {target} |-> MergeProvider(
                       Get(MergedFiles.providers, target, <<>>), Laid)], MergedFiles.providers)
          /\ new.servers = Only(MergedFiles.servers, served)
          /\ {"servers", "tools", "compact"} \subseteq DOMAIN new
      BY FilesAre, Applied DEF Laid
    <3> HIDE DEF new, served
    <3>2. target = ProfileTarget
      BY <2>3
    <3> HIDE DEF target
    <3> QED BY <2>1, <3>1, <3>2 DEF new, EntryOfFiles
  <2>5. ASSUME NEW k, NEW o
        PROVE  Get(merged.default, k, o)
                 = IF k \in DefaultKeys
                   THEN FirstStated(ProfileLayers, k, Get(MergedFiles.default, k, o))
                   ELSE Get(MergedFiles.default, k, o)
    <3>1. Get(merged.default, k, o)
            = Get(Only(overlay, DefaultKeys), k, Get(MergedFiles.default, k, o))
      BY <2>4, GetOver
    <3> QED BY <2>2, <3>1, GetOnly
  <2>6. DOMAIN merged.servers
          = DOMAIN MergedFiles.servers
              \cap FirstStated(ProfileLayers, "mcp_servers", DOMAIN MergedFiles.servers)
    <3>1. DOMAIN merged.servers = DOMAIN MergedFiles.servers \cap served
      BY <2>4 DEF Only
    <3> QED BY <2>2, <3>1
  <2>7. ASSUME NEW n
        PROVE  \/ n = ProfileTarget /\ EntryOf(n) = MergeProvider(EntryOfFiles(n), Laid)
               \/ n # ProfileTarget /\ EntryOf(n) = EntryOfFiles(n)
    <3>1. EntryOf(n) = Get(one, n, EntryOfFiles(n))
      <4> HIDE DEF one
      <4> QED BY <2>4, GetOver DEF EntryOf, EntryOfFiles
    <3> QED BY <3>1 DEF Get
  <2> QED BY <2>4, <2>5, <2>6, <2>7
<1> QED BY <1>1, <1>2

LEMMA OverlaidIs ==
  ASSUME NEW n, NEW layers, List(layers)
  PROVE  /\ List(Overlaid(n, layers))
         /\ \A k, o : FirstStated(Overlaid(n, layers), k, o)
              = IF n = ProfileTarget
                THEN FirstStated(layers, k, FirstStated(EntryLayers(n), k, o))
                ELSE FirstStated(EntryLayers(n), k, o)
<1> DEFINE top == IF n = ProfileTarget THEN layers ELSE <<>>
           rest == EntryLayers(n)
<1>1. List(top) /\ List(rest) /\ Overlaid(n, layers) = top \o rest
  BY ListShort, EntryLayersAre DEF Overlaid
<1>2. \A k, o : FirstStated(top, k, o) = IF n = ProfileTarget THEN FirstStated(layers, k, o) ELSE o
  BY FirstOfNone
<1> HIDE DEF top
<1>3. List(top \o rest)
  BY <1>1, ListConcat
<1>4. ASSUME NEW k, NEW o
      PROVE  FirstStated(top \o rest, k, o) = FirstStated(top, k, FirstStated(rest, k, o))
  <2> HIDE DEF rest
  <2> QED BY <1>1, FirstOfBoth
<1> QED BY <1>1, <1>2, <1>3, <1>4

LEMMA ProviderLayersAre ==
  ASSUME NEW layers, List(layers)
  PROVE  /\ List(ProviderLayers(layers))
         /\ \A k, o : FirstStated(ProviderLayers(layers), k, o)
              = FirstStated(Overlaid(Requested, layers), k,
                  IF Underlying = Requested THEN o
                  ELSE FirstStated(Overlaid(Underlying, layers), k, o))
<1> DEFINE top == Overlaid(Requested, layers)
           low == Overlaid(Underlying, layers)
           rest == IF Underlying = Requested THEN <<>> ELSE low
<1>1. List(top) /\ List(rest) /\ ProviderLayers(layers) = top \o rest
  BY ListShort, OverlaidIs DEF ProviderLayers
<1>2. \A k, o : FirstStated(rest, k, o) = IF Underlying = Requested THEN o ELSE FirstStated(low, k, o)
  BY FirstOfNone
<1> HIDE DEF top, rest
<1>3. List(top \o rest)
  BY <1>1, ListConcat
<1>4. ASSUME NEW k, NEW o
      PROVE  FirstStated(top \o rest, k, o) = FirstStated(top, k, FirstStated(rest, k, o))
  BY <1>1, FirstOfBoth
<1> QED BY <1>1, <1>2, <1>3, <1>4 DEF top

LEMMA CompatsConcat ==
  ASSUME NEW s, NEW t, List(s), List(t)
  PROVE  /\ List(Compats(s)) /\ List(Compats(t))
         /\ Compats(s \o t) = Compats(s) \o Compats(t)
<1> DEFINE a == Compats(s)
           b == Compats(t)
           all == s \o t
           both == a \o b
<1>1. /\ List(all) /\ Len(s) \in Nat /\ Len(t) \in Nat
      /\ DOMAIN s = 1..Len(s) /\ DOMAIN t = 1..Len(t) /\ DOMAIN all = 1..Len(s) + Len(t)
      /\ \A i \in 1..Len(s) : all[i] = s[i]
      /\ \A i \in 1..Len(t) : all[Len(s) + i] = t[i]
  BY ListConcat
<1>2. a = [i \in DOMAIN s |-> a[i]] /\ \A i \in DOMAIN s : a[i] = CompatOf(s[i])
  BY DEF Compats, CompatOf
<1>3. b = [i \in DOMAIN t |-> b[i]] /\ \A i \in DOMAIN t : b[i] = CompatOf(t[i])
  BY DEF Compats, CompatOf
<1> HIDE DEF a, b
<1>4. List(a) /\ Len(a) = Len(s) /\ List(b) /\ Len(b) = Len(t)
  BY <1>2, <1>3, ListMapped
<1>5. /\ List(both) /\ DOMAIN both = 1..Len(s) + Len(t)
      /\ \A i \in 1..Len(s) : both[i] = a[i]
      /\ \A i \in 1..Len(t) : both[Len(s) + i] = b[i]
  BY <1>4, ListConcat
<1>6. Compats(all) = [i \in 1..Len(s) + Len(t) |-> CompatOf(all[i])]
  BY <1>1 DEF Compats, CompatOf
<1> HIDE DEF all, both
<1>7. ASSUME NEW i \in 1..Len(s) + Len(t) PROVE both[i] = CompatOf(all[i])
  <2>1. CASE i \in 1..Len(s)
    BY <1>1, <1>2, <1>5, <2>1
  <2>2. CASE i \notin 1..Len(s)
    <3>1. i - Len(s) \in 1..Len(t) /\ Len(s) + (i - Len(s)) = i
      BY <1>1, <2>2
    <3>2. both[i] = b[i - Len(s)] /\ all[i] = t[i - Len(s)]
      BY <1>1, <1>5, <3>1
    <3> QED BY <1>1, <1>3, <3>1, <3>2
  <2> QED BY <2>1, <2>2
<1>8. both = [i \in 1..Len(s) + Len(t) |-> both[i]]
  BY <1>5 DEF List
<1>9. Compats(all) = both
  BY <1>6, <1>7, <1>8
<1> QED BY <1>4, <1>9 DEF a, b, all, both

LEMMA CompatsOfBoth ==
  ASSUME NEW s, NEW t, List(s), List(t), NEW f, NEW o
  PROVE  FirstStated(Compats(s \o t), f, o)
           = FirstStated(Compats(s), f, FirstStated(Compats(t), f, o))
<1> DEFINE a == Compats(s)
           b == Compats(t)
<1>1. List(a) /\ List(b) /\ Compats(s \o t) = a \o b
  BY CompatsConcat
<1> HIDE DEF a, b
<1>2. FirstStated(a \o b, f, o) = FirstStated(a, f, FirstStated(b, f, o))
  BY <1>1, FirstOfBoth
<1> QED BY <1>1, <1>2 DEF a, b

LEMMA CompatsOfNone ==
  ASSUME NEW f, NEW o
  PROVE  FirstStated(Compats(<<>>), f, o) = o
<1>1. Compats(<<>>) = <<>>
  BY DEF Compats
<1> QED BY <1>1, FirstOfNone

LEMMA CompatsOfOne ==
  ASSUME NEW entry, NEW f, NEW o
  PROVE  FirstStated(Compats(<<entry>>), f, o) = Get(CompatOf(entry), f, o)
<1>1. Compats(<<entry>>) = <<CompatOf(entry)>>
  BY DEF Compats, CompatOf
<1> QED BY <1>1, FirstOfOne

LEMMA OverlaidCompats ==
  ASSUME NEW n, NEW layers, List(layers), NEW f, NEW o
  PROVE  FirstStated(Compats(Overlaid(n, layers)), f, o)
              = IF n = ProfileTarget
                THEN FirstStated(Compats(layers), f, FirstStated(Compats(EntryLayers(n)), f, o))
                ELSE FirstStated(Compats(EntryLayers(n)), f, o)
<1> DEFINE top == IF n = ProfileTarget THEN layers ELSE <<>>
           rest == EntryLayers(n)
<1>1. List(top) /\ List(rest) /\ Overlaid(n, layers) = top \o rest
  BY ListShort, EntryLayersAre DEF Overlaid
<1>2. \A v : FirstStated(Compats(top), f, v)
        = IF n = ProfileTarget THEN FirstStated(Compats(layers), f, v) ELSE v
  BY CompatsOfNone
<1>3. FirstStated(Compats(top \o rest), f, o)
        = FirstStated(Compats(top), f, FirstStated(Compats(rest), f, o))
  <2> HIDE DEF top, rest
  <2> QED BY <1>1, CompatsOfBoth
<1> HIDE DEF top
<1> QED BY <1>1, <1>2, <1>3

LEMMA ProviderCompats ==
  ASSUME NEW layers, List(layers), NEW f, NEW o
  PROVE  FirstStated(Compats(ProviderLayers(layers)), f, o)
           = FirstStated(Compats(Overlaid(Requested, layers)), f,
               IF Underlying = Requested THEN o
               ELSE FirstStated(Compats(Overlaid(Underlying, layers)), f, o))
<1> DEFINE top == Overlaid(Requested, layers)
           low == Overlaid(Underlying, layers)
           rest == IF Underlying = Requested THEN <<>> ELSE low
<1>1. List(top) /\ List(rest) /\ ProviderLayers(layers) = top \o rest
  BY ListShort, OverlaidIs DEF ProviderLayers
<1>2. FirstStated(Compats(rest), f, o)
        = IF Underlying = Requested THEN o ELSE FirstStated(Compats(low), f, o)
  BY CompatsOfNone
<1> HIDE DEF top, rest
<1>3. FirstStated(Compats(top \o rest), f, o)
        = FirstStated(Compats(top), f, FirstStated(Compats(rest), f, o))
  BY <1>1, CompatsOfBoth
<1> QED BY <1>1, <1>2, <1>3 DEF top

(* The layers that state a plain field of an entry.                        *)
Above(k) == IF k \in {"api_key", "base_url"} THEN ProfileLayers ELSE <<>>

LEMMA EntryStates ==
  ASSUME LayersInv, Settled, NEW n, NEW k, k # "compat", NEW o
  PROVE  Get(EntryOf(n), k, o) = FirstStated(Overlaid(n, Above(k)), k, o)
<1> DEFINE low == FirstStated(EntryLayers(n), k, o)
<1>1. List(Above(k)) /\ \A v : Get(Laid, k, v) = FirstStated(Above(k), k, v)
  <2>1. \A v : Get(overlay, k, v) = FirstStated(ProfileLayers, k, v)
    BY ProfilesAre
  <2>2. CASE k \in {"api_key", "base_url"}
    BY <2>1, <2>2, ProfilesAre, GetOnly DEF Above, Laid
  <2>3. CASE k \notin {"api_key", "base_url"}
    <3>1. Above(k) = <<>> /\ k \notin {"api_key", "base_url", "compat"}
      BY <2>3 DEF Above
    <3>2. \A v : Get(Laid, k, v) = v
      BY <3>1, GetOnly DEF Laid
    <3>3. \A v : FirstStated(<<>>, k, v) = v
      BY FirstOfNone
    <3> QED BY <3>1, <3>2, <3>3, ListShort
  <2> QED BY <2>2, <2>3
<1>2. FirstStated(Overlaid(n, Above(k)), k, o)
        = IF n = ProfileTarget THEN FirstStated(Above(k), k, low) ELSE low
  BY <1>1, OverlaidIs
<1>3. Get(EntryOfFiles(n), k, o) = low
  BY FilesPlain
<1>4. CASE n = ProfileTarget /\ EntryOf(n) = MergeProvider(EntryOfFiles(n), Laid)
  <2>1. Get(EntryOf(n), k, o) = Get(Laid, k, Get(EntryOfFiles(n), k, o))
    BY <1>4, MergedPlain
  <2> QED BY <1>1, <1>2, <1>3, <1>4, <2>1
<1>5. CASE n # ProfileTarget /\ EntryOf(n) = EntryOfFiles(n)
  BY <1>2, <1>3, <1>5
<1>6. CASE Len(chain) = 0 /\ EntryOf(n) = EntryOfFiles(n)
  <2>1. FirstStated(Above(k), k, low) = low
    BY <1>6, ProfilesAre, FirstOfNone DEF Above
  <2> HIDE DEF low
  <2> QED BY <1>2, <1>3, <1>6, <2>1
<1> QED BY <1>4, <1>5, <1>6, TargetIs

Nearest == FirstStated(ProfileLayers, "compat", <<>>)
NearestLayer == <<[compat |-> Nearest]>>

LEMMA EntryCompat ==
  ASSUME LayersInv, Settled, NEW n, NEW f, NEW o
  PROVE  Get(CompatOf(EntryOf(n)), f, o) = FirstStated(Compats(Overlaid(n, NearestLayer)), f, o)
<1> DEFINE low == FirstStated(Compats(EntryLayers(n)), f, o)
<1>1. List(NearestLayer) /\ \A v : FirstStated(Compats(NearestLayer), f, v) = Get(Nearest, f, v)
  <2>1. CompatOf([compat |-> Nearest]) = Nearest
    BY DEF CompatOf, Get
  <2> QED BY <2>1, ListShort, CompatsOfOne DEF NearestLayer
<1>2. FirstStated(Compats(Overlaid(n, NearestLayer)), f, o)
        = IF n = ProfileTarget THEN Get(Nearest, f, low) ELSE low
  BY <1>1, OverlaidCompats
<1>3. Get(CompatOf(EntryOfFiles(n)), f, o) = low
  BY FilesCompat
<1>4. CompatOf(Laid) = Nearest
  BY ProfilesAre, GetOnly DEF CompatOf, Laid, Nearest
<1>5. CASE n = ProfileTarget /\ EntryOf(n) = MergeProvider(EntryOfFiles(n), Laid)
  <2>1. Get(CompatOf(EntryOf(n)), f, o) = Get(CompatOf(Laid), f, Get(CompatOf(EntryOfFiles(n)), f, o))
    BY <1>5, MergedCompat DEF CompatOf
  <2> QED BY <1>2, <1>3, <1>4, <1>5, <2>1
<1>6. CASE n # ProfileTarget /\ EntryOf(n) = EntryOfFiles(n)
  BY <1>2, <1>3, <1>6
<1>7. CASE Len(chain) = 0 /\ EntryOf(n) = EntryOfFiles(n)
  <2>1. Nearest = <<>>
    BY <1>7, ProfilesAre DEF Nearest
  <2>2. Get(Nearest, f, low) = low
    BY <2>1, GetNothing
  <2> HIDE DEF low
  <2> QED BY <1>2, <1>3, <1>7, <2>2
<1> QED BY <1>5, <1>6, <1>7, TargetIs

Alias == ResolveAlias(merged.providers, Requested)

LEMMA AliasIs ==
  ASSUME LayersInv, Settled, Alias.type # "unknown"
  PROVE  /\ Alias.type = Underlying
         /\ \/ Underlying = Requested /\ Alias.entry = EntryOf(Requested)
            \/ /\ Underlying # Requested
               /\ Alias.entry = MergeProvider(EntryOf(Underlying), EntryOf(Requested))
<1>1. CASE Requested \in Builtin
  BY <1>1 DEF Alias, ResolveAlias, Underlying, EntryOf
<1>2. CASE Requested \notin Builtin
  <2> DEFINE under == Get(EntryOf(Requested), "provider", "none")
  <2>1. Alias = (IF Requested \in DOMAIN merged.providers /\ under \in Builtin
                 THEN [type |-> under, entry |-> MergeProvider(EntryOf(under), EntryOf(Requested))]
                 ELSE [type |-> "unknown", entry |-> <<>>])
    BY <1>2 DEF Alias, ResolveAlias, EntryOf
  <2>2. under = Underlying
    <3>1. under = FirstStated(Overlaid(Requested, <<>>), "provider", "none")
      BY EntryStates DEF Above
    <3>2. FirstStated(Overlaid(Requested, <<>>), "provider", "none")
            = FirstStated(EntryLayers(Requested), "provider", "none")
      <4> DEFINE nothing == <<>>
                 low == FirstStated(EntryLayers(Requested), "provider", "none")
      <4>1. List(nothing) /\ FirstStated(nothing, "provider", low) = low
        BY ListShort, FirstOfNone
      <4> HIDE DEF nothing
      <4>2. FirstStated(Overlaid(Requested, nothing), "provider", "none")
              = IF Requested = ProfileTarget THEN FirstStated(nothing, "provider", low) ELSE low
        BY <4>1, OverlaidIs
      <4> QED BY <4>1, <4>2 DEF nothing
    <3> QED BY <1>2, <3>1, <3>2 DEF Underlying
  <2> HIDE DEF under
  <2>3. /\ under \in Builtin
        /\ Alias = [type |-> under, entry |-> MergeProvider(EntryOf(under), EntryOf(Requested))]
    BY <2>1
  <2> QED BY <1>2, <2>2, <2>3
<1> QED BY <1>1, <1>2

LEMMA AliasStates ==
  ASSUME LayersInv, Settled, Alias.type # "unknown", NEW k, k # "compat", NEW o
  PROVE  /\ List(ProviderLayers(Above(k)))
         /\ Get(Alias.entry, k, o) = FirstStated(ProviderLayers(Above(k)), k, o)
<1>1. List(Above(k))
  BY ProfilesAre, ListShort DEF Above
<1>2. FirstStated(ProviderLayers(Above(k)), k, o)
        = FirstStated(Overlaid(Requested, Above(k)), k,
            IF Underlying = Requested THEN o
            ELSE FirstStated(Overlaid(Underlying, Above(k)), k, o))
      /\ List(ProviderLayers(Above(k)))
  BY <1>1, ProviderLayersAre
<1>3. \A n, v : Get(EntryOf(n), k, v) = FirstStated(Overlaid(n, Above(k)), k, v)
  BY EntryStates
<1>4. CASE Underlying = Requested /\ Alias.entry = EntryOf(Requested)
  BY <1>2, <1>3, <1>4
<1>5. CASE /\ Underlying # Requested
           /\ Alias.entry = MergeProvider(EntryOf(Underlying), EntryOf(Requested))
  <2>1. Get(Alias.entry, k, o) = Get(EntryOf(Requested), k, Get(EntryOf(Underlying), k, o))
    BY <1>5, MergedPlain
  <2> QED BY <1>2, <1>3, <1>5, <2>1
<1> QED BY <1>2, <1>4, <1>5, AliasIs

LEMMA AliasCompat ==
  ASSUME LayersInv, Settled, Alias.type # "unknown", NEW f, NEW o
  PROVE  /\ List(CompatLayers)
         /\ Get(CompatOf(Alias.entry), f, o) = FirstStated(CompatLayers, f, o)
<1>1. List(NearestLayer)
  BY ListShort DEF NearestLayer
<1>2. CompatLayers = Compats(ProviderLayers(NearestLayer))
  BY DEF CompatLayers, Compats, NearestLayer, Nearest
<1>3. List(ProviderLayers(NearestLayer))
  BY <1>1, ProviderLayersAre
<1>4. List(CompatLayers)
  BY <1>2, <1>3, CompatsConcat
<1> DEFINE upper == Compats(Overlaid(Requested, NearestLayer))
           lower == Compats(Overlaid(Underlying, NearestLayer))
<1>5. FirstStated(CompatLayers, f, o)
        = FirstStated(upper, f, IF Underlying = Requested THEN o ELSE FirstStated(lower, f, o))
  BY <1>1, <1>2, ProviderCompats
<1>6. /\ \A v : Get(CompatOf(EntryOf(Requested)), f, v) = FirstStated(upper, f, v)
      /\ \A v : Get(CompatOf(EntryOf(Underlying)), f, v) = FirstStated(lower, f, v)
  BY EntryCompat
<1> HIDE DEF upper, lower
<1>7. CASE Underlying = Requested /\ Alias.entry = EntryOf(Requested)
  BY <1>4, <1>5, <1>6, <1>7
<1>8. CASE /\ Underlying # Requested
           /\ Alias.entry = MergeProvider(EntryOf(Underlying), EntryOf(Requested))
  <2>1. Get(CompatOf(Alias.entry), f, o)
          = Get(CompatOf(EntryOf(Requested)), f, Get(CompatOf(EntryOf(Underlying)), f, o))
    BY <1>8, MergedCompat DEF CompatOf
  <2> QED BY <1>4, <1>5, <1>6, <1>8, <2>1
<1> QED BY <1>4, <1>7, <1>8, AliasIs

LEMMA FirstOfThree ==
  ASSUME NEW a, NEW b, NEW c, List(a), List(b), List(c), NEW k, NEW o
  PROVE  /\ List(a \o b \o c)
         /\ FirstStated(a \o b \o c, k, o)
              = FirstStated(a, k, FirstStated(b, k, FirstStated(c, k, o)))
<1> DEFINE two == a \o b
<1>1. List(two) /\ \A v : FirstStated(two, k, v) = FirstStated(a, k, FirstStated(b, k, v))
  BY ListConcat, FirstOfBoth
<1> HIDE DEF two
<1>2. List(two \o c) /\ FirstStated(two \o c, k, o) = FirstStated(two, k, FirstStated(c, k, o))
  BY <1>1, ListConcat, FirstOfBoth
<1> QED BY <1>1, <1>2 DEF two

LEMMA DefaultsAre ==
  /\ List(DefaultsOf(Files))
  /\ \A k, o : FirstStated(DefaultsOf(Files), k, o) = Get(MergedFiles.default, k, o)
<1> DEFINE p == world.project
           g == world.global
<1>1. Files = <<p, g>>
  BY DEF Files
<1> HIDE DEF p, g
<1>2. DOMAIN Files = {1, 2} /\ Files[1] = p /\ Files[2] = g
  BY <1>1
<1>3. DefaultsOf(Files) = <<p.default, g.default>>
  BY <1>2 DEF DefaultsOf
<1>4. MergedFiles.default = Over(p.default, g.default)
  BY FilesAre DEF p, g
<1>5. List(DefaultsOf(Files))
  BY <1>3, ListShort
<1>6. ASSUME NEW k, NEW o
      PROVE  FirstStated(DefaultsOf(Files), k, o) = Get(MergedFiles.default, k, o)
  <2>1. FirstStated(<<p.default, g.default>>, k, o) = Get(p.default, k, Get(g.default, k, o))
    BY FirstOfTwo
  <2> QED BY <1>3, <1>4, <2>1, GetOver
<1> QED BY <1>5, <1>6

LEMMA OptionsFirst ==
  /\ List(<<Options>>)
  /\ \A k, o : FirstStated(<<Options>>, k, o) = Get(Options, k, o)
BY ListShort, FirstOfOne

(* What a configuration that was resolved is made of.                      *)
Stated == Over(Only(Options, DefaultKeys \cup {"system_prompt"}), merged.default)
Limits == Only(Stated, DOMAIN Stated \ {"model"})

LEMMA ResolvedIs ==
  ASSUME LayersInv, config # <<>>
  PROVE  /\ Settled /\ Alias.type # "unknown"
         /\ config.label = Requested /\ config.type = Underlying /\ Alias.type = Underlying
         /\ \E loggedIn : config.api_key = ResolveKey(Options, Alias.entry, Underlying,
                                                      merged.sections, world.env, loggedIn)
         /\ config.api_key # "missing"
         /\ config.base_url = NormalizeUrl(Underlying,
              Get(Over(Only(Options, {"base_url"}), Alias.entry), "base_url", DefaultUrl(Underlying)))
         /\ config.model = Get(Over(Only(Options, {"model"}),
                                    Over(Only(Alias.entry, {"model"}), merged.default)),
                               "model", DefaultModel(Underlying))
         /\ config.limits = Unlimited(Limits)
         /\ config.compat = Over(CompatOf(Alias.entry), CompatDefaults(Underlying))
         /\ config.file.servers = merged.servers
<1>1. Settled /\ IsResolved
  BY DEF LayersInv
<1>2. PICK loggedIn : LET resolved == Resolved(merged, Options, world.env, loggedIn)
                      IN config = resolved /\ Refusal(resolved, Options) = "none"
  BY <1>1 DEF IsResolved
<1>3. config = Resolved(merged, Options, world.env, loggedIn) /\ Refusal(config, Options) = "none"
  BY <1>2
<1>4. Get(Options, "provider", merged.provider) = Requested
  BY <1>1, TargetIs DEF Requested
<1>5. ResolveAlias(merged.providers, Requested) = Alias
  BY DEF Alias
<1>6. config.type # "unknown" /\ config.api_key # "missing"
  BY <1>3 DEF Refusal
<1>7. /\ config.label = Requested /\ config.type = Alias.type
      /\ config.api_key = ResolveKey(Options, Alias.entry, Alias.type,
                                     merged.sections, world.env, loggedIn)
      /\ config.base_url = NormalizeUrl(Alias.type,
           Get(Over(Only(Options, {"base_url"}), Alias.entry), "base_url", DefaultUrl(Alias.type)))
      /\ config.model = Get(Over(Only(Options, {"model"}),
                                 Over(Only(Alias.entry, {"model"}), merged.default)),
                            "model", DefaultModel(Alias.type))
      /\ config.limits = Unlimited(Limits)
      /\ config.compat = Over(CompatOf(Alias.entry), CompatDefaults(Alias.type))
      /\ config.file = [merged EXCEPT !.tools.auto = @ \/ Get(Options, "auto_approve", FALSE),
                                      !.compact.toon = @ \/ Get(Options, "toon", FALSE)]
  BY <1>3, <1>4, <1>5 DEF Resolved, Limits, Stated, CompatOf
<1>8. Alias.type = Underlying
  BY <1>1, <1>6, <1>7, AliasIs
<1>9. config.file.servers = merged.servers
  BY <1>1, <1>7, TargetIs
<1> QED BY <1>1, <1>6, <1>7, <1>8, <1>9

LEMMA ModelExact ==
  ASSUME LayersInv, config # <<>>
  PROVE  config.model = FirstStated(<<Options>> \o ProviderLayers(<<>>) \o ProfileLayers
                                      \o DefaultsOf(Files), "model", DefaultModel(Underlying))
<1> DEFINE cli == <<Options>>
           served == ProviderLayers(<<>>)
           files == DefaultsOf(Files)
           default == DefaultModel(Underlying)
           three == cli \o served \o ProfileLayers
<1>1. Above("model") = <<>> /\ Settled /\ Alias.type # "unknown"
  BY ResolvedIs DEF Above
<1>2. List(cli) /\ \A o : FirstStated(cli, "model", o) = Get(Options, "model", o)
  BY OptionsFirst
<1>3. List(served) /\ \A o : FirstStated(served, "model", o) = Get(Alias.entry, "model", o)
  BY <1>1, AliasStates
<1>4. List(files) /\ \A o : FirstStated(files, "model", o) = Get(MergedFiles.default, "model", o)
  BY DefaultsAre
<1>5. List(ProfileLayers) /\ \A o : Get(merged.default, "model", o)
        = FirstStated(ProfileLayers, "model", Get(MergedFiles.default, "model", o))
  BY <1>1, ProfilesAre, TargetIs DEF DefaultKeys
<1>6. config.model = Get(Options, "model", Get(Alias.entry, "model", Get(merged.default, "model", default)))
  BY ResolvedIs, GetOver, GetOnly
<1> HIDE DEF cli, served, files, default
<1>7. List(three) /\ \A o : FirstStated(three, "model", o)
        = FirstStated(cli, "model", FirstStated(served, "model", FirstStated(ProfileLayers, "model", o)))
  BY <1>2, <1>3, <1>5, FirstOfThree
<1> HIDE DEF three
<1>8. FirstStated(three \o files, "model", default)
        = FirstStated(three, "model", FirstStated(files, "model", default))
  BY <1>4, <1>7, FirstOfBoth
<1>9. config.model = FirstStated(three \o files, "model", default)
  BY <1>2, <1>3, <1>4, <1>5, <1>6, <1>7, <1>8
<1> QED BY <1>9 DEF three, cli, served, files, default

LEMMA ConnectionExact ==
  ASSUME LayersInv, config # <<>>
  PROVE  /\ config.base_url = NormalizeUrl(Underlying,
              FirstStated(<<Options>> \o ProviderLayers(ProfileLayers), "base_url",
                          DefaultUrl(Underlying)))
         /\ config.api_key \in {KeyInOrder} \cup KeyOfOption
<1> DEFINE cli == <<Options>>
           served == ProviderLayers(ProfileLayers)
<1>1. Above("base_url") = ProfileLayers /\ Above("api_key") = ProfileLayers
      /\ Settled /\ Alias.type # "unknown"
  BY ResolvedIs DEF Above
<1>2. List(cli) /\ \A k, o : FirstStated(cli, k, o) = Get(Options, k, o)
  BY OptionsFirst
<1>3. List(served) /\ \A k \in {"base_url", "api_key"} : \A o :
                        FirstStated(served, k, o) = Get(Alias.entry, k, o)
  <2>1. List(served) /\ \A o : FirstStated(served, "base_url", o) = Get(Alias.entry, "base_url", o)
    BY <1>1, AliasStates
  <2>2. \A o : FirstStated(served, "api_key", o) = Get(Alias.entry, "api_key", o)
    BY <1>1, AliasStates
  <2> QED BY <2>1, <2>2
<1> HIDE DEF cli, served
<1>4. \A k \in {"base_url", "api_key"} : \A o :
        FirstStated(cli \o served, k, o) = Get(Options, k, Get(Alias.entry, k, o))
  <2>1. \A k, o : FirstStated(cli \o served, k, o) = FirstStated(cli, k, FirstStated(served, k, o))
    BY <1>2, <1>3, FirstOfBoth
  <2> QED BY <1>2, <1>3, <2>1
<1>5. config.base_url = NormalizeUrl(Underlying,
        FirstStated(cli \o served, "base_url", DefaultUrl(Underlying)))
  <2> DEFINE default == DefaultUrl(Underlying)
  <2>1. config.base_url = NormalizeUrl(Underlying,
          Get(Options, "base_url", Get(Alias.entry, "base_url", default)))
    BY ResolvedIs, GetOver, GetOnly
  <2> HIDE DEF default
  <2>2. FirstStated(cli \o served, "base_url", default)
          = Get(Options, "base_url", Get(Alias.entry, "base_url", default))
    BY <1>4
  <2> QED BY <2>1, <2>2 DEF default
<1>6. config.api_key \in {KeyInOrder} \cup KeyOfOption
  <2> DEFINE entry == Alias.entry
             option == "API_KEY" \in world.env
             variable == IF "API_KEY" \in world.env THEN ValueOf("API_KEY")
                         ELSE IF KeyVariable(Underlying) \cap world.env # {}
                         THEN ValueOf(Underlying) ELSE ""
             stated == Over(Only(Options, {"api_key"}), Only(entry, {"api_key"}))
  <2>1. PICK loggedIn : config.api_key = ResolveKey(Options, entry, Underlying,
                                                    merged.sections, world.env, loggedIn)
    BY ResolvedIs
  <2>2. config.api_key # "missing"
    BY ResolvedIs
  <2>3. KeyInOrder = Get(world.cli, "api_key", Get(entry, "api_key", variable))
    BY <1>3 DEF KeyInOrder, served
  <2>4. /\ "api_key" \in DOMAIN world.cli =>
             "api_key" \in DOMAIN Options /\ Options.api_key = world.cli.api_key
        /\ "api_key" \notin DOMAIN world.cli /\ option =>
             "api_key" \in DOMAIN Options /\ Options.api_key = ValueOf("API_KEY")
        /\ "api_key" \notin DOMAIN world.cli /\ ~option => "api_key" \notin DOMAIN Options
    BY DEF Options, Parsed, Over, OptionVariables
  <2>5. /\ "api_key" \in DOMAIN Options =>
             "api_key" \in DOMAIN stated /\ stated.api_key = Options.api_key
        /\ "api_key" \notin DOMAIN Options /\ "api_key" \in DOMAIN entry =>
             "api_key" \in DOMAIN stated /\ stated.api_key = entry.api_key
        /\ "api_key" \notin DOMAIN Options /\ "api_key" \notin DOMAIN entry =>
             "api_key" \notin DOMAIN stated
    BY DEF Over, Only
  <2>6. /\ "api_key" \in DOMAIN stated => config.api_key = stated.api_key
        /\ "api_key" \notin DOMAIN stated => config.api_key = variable
    <3>1. CASE "api_key" \in DOMAIN stated
      BY <2>1, <3>1 DEF ResolveKey
    <3>2. CASE "api_key" \notin DOMAIN stated
      <4> DEFINE rest == IF Underlying \in {"bedrock", "vertex"} THEN ""
                         ELSE IF loggedIn /\ HasClientId(merged.sections) THEN "" ELSE "missing"
      <4>1. config.api_key = IF option THEN ValueOf("API_KEY")
                             ELSE IF KeyVariable(Underlying) \cap world.env # {}
                             THEN ValueOf(Underlying) ELSE rest
        BY <2>1, <3>2, Zenon DEF ResolveKey
      <4>2. rest \in {"", "missing"}
        BY Zenon
      <4> HIDE DEF rest
      <4> QED BY <2>2, <3>2, <4>1, <4>2
    <3> QED BY <3>1, <3>2
  <2> HIDE DEF stated, entry, variable, option
  <2>7. CASE "api_key" \in DOMAIN world.cli
    BY <2>3, <2>4, <2>5, <2>6, <2>7 DEF Get
  <2>8. CASE "api_key" \notin DOMAIN world.cli /\ option
    BY <2>4, <2>5, <2>6, <2>8 DEF KeyOfOption, option
  <2>9. CASE "api_key" \notin DOMAIN world.cli /\ ~option
    BY <2>3, <2>4, <2>5, <2>6, <2>9 DEF Get
  <2> QED BY <2>7, <2>8, <2>9
<1> QED BY <1>5, <1>6 DEF cli, served

LEMMA LimitsExact ==
  ASSUME LayersInv, config # <<>>, NEW k \in {"max_tokens", "max_turns", "failure_turns"}
  PROVE  LET limit == FirstStated(<<Options>> \o ProfileLayers \o DefaultsOf(Files), k, "unset")
         IN IF k \notin DOMAIN config.limits
            THEN limit \in {"unset"} \cup (IF k = "max_turns" THEN {"0"} ELSE {})
            ELSE config.limits[k] = limit
<1> DEFINE cli == <<Options>>
           files == DefaultsOf(Files)
           limit == FirstStated(cli \o ProfileLayers \o files, k, "unset")
<1>1. Settled /\ k \in DefaultKeys /\ k # "model"
  BY ResolvedIs DEF DefaultKeys
<1>2. List(cli) /\ \A o : FirstStated(cli, k, o) = Get(Options, k, o)
  BY OptionsFirst
<1>3. List(files) /\ \A o : FirstStated(files, k, o) = Get(MergedFiles.default, k, o)
  BY DefaultsAre
<1>4. List(ProfileLayers) /\ \A o : Get(merged.default, k, o)
        = FirstStated(ProfileLayers, k, Get(MergedFiles.default, k, o))
  BY <1>1, ProfilesAre, TargetIs
<1>5. limit = Get(Options, k, Get(merged.default, k, "unset"))
  <2> HIDE DEF cli, files
  <2>1. limit = FirstStated(cli, k, FirstStated(ProfileLayers, k, FirstStated(files, k, "unset")))
    BY <1>2, <1>3, <1>4, FirstOfThree
  <2> QED BY <1>2, <1>3, <1>4, <2>1
<1> HIDE DEF limit
<1>6. Get(Stated, k, "unset") = limit
  BY <1>1, <1>5, GetOver, GetOnly DEF Stated
<1>7. Get(Limits, k, "unset") = limit
  BY <1>1, <1>6 DEF Limits, Get, Only
<1>8. config.limits = Unlimited(Limits)
  BY ResolvedIs
<1>9. CASE Get(Limits, "max_turns", "unset") = "0"
  <2>1. config.limits = Only(Limits, DOMAIN Limits \ {"max_turns"})
    BY <1>8, <1>9 DEF Unlimited
  <2>2. CASE k = "max_turns"
    <3>1. k \notin DOMAIN config.limits /\ limit = "0"
      BY <1>7, <1>9, <2>1, <2>2 DEF Only
    <3> QED BY <2>2, <3>1 DEF limit
  <2>3. CASE k # "max_turns"
    <3>1. IF k \notin DOMAIN config.limits THEN limit = "unset" ELSE config.limits[k] = limit
      BY <1>7, <2>1, <2>3 DEF Only, Get
    <3> QED BY <3>1 DEF limit
  <2> QED BY <2>2, <2>3
<1>10. CASE Get(Limits, "max_turns", "unset") # "0"
  <2>1. config.limits = Limits
    BY <1>8, <1>10 DEF Unlimited
  <2>2. IF k \notin DOMAIN config.limits THEN limit = "unset" ELSE config.limits[k] = limit
    BY <1>7, <2>1 DEF Get
  <2> QED BY <2>2 DEF limit
<1> QED BY <1>9, <1>10

LEMMA CompatExact ==
  ASSUME LayersInv, config # <<>>, NEW f
  PROVE  Get(config.compat, f, "unset")
           = FirstStated(CompatLayers \o <<CompatDefaults(Underlying)>>, f, "unset")
<1> DEFINE default == CompatDefaults(Underlying)
           last == <<default>>
<1>1. Settled /\ Alias.type # "unknown" /\ config.compat = Over(CompatOf(Alias.entry), default)
  BY ResolvedIs
<1> HIDE DEF default
<1>2. List(last) /\ FirstStated(last, f, "unset") = Get(default, f, "unset")
  BY ListShort, FirstOfOne
<1>3. List(CompatLayers)
      /\ \A o : Get(CompatOf(Alias.entry), f, o) = FirstStated(CompatLayers, f, o)
  BY <1>1, AliasCompat
<1>4. Get(config.compat, f, "unset") = Get(CompatOf(Alias.entry), f, Get(default, f, "unset"))
  BY <1>1, GetOver
<1> HIDE DEF last
<1>5. FirstStated(CompatLayers \o last, f, "unset")
        = FirstStated(CompatLayers, f, FirstStated(last, f, "unset"))
  BY <1>2, <1>3, FirstOfBoth
<1> QED BY <1>2, <1>3, <1>4, <1>5 DEF last, default

LEMMA ServersExact ==
  ASSUME LayersInv, config # <<>>
  PROVE  LET all == DOMAIN world.global.servers \cup DOMAIN world.project.servers
         IN DOMAIN config.file.servers = all \cap FirstStated(ProfileLayers, "mcp_servers", all)
<1>1. DOMAIN MergedFiles.servers = DOMAIN world.global.servers \cup DOMAIN world.project.servers
  BY FilesAre DEF Over
<1>2. DOMAIN config.file.servers
        = DOMAIN MergedFiles.servers
            \cap FirstStated(ProfileLayers, "mcp_servers", DOMAIN MergedFiles.servers)
  BY ResolvedIs, TargetIs
<1> QED BY <1>1, <1>2

(* Every setting is the one of the first layer that states it, the key too *)
(* unless API_KEY competes with a file, and a chain of profiles is refused *)
(* exactly when it does not resolve.                                       *)
THEOREM ConfigIsExact == StartupSpec => []ConfigExact
<1>1. StartInv /\ LayersInv => ConfigExact
  <2> SUFFICES ASSUME StartInv, LayersInv PROVE ConfigExact
    OBVIOUS
  <2>1. ProfileErrorsExact
    BY ErrorsExact
  <2>2. ASSUME config # <<>> PROVE ResolvedFlat
    <3>1. config.label = Requested /\ config.type = Underlying
      BY <2>2, ResolvedIs
    <3>2. \A f \in {"thinking", "dedup", "api_mode", "sanitize_schema"} :
            Get(config.compat, f, "unset")
              = FirstStated(CompatLayers \o <<CompatDefaults(Underlying)>>, f, "unset")
      BY <2>2, CompatExact
    <3> QED
      BY <2>2, <3>1, <3>2, ModelExact, ConnectionExact, LimitsExact, ServersExact DEF ResolvedFlat
  <2> QED BY <2>1, <2>2 DEF ConfigExact, ResolvedByPrecedence
<1> QED BY <1>1, LayersInvAlways, PTL
=============================================================================
