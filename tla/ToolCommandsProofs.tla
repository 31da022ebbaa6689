------------------------- MODULE ToolCommandsProofs -------------------------
(***************************************************************************)
(* Proofs about commands: the types, and that a result is true - of the    *)
(* processes, of which none may be left behind, and of the output, which   *)
(* is whole unless a reader was aborted.                                   *)
(***************************************************************************)
EXTENDS ToolCommands, NaturalsInduction, WellFoundedInduction, TLAPS

(***************************************************************************)
(* The readers are there from the attachment on; only the drain after an   *)
(* exit aborts one, never the wait after a kill.  The end of a file is     *)
(* final, for the child holds its pipes as long as it lives, and nobody    *)
(* but the child forks.                                                    *)
(***************************************************************************)
ReadersInv ==
  \A st \in Streams :
    /\ taken[st] + pipe[st] <= MaxChunks
    /\ "child" \in alive => "child" \in holds[st]
    /\ reader[st] = "eof" => pipe[st] = 0 /\ holds[st] = {}
    /\ pc \in {"wait", "kill", "reap", "finish"} => reader[st] \in {"reading", "eof"}
    /\ pc = "drain" => reader[st] # "none"
    /\ pc \in {"idle", "attach"} => reader[st] = "none"

(* Nothing is alive before the child; a kill leaves what is not its to end.*)
KilledInv ==
  /\ pc = "idle" => alive = {}
  /\ pc = "drain" => "child" \notin alive
  /\ pc \in {"reap", "finish"} => alive \subseteq (IF windows THEN {} ELSE {"outer"})

ProcessInv == ProcessTypeOK /\ ReadersInv /\ KilledInv /\ ResultIsTrue

(* What a command and its processes do.                                    *)
ProcessStep == Spawn \/ Runner \/ World \/ Forget

LEMMA ProcessInitInv == ProcessInit => ProcessInv
<1> SUFFICES ASSUME ProcessInit PROVE ProcessInv
  OBVIOUS
<1> USE DEF ProcessInit, Each
<1>1. ProcessTypeOK
  BY ChunksAssumption DEF ProcessTypeOK, Members, Codes, NoOutcome, Outcomes
<1>2. ReadersInv /\ KilledInv /\ ResultIsTrue
  BY ChunksAssumption
     DEF ReadersInv, KilledInv, ResultIsTrue, NothingLeftBehind, OutputComplete
<1> QED BY <1>1, <1>2 DEF ProcessInv

LEMMA DeathType ==
  ASSUME ProcessInv, NEW dead, Die(dead)
  PROVE  /\ alive' \subseteq alive /\ alive' \cap dead = {}
         /\ holds' \in [Streams -> SUBSET Members]
         /\ \A st \in Streams : holds'[st] \subseteq holds[st] /\ holds'[st] \subseteq alive'
         /\ \A st \in Streams : "child" \in alive' => "child" \in holds'[st]
BY DEF Die, ProcessInv, ProcessTypeOK, ReadersInv

LEMMA ErrorType == Error \in Outcomes /\ Error.kind = "error"
BY DEF Error, Outcomes, Codes

(* The child starts, or its error is the result.                           *)
LEMMA SpawnStep ==
  ASSUME ProcessInv, Spawn
  PROVE  ProcessInv'
<1> USE DEF Spawn, Pc, flow, Each
<1>1. CASE pc' = "attach" /\ UNCHANGED outcome /\ alive' = {"child"} /\ holds' = Each({"child"})
  <2>1. ProcessTypeOK'
    BY <1>1 DEF ProcessInv, ProcessTypeOK, Members
  <2>2. ReadersInv' /\ KilledInv'
    BY <1>1 DEF ProcessInv, ProcessTypeOK, ReadersInv, KilledInv
  <2>3. ResultIsTrue'
    BY <1>1 DEF ResultIsTrue, NothingLeftBehind, OutputComplete
  <2> QED BY <2>1, <2>2, <2>3 DEF ProcessInv
<1>2. CASE pc' = "returned" /\ outcome' = Error /\ UNCHANGED <<alive, holds>>
  <2>1. ProcessTypeOK'
    BY <1>2, ErrorType DEF ProcessInv, ProcessTypeOK
  <2>2. ReadersInv' /\ KilledInv'
    BY <1>2 DEF ProcessInv, ProcessTypeOK, ReadersInv, KilledInv
  <2>3. "child" \notin alive
    BY DEF ProcessInv, KilledInv
  <2>4. ResultIsTrue'
    BY <1>2, <2>3, ErrorType DEF ResultIsTrue, NothingLeftBehind, OutputComplete
  <2> QED BY <2>1, <2>2, <2>4 DEF ProcessInv
<1> QED BY <1>1, <1>2

(* An error is reported of whatever was read, with the child killed.       *)
LEMMA ErrorStep ==
  ASSUME ProcessInv, Return(Error), UNCHANGED <<windows, exit, flow>>
  PROVE  ProcessInv'
<1> USE DEF Return, flow
<1>1. ProcessTypeOK'
  BY DeathType, ErrorType DEF ProcessInv, ProcessTypeOK
<1>2. ReadersInv' /\ KilledInv'
  BY DeathType DEF ProcessInv, ProcessTypeOK, ReadersInv, KilledInv
<1>3. ResultIsTrue'
  BY DeathType, ErrorType DEF ResultIsTrue, NothingLeftBehind, OutputComplete
<1> QED BY <1>1, <1>2, <1>3 DEF ProcessInv

(* A result is returned when no reader is left that reads.                 *)
LEMMA ResultStep ==
  ASSUME ProcessInv, NEW o \in Outcomes, Return(o), UNCHANGED <<windows, exit, flow>>, Drained,
         \/ pc = "drain" /\ o.kind = "exit"
         \/ pc = "finish" /\ o.kind = "timeout"
  PROVE  ProcessInv'
<1> USE DEF Return, flow
<1>1. ProcessTypeOK'
  BY DeathType DEF ProcessInv, ProcessTypeOK
<1>2. ReadersInv' /\ KilledInv'
  BY DeathType DEF ProcessInv, ProcessTypeOK, ReadersInv, KilledInv
<1>3. NothingLeftBehind'
  BY DeathType DEF ProcessInv, KilledInv, NothingLeftBehind
<1>4. OutputComplete'
  BY DeathType DEF ProcessInv, ProcessTypeOK, ReadersInv, OutputComplete, Drained
<1> QED BY <1>1, <1>2, <1>3, <1>4 DEF ProcessInv, ResultIsTrue

(* A step of the runner that starts, ends and reads nothing.               *)
LEMMA MoveStep ==
  ASSUME ProcessInv, UNCHANGED <<windows, procs, flow, outcome>>,
         \/ pc = "wait" /\ pc' = "drain" /\ "child" \notin alive
         \/ pc = "wait" /\ pc' = "kill"
         \/ pc = "reap" /\ pc' = "finish"
         \/ UNCHANGED pc
  PROVE  ProcessInv'
<1> USE DEF procs, flow
<1>1. ProcessTypeOK'
  BY DEF ProcessInv, ProcessTypeOK
<1>2. ReadersInv' /\ KilledInv'
  BY DEF ProcessInv, ReadersInv, KilledInv
<1>3. ResultIsTrue'
  BY DEF ProcessInv, ResultIsTrue, NothingLeftBehind, OutputComplete
<1> QED BY <1>1, <1>2, <1>3 DEF ProcessInv

(* The readers start with the wait, and read what was written.             *)
LEMMA ReadersStep ==
  ASSUME ProcessInv, UNCHANGED <<windows, procs, outcome>>,
         \/ /\ pc = "attach" /\ pc' = "wait" /\ reader' = Each("reading")
            /\ UNCHANGED <<pipe, taken>>
         \/ \E st \in Streams : Read(st) \/ Eof(st) \/ DrainTimeUp(st)
  PROVE  ProcessInv'
<1> USE DEF procs, Each
<1>1. CASE pc = "attach" /\ pc' = "wait" /\ reader' = Each("reading") /\ UNCHANGED <<pipe, taken>>
  <2>1. ProcessTypeOK'
    BY <1>1 DEF ProcessInv, ProcessTypeOK
  <2>2. ReadersInv' /\ KilledInv'
    BY <1>1 DEF ProcessInv, ReadersInv, KilledInv
  <2>3. ResultIsTrue'
    BY <1>1 DEF ResultIsTrue, NothingLeftBehind, OutputComplete
  <2> QED BY <2>1, <2>2, <2>3 DEF ProcessInv
<1>2. ASSUME NEW st \in Streams, Read(st) PROVE ProcessInv'
  <2> USE <1>2 DEF Read
  <2>1. pipe[st] \in Nat /\ taken[st] \in Nat /\ taken[st] + pipe[st] <= MaxChunks
    BY DEF ProcessInv, ProcessTypeOK, ReadersInv
  <2>2. ProcessTypeOK'
    BY <2>1, ChunksAssumption DEF ProcessInv, ProcessTypeOK
  <2>3. /\ pipe'[st] = pipe[st] - 1 /\ taken'[st] = taken[st] + 1
        /\ \A s \in Streams \ {st} : pipe'[s] = pipe[s] /\ taken'[s] = taken[s]
    BY DEF ProcessInv, ProcessTypeOK
  <2>5. \A s \in Streams : taken'[s] + pipe'[s] <= MaxChunks
    BY <2>1, <2>3 DEF ProcessInv, ReadersInv
  <2>6. \A s \in Streams : reader[s] = "eof" => pipe'[s] = 0
    BY <2>3 DEF ProcessInv, ReadersInv
  <2>7. ReadersInv' /\ KilledInv'
    BY <2>5, <2>6 DEF ProcessInv, ReadersInv, KilledInv
  <2>4. ResultIsTrue'
    BY <2>6 DEF ProcessInv, ResultIsTrue, NothingLeftBehind, OutputComplete
  <2> QED BY <2>2, <2>7, <2>4 DEF ProcessInv
<1>3. ASSUME NEW st \in Streams, Eof(st) \/ DrainTimeUp(st) PROVE ProcessInv'
  <2> USE <1>3 DEF Eof, DrainTimeUp, Pc
  <2>1. ProcessTypeOK'
    BY DEF ProcessInv, ProcessTypeOK
  <2>2. ReadersInv' /\ KilledInv'
    BY DEF ProcessInv, ProcessTypeOK, ReadersInv, KilledInv
  <2>3. ResultIsTrue'
    BY DEF ProcessInv, ProcessTypeOK, ResultIsTrue, NothingLeftBehind, OutputComplete
  <2> QED BY <2>1, <2>2, <2>3 DEF ProcessInv
<1> QED BY <1>1, <1>2, <1>3

(* The kill of a group or a job.                                           *)
LEMMA KillStep ==
  ASSUME ProcessInv, pc = "kill", pc' = "reap", UNCHANGED <<windows, exit, flow, outcome>>,
         Die(IF windows THEN Members ELSE {"child", "inner"})
  PROVE  ProcessInv'
<1> USE DEF flow
<1>1. ProcessTypeOK'
  BY DeathType DEF ProcessInv, ProcessTypeOK
<1>2. ReadersInv'
  BY DeathType DEF ProcessInv, ProcessTypeOK, ReadersInv
<1>3. KilledInv'
  <2>1. alive' \subseteq {"child", "inner", "outer"}
    BY DeathType DEF ProcessInv, ProcessTypeOK, Members
  <2>2. CASE windows
    <3>1. alive' \cap Members = {}
      BY <2>2, DeathType
    <3> QED BY <2>1, <2>2, <3>1 DEF KilledInv, Members
  <2>3. CASE ~windows
    <3>1. alive' \cap {"child", "inner"} = {}
      BY <2>3, DeathType
    <3> QED BY <2>1, <2>3, <3>1 DEF KilledInv
  <2> QED BY <2>2, <2>3
<1>4. ResultIsTrue'
  BY DEF ResultIsTrue, NothingLeftBehind, OutputComplete
<1> QED BY <1>1, <1>2, <1>3, <1>4 DEF ProcessInv

LEMMA RunnerStep ==
  ASSUME ProcessInv, Runner
  PROVE  ProcessInv'
<1> USE DEF Pc
<1>1. CASE Attach
  BY <1>1, ErrorStep, ReadersStep DEF Attach, flow, procs
<1>2. CASE Exited \/ TimeUp \/ Reap
  BY <1>2, MoveStep DEF Exited, TimeUp, Reap
<1>3. CASE ReturnExited
  <2>1. [kind |-> "exit", code |-> exit, silent |-> Silent] \in Outcomes
    BY DEF ProcessInv, ProcessTypeOK, Outcomes, Silent
  <2> QED BY <1>3, <2>1, ResultStep DEF ReturnExited
<1>4. CASE ReturnTimedOut
  <2>1. [kind |-> "timeout", code |-> "none", silent |-> Silent] \in Outcomes
    BY DEF Outcomes, Silent, Codes
  <2> QED BY <1>4, <2>1, ResultStep DEF ReturnTimedOut
<1>5. CASE Terminate
  BY <1>5, KillStep, ErrorStep DEF Terminate
<1>6. CASE IoError
  BY <1>6, ErrorStep DEF IoError
<1>7. ASSUME NEW st \in Streams, Read(st) \/ Eof(st) \/ DrainTimeUp(st) PROVE ProcessInv'
  BY <1>7, ReadersStep DEF Read, Eof, DrainTimeUp
<1> QED BY <1>1, <1>2, <1>3, <1>4, <1>5, <1>6, <1>7 DEF Runner

(* The processes write, fork and exit as they like.                        *)
LEMMA WorldStep ==
  ASSUME ProcessInv, World
  PROVE  ProcessInv'
<1> USE DEF Acting
<1>1. ASSUME NEW m \in Members, Exit(m) PROVE ProcessInv'
  <2> USE <1>1 DEF Exit, flow
  <2>1. exit' \in Codes
    BY DEF ProcessInv, ProcessTypeOK
  <2>2. ProcessTypeOK'
    BY <2>1, DeathType DEF ProcessInv, ProcessTypeOK
  <2>3. ReadersInv' /\ KilledInv'
    BY DeathType DEF ProcessInv, ProcessTypeOK, ReadersInv, KilledInv
  <2>4. ResultIsTrue'
    BY DeathType DEF ProcessInv, ProcessTypeOK, ResultIsTrue, NothingLeftBehind, OutputComplete
  <2> QED BY <2>2, <2>3, <2>4 DEF ProcessInv
<1>2. ASSUME NEW m \in Members, NEW st \in Streams, Write(m, st) PROVE ProcessInv'
  <2> USE <1>2 DEF Write, procs
  <2>1. pipe[st] \in Nat /\ taken[st] \in Nat /\ m \in holds[st]
    BY DEF ProcessInv, ProcessTypeOK
  <2>2. ProcessTypeOK'
    BY <2>1, ChunksAssumption DEF ProcessInv, ProcessTypeOK
  <2>3. ReadersInv' /\ KilledInv'
    BY <2>1, ChunksAssumption DEF ProcessInv, ProcessTypeOK, ReadersInv, KilledInv
  <2>4. ResultIsTrue'
    BY <2>1 DEF ProcessInv, ProcessTypeOK, ResultIsTrue, NothingLeftBehind, OutputComplete
  <2> QED BY <2>2, <2>3, <2>4 DEF ProcessInv
<1>3. ASSUME NEW m \in Members, NEW keeps \in BOOLEAN, Fork(m, keeps) PROVE ProcessInv'
  <2> USE <1>3 DEF Fork, flow
  <2>1. "child" \in alive /\ pc \notin {"drain", "reap", "finish", "returned"}
    BY DEF ProcessInv, KilledInv, ResultIsTrue, NothingLeftBehind
  <2>2. ProcessTypeOK'
    BY DEF ProcessInv, ProcessTypeOK
  <2>3. ReadersInv' /\ KilledInv'
    BY <2>1 DEF ProcessInv, ProcessTypeOK, ReadersInv, KilledInv
  <2>4. ResultIsTrue'
    BY <2>1 DEF ResultIsTrue, NothingLeftBehind, OutputComplete
  <2> QED BY <2>2, <2>3, <2>4 DEF ProcessInv
<1> QED BY <1>1, <1>2, <1>3 DEF World

LEMMA ForgetStep ==
  ASSUME ProcessInv, Forget
  PROVE  ProcessInv'
<1> USE DEF Forget, Each
<1>1. ProcessTypeOK'
  BY ChunksAssumption DEF ProcessInv, ProcessTypeOK, Members, Codes, NoOutcome, Outcomes
<1>2. ReadersInv' /\ KilledInv' /\ ResultIsTrue'
  BY ChunksAssumption
     DEF ReadersInv, KilledInv, ResultIsTrue, NothingLeftBehind, OutputComplete
<1> QED BY <1>1, <1>2 DEF ProcessInv

(* Whoever uses the runner keeps what holds of its processes.              *)
LEMMA AnyProcessStep ==
  ASSUME ProcessInv, ProcessStep \/ UNCHANGED pvars
  PROVE  ProcessInv'
<1>1. CASE UNCHANGED pvars
  BY <1>1, MoveStep DEF pvars
<1> QED BY <1>1, SpawnStep, RunnerStep, WorldStep, ForgetStep DEF ProcessStep

-----------------------------------------------------------------------------
(***************************************************************************)
(* Numbers and folds.  A nonempty set of naturals has a least element, so  *)
(* a set that holds 0 and is closed under + 1 holds all of them; that a    *)
(* fold is what its equations say follows by this induction.               *)
(***************************************************************************)
Below == {ss \in Nat \X Nat : ss[1] < ss[2]}

LEMMA LeastNatural ==
  ASSUME NEW S, S \subseteq Nat, S # {}
  PROVE  \E m \in S : \A k \in S : m <= k
<1>1. IsWellFoundedOn(Below, Nat)
  BY NatLessThanWellFounded DEF OpToRel, Below
<1>2. PICK m \in S : \A k \in S : <<k, m>> \notin Below
  BY <1>1, WFMin
<1>3. ASSUME NEW k \in S PROVE m <= k
  <2>1. k \in Nat /\ m \in Nat /\ ~(k < m)
    BY <1>2 DEF Below
  <2> QED BY <2>1
<1> QED BY <1>3

LEMMA NatSetInduction ==
  ASSUME NEW S, 0 \in S, \A n \in Nat : n \in S => n + 1 \in S
  PROVE  Nat \subseteq S
<1> SUFFICES ASSUME Nat \ S # {} PROVE FALSE
  OBVIOUS
<1>1. PICK m \in Nat \ S : \A k \in Nat \ S : m <= k
  BY LeastNatural
<1>2. m - 1 \in Nat /\ ~(m <= m - 1)
  OBVIOUS
<1> QED BY <1>1, <1>2

LEMMA MaxOfInterval ==
  ASSUME NEW n \in Nat, NEW t \in SUBSET (1..n + 1), n + 1 \in t
  PROVE  Max(t) = n + 1
<1>1. \A y \in t : n + 1 >= y
  OBVIOUS
<1>2. \A x \in t : (\A y \in t : x >= y) => x = n + 1
  BY <1>1
<1> QED BY <1>1, <1>2 DEF Max

LEMMA MaxOfBounded ==
  ASSUME NEW n \in Nat, NEW t \in SUBSET (1..n), t # {}
  PROVE  Max(t) \in t
<1> DEFINE S == {k \in Nat : n - k \in t}
<1>1. \A y \in t : y \in Nat /\ n - y \in Nat /\ n - (n - y) = y
  OBVIOUS
<1>2. \A y \in t : n - y \in S
  BY <1>1
<1>3. PICK m \in S : \A k \in S : m <= k
  BY <1>2, LeastNatural
<1>4. ASSUME NEW y \in t PROVE n - m >= y
  <2>1. m \in Nat /\ m <= n - y
    BY <1>2, <1>3
  <2> QED BY <1>1, <2>1
<1>5. n - m \in t
  BY <1>3
<1> QED BY <1>4, <1>5 DEF Max

(* The steps of a fold with values in V, and the fold of n of them.        *)
Steps(G, V) == G \in [Nat \X V -> V]
HasFold(V, base, G, n) ==
  \E it \in [SUBSET (1..n) -> V] :
    \A t \in SUBSET (1..n) : it[t] = IF t = {} THEN base ELSE G[<<Max(t), it[t \ {Max(t)}]>>]

LEMMA FoldExists ==
  ASSUME NEW V, NEW base \in V, NEW G, Steps(G, V), NEW n \in Nat
  PROVE  HasFold(V, base, G, n)
<1> DEFINE Is(it, m) ==
      \A t \in SUBSET (1..m) : it[t] = IF t = {} THEN base ELSE G[<<Max(t), it[t \ {Max(t)}]>>]
           S == {m \in Nat : \E it \in [SUBSET (1..m) -> V] : Is(it, m)}
<1>1. 0 \in S
  <2>1. [t \in SUBSET (1..0) |-> base] \in [SUBSET (1..0) -> V]
    OBVIOUS
  <2>2. \A t \in SUBSET (1..0) : t = {}
    OBVIOUS
  <2> QED BY <2>1, <2>2
<1>2. ASSUME NEW m \in Nat, m \in S PROVE m + 1 \in S
  <2>1. PICK it \in [SUBSET (1..m) -> V] : Is(it, m)
    BY <1>2
  <2> DEFINE new == [t \in SUBSET (1..m + 1) |->
                       IF m + 1 \in t THEN G[<<m + 1, it[t \ {m + 1}]>>] ELSE it[t]]
  <2>2. \A t \in SUBSET (1..m + 1) : /\ t \ {m + 1} \in SUBSET (1..m)
                                      /\ m + 1 \notin t => t \in SUBSET (1..m)
    OBVIOUS
  <2>3. new \in [SUBSET (1..m + 1) -> V]
    BY <2>1, <2>2 DEF Steps
  <2>4. ASSUME NEW t \in SUBSET (1..m + 1)
        PROVE  new[t] = IF t = {} THEN base ELSE G[<<Max(t), new[t \ {Max(t)}]>>]
    <3>1. CASE m + 1 \in t
      <4>1. Max(t) = m + 1 /\ t # {}
        BY <3>1, MaxOfInterval
      <4>2. new[t \ {m + 1}] = it[t \ {m + 1}]
        BY <2>2
      <4>3. new[t] = G[<<m + 1, it[t \ {m + 1}]>>]
        BY <3>1
      <4> QED BY <4>1, <4>2, <4>3
    <3>2. CASE m + 1 \notin t /\ t # {}
      <4>1. t \in SUBSET (1..m) /\ new[t] = it[t]
        BY <2>2, <3>2
      <4>2. it[t] = G[<<Max(t), it[t \ {Max(t)}]>>]
        BY <2>1, <3>2, <4>1
      <4>3. m + 1 \notin t \ {Max(t)} /\ t \ {Max(t)} \in SUBSET (1..m + 1)
        BY <3>2
      <4>4. new[t \ {Max(t)}] = it[t \ {Max(t)}]
        BY <4>3
      <4> QED BY <3>2, <4>1, <4>2, <4>4
    <3>3. CASE t = {}
      <4>1. t \in SUBSET (1..m) /\ new[t] = it[t]
        BY <3>3
      <4> QED BY <2>1, <3>3, <4>1
    <3> QED BY <3>1, <3>2, <3>3
  <2> HIDE DEF new
  <2>5. Is(new, m + 1)
    BY <2>4
  <2> HIDE DEF Is
  <2> QED BY <2>3, <2>5
<1> HIDE DEF S
<1>3. n \in S
  BY <1>1, <1>2, NatSetInduction
<1> QED BY <1>3 DEF S, HasFold

(* The values a fold takes, one after another.                              *)
Folds(c, V, base, G, n) ==
  /\ c[{}] = base
  /\ \A t \in SUBSET (1..n) :
       t # {} /\ c[t \ {Max(t)}] \in V => c[t] = G[<<Max(t), c[t \ {Max(t)}]>>]
HasTrace(V, base, G, n, last) ==
  \E it \in [0..n -> V] :
    it[0] = base /\ it[n] = last /\ \A k \in 1..n : it[k] = G[<<k, it[k - 1]>>]

LEMMA FoldTrace ==
  ASSUME NEW V, NEW base \in V, NEW G, Steps(G, V), NEW n \in Nat, NEW c, Folds(c, V, base, G, n)
  PROVE  HasTrace(V, base, G, n, c[1..n])
<1> DEFINE S == {m \in Nat : m <= n => c[1..m] \in V}
           it == [m \in 0..n |-> c[1..m]]
<1>1. 1..0 = {}
  OBVIOUS
<1>2. 0 \in S
  BY <1>1 DEF Folds
<1>3. ASSUME NEW m \in Nat, m + 1 <= n, c[1..m] \in V
      PROVE  c[1..m + 1] = G[<<m + 1, c[1..m]>>] /\ c[1..m + 1] \in V
  <2>1. 1..m + 1 # {} /\ (1..m + 1) \ {m + 1} = 1..m /\ Max(1..m + 1) = m + 1
    BY MaxOfInterval
  <2>2. 1..m + 1 \in SUBSET (1..n)
    BY <1>3
  <2>3. c[1..m + 1] = G[<<m + 1, c[1..m]>>]
    BY <1>3, <2>1, <2>2 DEF Folds
  <2> QED BY <1>3, <2>3 DEF Steps
<1>4. ASSUME NEW m \in Nat, m \in S PROVE m + 1 \in S
  <2>1. CASE m + 1 <= n
    <3>1. m <= n
      BY <2>1
    <3>2. c[1..m] \in V
      BY <1>4, <3>1
    <3>3. c[1..m + 1] \in V
      BY <1>3, <2>1, <3>2
    <3> QED BY <3>3
  <2>2. CASE ~(m + 1 <= n)
    BY <2>2
  <2> QED BY <2>1, <2>2
<1>5. \A m \in Nat : m \in S
  <2> HIDE DEF S
  <2> QED BY <1>2, <1>4, NatSetInduction
<1>6. it \in [0..n -> V]
  BY <1>5
<1>7. \A k \in 1..n : it[k] = G[<<k, it[k - 1]>>]
  <2> TAKE k \in 1..n
  <2>1. k - 1 \in Nat /\ k - 1 \in 0..n /\ k \in 0..n /\ k - 1 + 1 = k
    OBVIOUS
  <2>2. c[1..k - 1] \in V
    BY <2>1, <1>5
  <2>3. c[1..k] = G[<<k, c[1..k - 1]>>]
    BY <1>3, <2>1, <2>2
  <2> QED BY <2>1, <2>3
<1>8. it[0] = base /\ it[n] = c[1..n]
  BY <1>1 DEF Folds
<1> QED BY <1>6, <1>7, <1>8 DEF HasTrace

(***************************************************************************)
(* A list that takes some of the hooks it is offered, at its end: which,   *)
(* the set Takes tells from the list and the hook.  Both the hooks that    *)
(* match a call and those that merge_vec adds are found so.                *)
(***************************************************************************)
Lists == Seq(HookDef)
Taken(Takes, s, h) == IF <<s, h>> \in Takes THEN Append(s, h) ELSE s

Stepwise(Takes, offered) ==
  [p \in Nat \X Lists |->
     IF p[1] \in DOMAIN offered THEN Taken(Takes, p[2], offered[p[1]]) ELSE p[2]]

LEMMA StepwiseTakes ==
  ASSUME NEW Takes, NEW offered \in Lists
  PROVE  /\ Steps(Stepwise(Takes, offered), Lists)
         /\ \A k \in DOMAIN offered, v \in Lists :
              Stepwise(Takes, offered)[<<k, v>>] = Taken(Takes, v, offered[k])
<1> DEFINE G == Stepwise(Takes, offered)
<1>1. \A k \in DOMAIN offered : offered[k] \in HookDef /\ k \in Nat
  BY DEF Lists
<1>2. ASSUME NEW v \in Lists, NEW h \in HookDef PROVE Taken(Takes, v, h) \in Lists
  BY DEF Taken, Lists
<1>3. \A k \in Nat, v \in Lists :
        G[<<k, v>>] = IF k \in DOMAIN offered THEN Taken(Takes, v, offered[k]) ELSE v
  BY DEF Stepwise
<1>4. \A k \in Nat, v \in Lists : G[<<k, v>>] \in Lists
  BY <1>1, <1>2, <1>3
<1>5. G \in [Nat \X Lists -> Lists]
  <2>1. G = [p \in Nat \X Lists |-> G[p]]
    BY DEF Stepwise
  <2>2. \A p \in Nat \X Lists : G[p] \in Lists
    BY <1>4
  <2> QED BY <2>1, <2>2
<1> QED BY <1>1, <1>3, <1>5 DEF Steps

TakesFrom(Takes, base, offered, it) ==
  /\ it \in [SUBSET DOMAIN offered -> Lists]
  /\ \A t \in SUBSET DOMAIN offered :
       it[t] = IF t = {} THEN base ELSE Taken(Takes, it[t \ {Max(t)}], offered[Max(t)])
TakesWhereTyped(Takes, base, offered, c) ==
  \A t \in SUBSET DOMAIN offered :
    IF t = {} THEN c[t] = base
    ELSE c[t \ {Max(t)}] \in Lists => c[t] = Taken(Takes, c[t \ {Max(t)}], offered[Max(t)])
OneByOne(Takes, base, offered, last, it) ==
  /\ it \in [0..Len(offered) -> Lists]
  /\ it[0] = base /\ it[Len(offered)] = last
  /\ \A k \in 1..Len(offered) : it[k] = Taken(Takes, it[k - 1], offered[k])

LEMMA TakenExists ==
  ASSUME NEW Takes, NEW base \in Lists, NEW offered \in Lists
  PROVE  \E it : TakesFrom(Takes, base, offered, it)
<1>1. Len(offered) \in Nat /\ DOMAIN offered = 1..Len(offered)
  BY DEF Lists
<1>2. HasFold(Lists, base, Stepwise(Takes, offered), Len(offered))
  BY <1>1, StepwiseTakes, FoldExists
<1>3. PICK it \in [SUBSET DOMAIN offered -> Lists] : \A t \in SUBSET DOMAIN offered :
        it[t] = IF t = {} THEN base ELSE Stepwise(Takes, offered)[<<Max(t), it[t \ {Max(t)}]>>]
  BY <1>1, <1>2 DEF HasFold
<1>4. ASSUME NEW t \in SUBSET DOMAIN offered, t # {}
      PROVE  it[t] = Taken(Takes, it[t \ {Max(t)}], offered[Max(t)])
  <2>1. Max(t) \in t
    BY <1>1, <1>4, MaxOfBounded
  <2>2. it[t \ {Max(t)}] \in Lists
    <3>1. t \ {Max(t)} \in SUBSET DOMAIN offered
      OBVIOUS
    <3> QED BY <3>1
  <2>3. Max(t) \in DOMAIN offered
    BY <2>1
  <2>4. it[t] = Stepwise(Takes, offered)[<<Max(t), it[t \ {Max(t)}]>>]
    BY <1>3, <1>4
  <2> QED BY <2>2, <2>3, <2>4, StepwiseTakes
<1>5. TakesFrom(Takes, base, offered, it)
  BY <1>3, <1>4 DEF TakesFrom
<1> QED BY <1>5

LEMMA TakenTrace ==
  ASSUME NEW Takes, NEW base \in Lists, NEW offered \in Lists, NEW c,
         TakesWhereTyped(Takes, base, offered, c)
  PROVE  \E it : OneByOne(Takes, base, offered, c[DOMAIN offered], it)
<1>1. Len(offered) \in Nat /\ DOMAIN offered = 1..Len(offered)
  BY DEF Lists
<1>2. c[{}] = base
  BY DEF TakesWhereTyped
<1>3. ASSUME NEW t \in SUBSET (1..Len(offered)), t # {}, c[t \ {Max(t)}] \in Lists
      PROVE  c[t] = Stepwise(Takes, offered)[<<Max(t), c[t \ {Max(t)}]>>]
  <2>1. Max(t) \in DOMAIN offered
    BY <1>1, <1>3, MaxOfBounded
  <2>2. c[t] = Taken(Takes, c[t \ {Max(t)}], offered[Max(t)])
    BY <1>1, <1>3 DEF TakesWhereTyped
  <2> QED BY <1>3, <2>1, <2>2, StepwiseTakes
<1>4. Steps(Stepwise(Takes, offered), Lists)
  BY StepwiseTakes
<1>5. PICK it \in [0..Len(offered) -> Lists] :
        /\ it[0] = base /\ it[Len(offered)] = c[1..Len(offered)]
        /\ \A k \in 1..Len(offered) : it[k] = Stepwise(Takes, offered)[<<k, it[k - 1]>>]
  <2>1. Folds(c, Lists, base, Stepwise(Takes, offered), Len(offered))
    BY <1>2, <1>3 DEF Folds
  <2>2. HasTrace(Lists, base, Stepwise(Takes, offered), Len(offered), c[1..Len(offered)])
    BY <1>1, <1>4, <2>1, FoldTrace
  <2> QED BY <2>2 DEF HasTrace
<1>6. ASSUME NEW k \in 1..Len(offered) PROVE it[k] = Taken(Takes, it[k - 1], offered[k])
  <2>1. k - 1 \in 0..Len(offered) /\ k \in DOMAIN offered
    BY <1>1
  <2>2. it[k - 1] \in Lists
    BY <2>1
  <2>3. Stepwise(Takes, offered)[<<k, it[k - 1]>>] = Taken(Takes, it[k - 1], offered[k])
    BY <2>1, <2>2, StepwiseTakes
  <2> QED BY <1>5, <2>3
<1>7. OneByOne(Takes, base, offered, c[DOMAIN offered], it)
  BY <1>1, <1>5, <1>6 DEF OneByOne
<1> QED BY <1>7

LEMMA AppendRange ==
  ASSUME NEW s \in Seq(HookDef), NEW h
  PROVE  Range(Append(s, h)) = Range(s) \cup {h}
<1>1. Len(s) \in Nat /\ DOMAIN s = 1..Len(s) /\ DOMAIN Append(s, h) = 1..Len(s) + 1
  OBVIOUS
<1>2. \A i \in 1..Len(s) + 1 : Append(s, h)[i] = IF i = Len(s) + 1 THEN h ELSE s[i]
  OBVIOUS
<1> QED BY <1>1, <1>2 DEF Range

(* The hooks that match a call: no others, and none of them is missing.    *)
LEMMA MatchingHooks ==
  ASSUME hooks \in HooksConfig, NEW event \in Events, NEW c
  PROVE  /\ Matching(event, c) \in Lists
         /\ Range(Matching(event, c)) = {h \in Range(hooks[event]) : Matches(h, c)}
<1> DEFINE s == hooks[event]
           Takes == {p \in Lists \X HookDef : Matches(p[2], c)}
           Is(f) == f = [t \in SUBSET DOMAIN s |->
                           IF t = {} THEN <<>>
                           ELSE IF Matches(s[Max(t)], c) THEN Append(f[t \ {Max(t)}], s[Max(t)])
                                                         ELSE f[t \ {Max(t)}]]
<1>1. s \in Lists /\ <<>> \in Lists /\ Len(s) \in Nat /\ DOMAIN s = 1..Len(s)
  BY DEF HooksConfig, Lists
<1>2. \A v \in Lists, i \in DOMAIN s : Taken(Takes, v, s[i])
        = IF Matches(s[i], c) THEN Append(v, s[i]) ELSE v
  <2>1. \A i \in DOMAIN s : s[i] \in HookDef
    BY <1>1 DEF Lists
  <2> QED BY <2>1 DEF Taken
<1> HIDE DEF Takes
<1>3. \A t \in SUBSET DOMAIN s : t # {} => Max(t) \in DOMAIN s /\ t \ {Max(t)} \in SUBSET DOMAIN s
  BY <1>1, MaxOfBounded
<1>4. \E f : Is(f)
  <2>1. PICK it : TakesFrom(Takes, <<>>, s, it)
    BY <1>1, TakenExists
  <2>2. \A t \in SUBSET DOMAIN s :
          it[t] = IF t = {} THEN <<>>
                  ELSE IF Matches(s[Max(t)], c) THEN Append(it[t \ {Max(t)}], s[Max(t)])
                                                ELSE it[t \ {Max(t)}]
    BY <2>1, <1>2, <1>3 DEF TakesFrom
  <2>3. it = [t \in SUBSET DOMAIN s |-> it[t]]
    BY <2>1 DEF TakesFrom
  <2> QED BY <2>2, <2>3
<1>5. Matching(event, c) = (CHOOSE f : Is(f))[DOMAIN s]
  BY DEF Matching, FoldLeft, MapThenFoldSet
<1>6. PICK f : Is(f) /\ Matching(event, c) = f[DOMAIN s]
  BY <1>4, <1>5
<1>7. TakesWhereTyped(Takes, <<>>, s, f)
  BY <1>2, <1>3, <1>6 DEF TakesWhereTyped
<1>8. PICK it : OneByOne(Takes, <<>>, s, f[DOMAIN s], it)
  BY <1>1, <1>7, TakenTrace
<1> DEFINE Found(k) == {h \in {s[i] : i \in 1..k} : Matches(h, c)}
           S == {k \in Nat : k <= Len(s) => Range(it[k]) = Found(k)}
<1>9. 0 \in S
  BY <1>8 DEF Range, OneByOne
<1>10. ASSUME NEW k \in Nat, k \in S PROVE k + 1 \in S
  <2> SUFFICES ASSUME k + 1 <= Len(s) PROVE Range(it[k + 1]) = Found(k + 1)
    OBVIOUS
  <2>1. k \in 0..Len(s) /\ k + 1 \in 1..Len(s) /\ (k + 1) - 1 = k
    BY <1>1
  <2>2. it[k] \in Lists /\ Range(it[k]) = Found(k)
    BY SMTT(20), <1>8, <1>10, <2>1 DEF OneByOne
  <2>3. it[k + 1] = Taken(Takes, it[k], s[k + 1])
    BY <1>8, <2>1 DEF OneByOne
  <2>4. it[k + 1] = IF Matches(s[k + 1], c) THEN Append(it[k], s[k + 1]) ELSE it[k]
    BY <1>1, <1>2, <2>1, <2>2, <2>3
  <2>5. {s[i] : i \in 1..k + 1} = {s[i] : i \in 1..k} \cup {s[k + 1]}
    BY <2>1
  <2>6. Range(Append(it[k], s[k + 1])) = Range(it[k]) \cup {s[k + 1]}
    BY <2>2, AppendRange DEF Lists
  <2> QED BY <2>2, <2>4, <2>5, <2>6
<1> HIDE DEF S
<1>11. Len(s) \in S
  BY <1>1, <1>9, <1>10, NatSetInduction
<1>12. Range(it[Len(s)]) = Found(Len(s)) /\ it[Len(s)] \in Lists
  BY SMTT(20), <1>1, <1>8, <1>11 DEF S, OneByOne
<1>13. Range(s) = {s[i] : i \in 1..Len(s)}
  BY <1>1 DEF Range
<1>14. it[Len(s)] = Matching(event, c)
  BY <1>6, <1>8 DEF OneByOne
<1> QED BY <1>12, <1>13, <1>14

(* merge_vec: the list stays as it is, and each hook behind it is one of   *)
(* those offered, of a name that no hook before it has.                    *)
Extends(longer, list, offered) ==
  /\ longer \in Lists /\ Len(list) <= Len(longer)
  /\ \A i \in 1..Len(list) : longer[i] = list[i]
  /\ \A i \in Len(list) + 1..Len(longer) :
       longer[i] \in Range(offered) /\ \A j \in 1..i - 1 : longer[j].name # longer[i].name

LEMMA ExtendsByOne ==
  ASSUME NEW list \in Lists, NEW offered \in Lists, NEW longer, Extends(longer, list, offered),
         NEW h \in Range(offered), ~Named(longer, h.name)
  PROVE  Extends(Append(longer, h), list, offered)
<1>1. h \in HookDef /\ longer \in Lists /\ Len(longer) \in Nat /\ Len(list) \in Nat
  BY DEF Range, Lists, Extends
<1>2. /\ Append(longer, h) \in Lists /\ Len(Append(longer, h)) = Len(longer) + 1
      /\ \A i \in 1..Len(longer) : Append(longer, h)[i] = longer[i]
      /\ Append(longer, h)[Len(longer) + 1] = h
  BY <1>1 DEF Lists
<1>3. \A j \in 1..Len(longer) : longer[j].name # h.name
  BY <1>1 DEF Named, Range, Lists
<1> DEFINE new == Append(longer, h)
<1> HIDE DEF new
<1>4. new \in Lists /\ Len(new) = Len(longer) + 1 /\ new[Len(longer) + 1] = h
      /\ \A i \in 1..Len(longer) : new[i] = longer[i]
  BY <1>2 DEF new
<1>5. ASSUME NEW i \in Len(list) + 1..Len(new)
      PROVE  new[i] \in Range(offered) /\ \A j \in 1..i - 1 : new[j].name # new[i].name
  <2>1. CASE i = Len(longer) + 1
    BY <1>1, <1>3, <1>4, <2>1
  <2>2. CASE i # Len(longer) + 1
    <3>1. i \in Len(list) + 1..Len(longer) /\ i \in 1..Len(longer)
      BY <1>1, <1>4, <2>2
    <3>2. \A j \in 1..i - 1 : j \in 1..Len(longer)
      BY <1>1, <3>1
    <3> QED BY <1>4, <3>1, <3>2 DEF Extends
  <2> QED BY <2>1, <2>2
<1>6. Extends(new, list, offered)
  <2>1. Len(list) <= Len(longer) /\ \A i \in 1..Len(list) : longer[i] = list[i]
    BY DEF Extends
  <2>2. Len(list) <= Len(new) /\ \A i \in 1..Len(list) : new[i] = list[i]
    BY <1>1, <1>4, <2>1
  <2> QED BY <1>4, <1>5, <2>2 DEF Extends
<1> QED BY <1>6 DEF new

LEMMA MergedHooks ==
  ASSUME NEW list \in Lists, NEW offered \in Lists
  PROVE  Extends(MergeVec(list, offered), list, offered)
<1> DEFINE Takes == {p \in Lists \X HookDef : ~Named(p[1], p[2].name)}
           Is(f) == f = [t \in SUBSET DOMAIN offered |->
                           IF t = {} THEN list
                           ELSE IF Named(f[t \ {Max(t)}], offered[Max(t)].name) THEN f[t \ {Max(t)}]
                                ELSE Append(f[t \ {Max(t)}], offered[Max(t)])]
<1>1. Len(offered) \in Nat /\ DOMAIN offered = 1..Len(offered)
  BY DEF Lists
<1>2. \A v \in Lists, i \in DOMAIN offered : Taken(Takes, v, offered[i])
        = IF Named(v, offered[i].name) THEN v ELSE Append(v, offered[i])
  <2>1. \A i \in DOMAIN offered : offered[i] \in HookDef
    BY <1>1 DEF Lists
  <2> QED BY <2>1 DEF Taken
<1> HIDE DEF Takes
<1>3. \A t \in SUBSET DOMAIN offered :
        t # {} => Max(t) \in DOMAIN offered /\ t \ {Max(t)} \in SUBSET DOMAIN offered
  BY <1>1, MaxOfBounded
<1>4. \E f : Is(f)
  <2>1. PICK it : TakesFrom(Takes, list, offered, it)
    BY <1>1, TakenExists
  <2>2. \A t \in SUBSET DOMAIN offered :
          it[t] = IF t = {} THEN list
                  ELSE IF Named(it[t \ {Max(t)}], offered[Max(t)].name) THEN it[t \ {Max(t)}]
                       ELSE Append(it[t \ {Max(t)}], offered[Max(t)])
    BY <2>1, <1>2, <1>3 DEF TakesFrom
  <2>3. it = [t \in SUBSET DOMAIN offered |-> it[t]]
    BY <2>1 DEF TakesFrom
  <2> QED BY <2>2, <2>3
<1>5. MergeVec(list, offered) = (CHOOSE f : Is(f))[DOMAIN offered]
  BY DEF MergeVec, FoldLeft, MapThenFoldSet
<1>6. PICK f : Is(f) /\ MergeVec(list, offered) = f[DOMAIN offered]
  BY <1>4, <1>5
<1>7. TakesWhereTyped(Takes, list, offered, f)
  BY <1>2, <1>3, <1>6 DEF TakesWhereTyped
<1>8. PICK it : OneByOne(Takes, list, offered, f[DOMAIN offered], it)
  BY <1>1, <1>7, TakenTrace
<1> DEFINE S == {k \in Nat : k <= Len(offered) => Extends(it[k], list, offered)}
<1>9. 0 \in S
  <2>1. Extends(list, list, offered)
    BY DEF Extends, Lists
  <2> QED BY <1>8, <2>1 DEF OneByOne
<1>10. ASSUME NEW k \in Nat, k \in S PROVE k + 1 \in S
  <2> SUFFICES ASSUME k + 1 <= Len(offered) PROVE Extends(it[k + 1], list, offered)
    OBVIOUS
  <2>1. k \in 0..Len(offered) /\ k + 1 \in 1..Len(offered) /\ (k + 1) - 1 = k
    BY <1>1
  <2>2. it[k] \in Lists /\ Extends(it[k], list, offered)
    BY <1>8, <1>10, <2>1 DEF OneByOne
  <2>3. it[k + 1] = Taken(Takes, it[k], offered[k + 1])
    BY <1>8, <2>1 DEF OneByOne
  <2>4. it[k + 1] = IF Named(it[k], offered[k + 1].name) THEN it[k]
                    ELSE Append(it[k], offered[k + 1])
    BY <1>1, <1>2, <2>1, <2>2, <2>3
  <2>5. offered[k + 1] \in Range(offered)
    BY <1>1, <2>1 DEF Range
  <2> QED BY <2>2, <2>4, <2>5, ExtendsByOne
<1> HIDE DEF S
<1>11. Len(offered) \in S
  BY <1>1, <1>9, <1>10, NatSetInduction
<1>12. Extends(it[Len(offered)], list, offered)
  BY <1>1, <1>11 DEF S
<1>13. it[Len(offered)] = MergeVec(list, offered)
  BY <1>6, <1>8 DEF OneByOne
<1> QED BY <1>12, <1>13

-----------------------------------------------------------------------------
(* Hooks, tools and the session use commands through their steps alone.    *)
LEMMA UsesRunner ==
  ASSUME [Next]_vars
  PROVE  ProcessStep \/ UNCHANGED pvars
BY DEF Next, Agent, CallStart, HookStart, PreHookDone, PreHooksDone, ToolStart, ToolDone,
       ToolReturns, LaterHookDone, CallEnd, Stop, Drop, SessionEnd, SessionEnded, vars,
       ProcessStep

(***************************************************************************)
(* The invariant of a call.  Each matching pre hook is still to run or     *)
(* passed; a tool that runs a command is one that starts one, and what did *)
(* not fail as a skill is a skill that may run; the hooks are the          *)
(* configured ones and what allowed skills added.                          *)
(***************************************************************************)
PreInv ==
  phase = "pre" =>
    \A h \in Range(hooks["pre"]) : Matches(h, call) => h \in passed \cup Range(todo)

ToolInv ==
  /\ phase \notin {"tool", "post"} => ~ran
  /\ phase = "tool" /\ ran => StartsCommand
  /\ phase = "post" /\ ~failed /\ call.tool = "Skill" => SkillRuns

CallsInv == TypeOK /\ PreInv /\ ToolInv /\ OnlyPassedCallsRun /\ HooksAsAllowed

(* The hooks that a skill adds: those it may, behind the ones there are.   *)
LEMMA AddedHooks ==
  ASSUME hooks \in HooksConfig, NEW s \in Skills, MergeHooks(SkillOf[s].hooks)
  PROVE  /\ hooks' \in HooksConfig
         /\ \A e \in Events : Extends(hooks'[e], hooks[e], SkillOf[s].hooks[e])
<1>1. SkillOf[s].hooks \in HooksConfig
  BY HooksAssumption
<1>2. \A e \in Events : hooks[e] \in Lists /\ SkillOf[s].hooks[e] \in Lists
  BY <1>1 DEF HooksConfig, Lists
<1>3. \A e \in Events : hooks'[e] = MergeVec(hooks[e], SkillOf[s].hooks[e])
  BY DEF MergeHooks
<1>4. \A e \in Events : Extends(hooks'[e], hooks[e], SkillOf[s].hooks[e])
  BY <1>2, <1>3, MergedHooks
<1>5. hooks' = [e \in Events |-> hooks'[e]]
  BY DEF MergeHooks
<1>6. \A e \in Events : hooks'[e] \in Seq(HookDef)
  BY <1>4 DEF Extends, Lists
<1>7. hooks' \in HooksConfig
  BY <1>5, <1>6 DEF HooksConfig
<1> QED BY <1>4, <1>7

LEMMA CallsTypeStep ==
  ASSUME TypeOK, ToolInv, ProcessTypeOK', [Next]_vars
  PROVE  TypeOK'
<1>1. NoCall \notin Calls /\ \A c \in Calls : c.tool = "Skill" => c.skill \in Skills \cup {None}
  BY DEF NoCall, Calls, None
<1>e. <<>> \in Seq(HookDef)
  OBVIOUS
<1>t. ASSUME todo # <<>> PROVE Head(todo) \in HookDef /\ Tail(todo) \in Seq(HookDef)
  BY <1>t DEF TypeOK
<1>2. CASE CallStart
  <2>1. PICK c \in Calls : call' = c /\ todo' = Matching("pre", c)
    BY <1>2 DEF CallStart
  <2>2. todo' \in Seq(HookDef)
    BY <2>1, MatchingHooks DEF TypeOK, Events, Lists
  <2> QED BY <1>1, <1>2, <2>1, <2>2, CallsAssumption DEF TypeOK, CallStart
<1>3. CASE HookStart \/ UNCHANGED cvars
  BY <1>3 DEF TypeOK, HookStart, cvars
<1>4. CASE PreHookDone
  <2>1. CASE HookSucceeds(outcome)
    BY <1>4, <2>1, <1>t DEF TypeOK, PreHookDone
  <2>2. CASE ~HookSucceeds(outcome)
    BY <1>4, <2>2, <1>e DEF TypeOK, PreHookDone, Answered
  <2> QED BY <2>1, <2>2
<1>5. CASE PreHooksDone \/ ToolStart
  BY <1>5 DEF TypeOK, PreHooksDone, ToolStart
<1>p. ASSUME NEW failure \in BOOLEAN, phase = "tool", ToPost(failure) PROVE TypeOK'
  <2>1. todo' \in Seq(HookDef)
    BY <1>p, MatchingHooks DEF ToPost, TypeOK, Events, Lists
  <2> QED BY <1>p, <2>1 DEF TypeOK, ToPost
<1>6. CASE ToolDone
  BY <1>6, <1>p DEF ToolDone, ExecFails, SkillCommandFails
<1>7. CASE ToolReturns
  BY <1>7, <1>p DEF ToolReturns
<1>8. CASE LaterHookDone
  BY <1>8, <1>t DEF TypeOK, LaterHookDone
<1>9. CASE CallEnd
  <2>1. CASE ~failed /\ call.tool = "Skill" /\ HooksOf(call.skill)
    <3>1. call.skill \in Skills /\ MergeHooks(SkillOf[call.skill].hooks)
      BY <1>9, <2>1 DEF CallEnd, ToolInv, SkillRuns
    <3>2. PICK s \in Skills : s = call.skill
      BY <3>1
    <3>3. MergeHooks(SkillOf[s].hooks)
      BY <3>1, <3>2
    <3>4. hooks' \in HooksConfig
      BY <3>2, <3>3, AddedHooks DEF TypeOK
    <3> QED BY <1>9, <3>4, <1>e DEF TypeOK, CallEnd, Answered
  <2>2. CASE ~(~failed /\ call.tool = "Skill" /\ HooksOf(call.skill))
    BY <1>9, <2>2, <1>e DEF TypeOK, CallEnd, Answered
  <2> QED BY <2>1, <2>2
<1>10. CASE Stop
  BY <1>10, <1>e DEF TypeOK, Stop, Answered
<1>11. CASE SessionEnd \/ SessionEnded
  BY <1>11 DEF TypeOK, SessionEnd, SessionEnded, HooksConfig, Events
<1>12. CASE UNCHANGED vars
  BY <1>12 DEF TypeOK, vars, cvars
<1>13. CASE Agent
  BY <1>13, <1>2, <1>3, <1>4, <1>5, <1>6, <1>7, <1>8, <1>9, <1>10, <1>11 DEF Agent
<1> QED BY <1>3, <1>12, <1>13 DEF Next

(* The list of hooks changes with the end of a call only.                  *)
LEMMA HooksStep ==
  ASSUME TypeOK, ToolInv, HooksAsAllowed, [Next]_vars
  PROVE  HooksAsAllowed' /\ (hooks' = hooks \/ phase' = "ready")
<1>1. CASE UNCHANGED hooks
  BY <1>1 DEF HooksAsAllowed
<1>2. ASSUME CallEnd, ~UNCHANGED hooks PROVE HooksAsAllowed' /\ phase' = "ready"
  <2>1. /\ call.tool = "Skill" /\ HooksOf(call.skill) /\ SkillRuns /\ phase' = "ready"
        /\ MergeHooks(SkillOf[call.skill].hooks)
    BY <1>2 DEF CallEnd, Answered, ToolInv
  <2>2. PICK s \in Skills : s = call.skill
    BY <2>1 DEF SkillRuns
  <2>3. MayAct(s)
    BY <2>1, <2>2 DEF MayAct, HooksOf, SkillRuns
  <2>4. hooks' \in HooksConfig /\ \A e \in Events : Extends(hooks'[e], hooks[e], SkillOf[s].hooks[e])
    BY <2>1, <2>2, AddedHooks DEF TypeOK
  <2>5. PICK config \in HookConfigs : \A e \in Events :
          /\ IsPrefix(config[e], hooks[e])
          /\ \A i \in Len(config[e]) + 1..Len(hooks[e]) :
               /\ \E q \in Skills : MayAct(q) /\ hooks[e][i] \in Range(SkillOf[q].hooks[e])
               /\ \A j \in 1..i - 1 : hooks[e][j].name # hooks[e][i].name
    BY DEF HooksAsAllowed
  <2>6. ASSUME NEW e \in Events
        PROVE  /\ IsPrefix(config[e], hooks'[e])
               /\ \A i \in Len(config[e]) + 1..Len(hooks'[e]) :
                    /\ \E q \in Skills : MayAct(q) /\ hooks'[e][i] \in Range(SkillOf[q].hooks[e])
                    /\ \A j \in 1..i - 1 : hooks'[e][j].name # hooks'[e][i].name
    <3> DEFINE new == hooks'[e]
               old == hooks[e]
               c == config[e]
               added == SkillOf[s].hooks[e]
    <3>1. old \in Lists /\ c \in Lists /\ new \in Lists /\ Extends(new, old, added)
      BY <2>4, HooksAssumption DEF TypeOK, HooksConfig, Lists
    <3>2. /\ IsPrefix(c, old)
          /\ \A i \in Len(c) + 1..Len(old) :
               /\ \E q \in Skills : MayAct(q) /\ old[i] \in Range(SkillOf[q].hooks[e])
               /\ \A j \in 1..i - 1 : old[j].name # old[i].name
      BY <2>5
    <3> HIDE DEF new, old, c
    <3>3. Len(new) \in Nat /\ Len(old) \in Nat /\ Len(c) \in Nat /\ Len(c) <= Len(old) /\ Len(old) <= Len(new)
      BY <3>1, <3>2 DEF Lists, Extends, IsPrefix
    <3>4. \A i \in 1..Len(old) : new[i] = old[i]
      BY <3>1 DEF Extends
    <3>5. SubSeq(new, 1, Len(c)) = SubSeq(old, 1, Len(c))
      <4>1. \A i \in 1..Len(c) : i \in 1..Len(old) /\ i \in 1..Len(new)
        BY <3>3
      <4>2. /\ SubSeq(new, 1, Len(c)) = [i \in 1..Len(c) |-> new[i]]
            /\ SubSeq(old, 1, Len(c)) = [i \in 1..Len(c) |-> old[i]]
        BY <3>1, <3>3 DEF Lists
      <4> QED BY <3>4, <4>1, <4>2
    <3>6. IsPrefix(c, new)
      BY <3>2, <3>3, <3>5 DEF IsPrefix
    <3>7. ASSUME NEW i \in Len(c) + 1..Len(new)
          PROVE  /\ \E q \in Skills : MayAct(q) /\ new[i] \in Range(SkillOf[q].hooks[e])
                 /\ \A j \in 1..i - 1 : new[j].name # new[i].name
      <4>1. CASE i \in Len(old) + 1..Len(new)
        BY <2>3, <3>1, <4>1 DEF Extends
      <4>2. CASE i \notin Len(old) + 1..Len(new)
        <5>1. i \in Len(c) + 1..Len(old) /\ i \in 1..Len(old) /\ \A j \in 1..i - 1 : j \in 1..Len(old)
          BY <3>3, <4>2
        <5> QED BY <3>2, <3>4, <5>1
      <4> QED BY <4>1, <4>2
    <3> QED BY <3>6, <3>7 DEF new, c
  <2> QED BY <2>1, <2>6 DEF HooksAsAllowed
<1>3. CASE Agent /\ ~CallEnd
  BY <1>1, <1>3
     DEF Agent, CallStart, HookStart, PreHookDone, PreHooksDone, ToolStart, ToolDone, ToolReturns,
         ToPost, LaterHookDone, Stop, SessionEnd, SessionEnded, cvars
<1>4. CASE UNCHANGED cvars \/ UNCHANGED vars
  BY <1>1, <1>4 DEF cvars, vars
<1> QED BY <1>1, <1>2, <1>3, <1>4 DEF Next

(* A call gets past its pre hooks with each of them passed.                *)
LEMMA CallStep ==
  ASSUME TypeOK, PreInv, ToolInv, OnlyPassedCallsRun, [Next]_vars
  PROVE  PreInv' /\ ToolInv' /\ OnlyPassedCallsRun'
<1> DEFINE Goal == PreInv' /\ ToolInv' /\ OnlyPassedCallsRun'
<1>a. SUFFICES Goal
  OBVIOUS
<1>1. ASSUME phase' \notin {"pre", "tool", "post"}, ~ran' PROVE Goal
  BY <1>1 DEF PreInv, ToolInv, OnlyPassedCallsRun
<1>2. ASSUME UNCHANGED <<hooks, phase, call, todo, failed, passed, ran>> PROVE Goal
  BY <1>2 DEF PreInv, ToolInv, OnlyPassedCallsRun, Matches, StartsCommand, SkillRuns
<1>3. CASE CallStart
  <2>1. PICK c \in Calls : call' = c /\ todo' = Matching("pre", c)
    BY <1>3 DEF CallStart
  <2>2. phase = "ready" /\ phase' = "pre" /\ UNCHANGED <<hooks, passed, ran>>
    BY <1>3 DEF CallStart
  <2>3. Range(todo') = {h \in Range(hooks["pre"]) : Matches(h, c)}
    BY <2>1, MatchingHooks DEF TypeOK, Events
  <2>4. PreInv'
    BY <2>1, <2>2, <2>3 DEF PreInv, Matches
  <2> QED BY <2>2, <2>4 DEF ToolInv, OnlyPassedCallsRun
<1>4. CASE HookStart \/ UNCHANGED cvars \/ UNCHANGED vars
  BY <1>2, <1>4 DEF HookStart, cvars, vars
<1>5. CASE PreHookDone
  <2>1. CASE HookSucceeds(outcome)
    <3>1. /\ phase = "pre" /\ todo # <<>> /\ todo' = Tail(todo)
          /\ UNCHANGED <<hooks, phase, call, failed, ran>> /\ passed' = passed \cup {Head(todo)}
      BY <1>5, <2>1 DEF PreHookDone, HookSucceeds
    <3>2. Range(todo) \subseteq {Head(todo)} \cup Range(Tail(todo))
      <4>1. todo \in Seq(HookDef)
        BY DEF TypeOK
      <4>2. ASSUME NEW i \in 1..Len(todo), i # 1 PROVE todo[i] \in Range(Tail(todo))
        <5>1. i - 1 \in 1..Len(Tail(todo)) /\ Tail(todo)[i - 1] = todo[i]
          BY <3>1, <4>1, <4>2
        <5>2. DOMAIN Tail(todo) = 1..Len(Tail(todo))
          BY <3>1, <4>1
        <5> QED BY <5>1, <5>2 DEF Range
      <4>3. DOMAIN todo = 1..Len(todo) /\ Head(todo) = todo[1]
        BY <3>1, <4>1
      <4> QED BY <4>2, <4>3 DEF Range
    <3>3. PreInv'
      BY <3>1, <3>2 DEF PreInv, Matches
    <3> QED BY <3>1, <3>3 DEF ToolInv, OnlyPassedCallsRun
  <2>2. CASE ~HookSucceeds(outcome)
    BY <1>1, <1>5, <2>2 DEF PreHookDone, Answered
  <2> QED BY <2>1, <2>2
<1>6. CASE PreHooksDone
  <2>1. /\ phase = "pre" /\ todo = <<>> /\ phase' = "tool"
        /\ UNCHANGED <<hooks, call, failed, passed, ran>>
    BY <1>6 DEF PreHooksDone
  <2>2. Range(todo) = {}
    BY <2>1 DEF Range
  <2>3. OnlyPassedCallsRun'
    BY <2>1, <2>2 DEF OnlyPassedCallsRun, PreInv, Matches
  <2> QED BY <2>1, <2>3 DEF PreInv, ToolInv
<1>7. CASE ToolStart
  <2>1. phase = "tool" /\ StartsCommand /\ UNCHANGED <<hooks, phase, call, todo, failed, passed>>
    BY <1>7 DEF ToolStart
  <2> QED BY <2>1 DEF PreInv, ToolInv, OnlyPassedCallsRun, Matches, StartsCommand, SkillRuns
<1>8. ASSUME NEW failure, phase = "tool", ToPost(failure),
             ~failure /\ call.tool = "Skill" => SkillRuns
      PROVE  Goal
  BY <1>8 DEF ToPost, PreInv, ToolInv, OnlyPassedCallsRun, Matches, SkillRuns
<1>9. CASE ToolDone
  <2>1. phase = "tool" /\ StartsCommand
    BY <1>9 DEF ToolDone, ToolInv
  <2>2. call.tool = "Skill" => SkillRuns
    BY <2>1 DEF StartsCommand
  <2> QED BY <1>8, <1>9, <2>2 DEF ToolDone
<1>10. CASE ToolReturns
  BY <1>8, <1>10 DEF ToolReturns
<1>11. CASE LaterHookDone
  <2>1. phase \in {"post", "stop"} /\ UNCHANGED <<hooks, phase, call, failed, passed, ran>>
    BY <1>11 DEF LaterHookDone
  <2> QED BY <2>1 DEF PreInv, ToolInv, OnlyPassedCallsRun, Matches, StartsCommand, SkillRuns
<1>12. CASE CallEnd \/ Stop
  BY <1>1, <1>12 DEF CallEnd, Stop, Answered
<1>13. CASE SessionEnd \/ SessionEnded
  BY <1>1, <1>13 DEF SessionEnd, SessionEnded, ToolInv
<1>14. CASE Agent
  BY <1>14, <1>3, <1>4, <1>5, <1>6, <1>7, <1>9, <1>10, <1>11, <1>12, <1>13 DEF Agent
<1> QED BY <1>4, <1>14 DEF Next

LEMMA CommandsInvariant == Spec => [](ProcessInv /\ CallsInv)
<1>1. Init => ProcessInv /\ CallsInv
  <2> SUFFICES ASSUME Init PROVE ProcessInv /\ CallsInv
    OBVIOUS
  <2>1. ProcessInv
    BY ProcessInitInv DEF Init
  <2>2. ProcessTypeOK
    BY <2>1 DEF ProcessInv
  <2>3. 0 \in 0..MaxCalls /\ <<>> \in Seq(HookDef)
    BY CallsAssumption
  <2>4. hooks \in HookConfigs /\ hooks \in HooksConfig
    BY HooksAssumption DEF Init
  <2>5. TypeOK
    BY <2>2, <2>3, <2>4 DEF Init, TypeOK
  <2>6. PreInv /\ ToolInv /\ OnlyPassedCallsRun
    BY DEF Init, PreInv, ToolInv, OnlyPassedCallsRun
  <2>7. HooksAsAllowed
    <3>1. \A e \in Events : hooks[e] \in Seq(HookDef)
      BY <2>4 DEF HooksConfig
    <3>2. \A e \in Events : IsPrefix(hooks[e], hooks[e]) /\ Len(hooks[e]) + 1..Len(hooks[e]) = {}
      BY <3>1 DEF IsPrefix
    <3> QED BY <2>4, <3>2 DEF HooksAsAllowed
  <2> QED BY <2>1, <2>5, <2>6, <2>7 DEF CallsInv
<1>2. ProcessInv /\ CallsInv /\ [Next]_vars => (ProcessInv /\ CallsInv)'
  <2> SUFFICES ASSUME ProcessInv, CallsInv, [Next]_vars PROVE (ProcessInv /\ CallsInv)'
    OBVIOUS
  <2>1. ProcessInv'
    BY UsesRunner, AnyProcessStep
  <2>2. TypeOK'
    BY <2>1, CallsTypeStep DEF ProcessInv, CallsInv
  <2>3. HooksAsAllowed' /\ PreInv' /\ ToolInv' /\ OnlyPassedCallsRun'
    BY HooksStep, CallStep DEF CallsInv
  <2> QED BY <2>1, <2>2, <2>3 DEF CallsInv
<1> QED BY <1>1, <1>2, PTL DEF Spec

(* The state of commands and calls is always of its types.                 *)
THEOREM CommandsTypeCorrect == Spec => []TypeOK
<1>1. CallsInv => TypeOK
  BY DEF CallsInv
<1> QED BY CommandsInvariant, <1>1, PTL

(* However the processes of a command fork, write, leave their group and   *)
(* exit, and whatever fails or times out, its result is true of them: a    *)
(* timeout leaves nothing but what left the group, no result the child,    *)
(* and output is missing only where a reader was aborted.                  *)
THEOREM ResultsAreTrue == Spec => []ResultIsTrue
<1>1. ProcessInv => ResultIsTrue
  BY DEF ProcessInv
<1> QED BY CommandsInvariant, <1>1, PTL

(* No call slips past a hook: when its tool runs, every pre hook that      *)
(* matches it, configured or added by a skill, ended with exit code 0,     *)
(* whatever hooks there are and in whatever order skills add them.         *)
THEOREM HooksGuardEveryCall == Spec => []OnlyPassedCallsRun
<1>1. CallsInv => OnlyPassedCallsRun
  BY DEF CallsInv
<1> QED BY CommandsInvariant, <1>1, PTL

(* A skill starts a command, and adds hooks, only if it is no content of a *)
(* server and its permission allows it; and what is added comes behind     *)
(* what is there, under new names.                                         *)
THEOREM SkillsKeepWithinBounds == Spec => []SkillsStayBounded
<1>1. CallsInv => SkillsStayBounded
  BY DEF CallsInv, SkillsStayBounded, SkillsKeepTheirBounds, ToolInv, StartsCommand, SkillRuns,
         Embeds, MayAct
<1> QED BY CommandsInvariant, <1>1, PTL
=============================================================================
