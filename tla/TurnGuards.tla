----------------------------- MODULE TurnGuards -----------------------------
(***************************************************************************)
(* The guards that end a run which makes no progress                       *)
(* (crates/tjuae-agent/src/turn.rs and tool_call.rs): the turn budget, the *)
(* malformed-call breaker, and three breakers for failing tool calls: the  *)
(* same failure over and over, a cycle of failures, and rounds in which    *)
(* everything failed.                                                      *)
(*                                                                         *)
(* A fingerprint is what the trackers compare of a round: the names and    *)
(* inputs of its failed (or malformed) calls.                              *)
(***************************************************************************)
EXTENDS Integers, Sequences

CONSTANTS
  Failures,        \* fingerprints of failing rounds
  Malformed,       \* fingerprints of all-malformed rounds
  None,
  MaxTurns,        \* max_turns_per_run
  MalformedLimit,  \* max_tool_call_malformed_turns, 0 to disable
  FailureLimits    \* values of max_tool_call_failure_turns, 0 to disable

ASSUME LimitsAssumption ==
  /\ MaxTurns \in Nat \ {0} /\ MalformedLimit \in Nat /\ FailureLimits \subseteq Nat
ASSUME FingerprintsAssumption == None \notin Failures \cup Malformed

AllErrorLimit == 8
CycleLimit == 3
MaxPeriod == 4
ExactWarning == 2
AllErrorWarning == 3
CycleWarning == 2

VARIABLES
  failureLimit, \* the configured limit
  turns,        \* counted turns
  malformed,    \* [last, count]: the malformed tracker
  failure,      \* [last, count]: the exact-failure tracker
  allErrors,    \* count of the all-error tracker
  history,      \* the cycle tracker's recent fingerprints
  cycleWarned,  \* tool_call_cycle_warning_emitted
  status,       \* "running" or how the run ended
  \* observers, used by the properties only
  streak,       \* failures since the last round without one, unless the limit is 0
  errorStreak,  \* all-error rounds since the last other round
  badStreak,    \* malformed rounds since the last other round
  warned        \* a warning was given in this streak

trackers == <<malformed, failure, allErrors, history, cycleWarned>>
observers == <<streak, errorStreak, badStreak, warned>>
vars == <<failureLimit, turns, trackers, status, observers>>

Rounds ==
  {r \in [malformed : Malformed \cup {None}, failure : Failures \cup {None},
          allError : BOOLEAN] :
     /\ r.malformed # None => r.failure = None
     /\ r.allError => r.failure # None}

Endings == {"answer", "tool_failure", "turn_budget", "malformed"}

TypeOK ==
  /\ failureLimit \in FailureLimits /\ turns \in 0..MaxTurns
  /\ malformed.last \in Malformed \cup {None} /\ malformed.count \in 0..MaxTurns
  /\ failure.last \in Failures \cup {None} /\ failure.count \in 0..MaxTurns
  /\ allErrors \in 0..MaxTurns
  /\ history \in Seq(Failures) /\ Len(history) <= MaxPeriod * CycleLimit
  /\ cycleWarned \in BOOLEAN
  /\ status \in {"running"} \cup Endings
  /\ streak \in Seq(Failures) /\ badStreak \in Seq(Malformed)
  /\ errorStreak \in 0..MaxTurns /\ warned \in BOOLEAN

NoneSeen == [last |-> None, count |-> 0]

Init ==
  /\ failureLimit \in FailureLimits
  /\ turns = 0 /\ status = "running"
  /\ malformed = NoneSeen /\ failure = NoneSeen
  /\ allErrors = 0 /\ history = <<>> /\ cycleWarned = FALSE
  /\ streak = <<>> /\ errorStreak = 0 /\ badStreak = <<>> /\ warned = FALSE

-----------------------------------------------------------------------------
(* The trackers *)

ObserveNoReset(tracker, current) == \* mutant: a round without the failure keeps the count
  IF current = None THEN tracker
  ELSE [last |-> current,
        count |-> IF tracker.last = current THEN tracker.count + 1 ELSE 1]

Observe(tracker, current) ==
  IF current = None THEN NoneSeen
  ELSE [last |-> current,
        count |-> IF tracker.last = current THEN tracker.count + 1 ELSE 1]

(* A limit of 0 disables the tracker.                                      *)
Exceeded(count, limit) == limit > 0 /\ count >= limit

ObserveAllError(allError) == IF allError THEN allErrors + 1 ELSE 0

ObserveHistoryShort(current) == \* mutant: the history is one round too short
  IF failureLimit = 0 \/ current = None THEN <<>>
  ELSE LET h == Append(history, current)
       IN IF Len(h) > MaxPeriod * CycleLimit - 1 THEN Tail(h) ELSE h

ObserveHistoryUnbounded(current) == \* mutant: the history is never trimmed
  IF failureLimit = 0 \/ current = None THEN <<>> ELSE Append(history, current)

ObserveHistory(current) ==
  IF failureLimit = 0 \/ current = None THEN <<>>
  ELSE LET h == Append(history, current)
       IN IF Len(h) > MaxPeriod * CycleLimit THEN Tail(h) ELSE h

(* How often the last period rounds of h repeat, back from its end.        *)
Repetitions(h, period) ==
  LET repeats(r) == \A i \in 1..(r - 1) * period :
                      h[Len(h) - i + 1] = h[Len(h) - i + 1 - period]
  IN CHOOSE r \in 1..Len(h) \div period :
       repeats(r) /\ \A q \in 1..Len(h) \div period : repeats(q) => q <= r

NoCycle == [period |-> 0, repetitions |-> 0]

(* The cycle with most repetitions, of those the shortest; a cycle has at  *)
(* least two.                                                              *)
DetectCycle(h) ==
  LET cycles == {[period |-> p, repetitions |-> Repetitions(h, p)] :
                   p \in {q \in 2..MaxPeriod : q <= Len(h) \div 2}}
      better(c, d) == \/ c.repetitions > d.repetitions
                      \/ c.repetitions = d.repetitions /\ c.period <= d.period
      best == CHOOSE c \in cycles : \A d \in cycles : better(c, d)
  IN IF cycles = {} \/ best.repetitions < 2 THEN NoCycle ELSE best

-----------------------------------------------------------------------------
BudgetReached(n) == n >= MaxTurns

AllErrorTrackerLimit == IF failureLimit > 0 THEN AllErrorLimit ELSE 0

(* after_tool_round, reading the trackers after they observed the round.   *)
(* What ends the run is asked first, in this order, then what warns.       *)
Verdict(mal, fail, errors, cycle, n) ==
  IF Exceeded(mal.count, MalformedLimit) THEN "malformed"
  ELSE IF \/ Exceeded(fail.count, failureLimit)
          \/ cycle.repetitions >= CycleLimit
          \/ Exceeded(errors, AllErrorTrackerLimit)
  THEN "tool_failure"
  ELSE IF BudgetReached(n) THEN "turn_budget"
  ELSE "running"

WarningOnlyAllError(fail, errors, cycle) == \* mutant: only all-error rounds are warned of
  IF AllErrorTrackerLimit > AllErrorWarning /\ errors = AllErrorWarning THEN "all_error"
  ELSE "no"

Warning(fail, errors, cycle) ==
  IF failureLimit > ExactWarning /\ fail.count = ExactWarning THEN "exact"
  ELSE IF cycle.repetitions = CycleWarning /\ ~cycleWarned THEN "cycle"
  ELSE IF AllErrorTrackerLimit > AllErrorWarning /\ errors = AllErrorWarning THEN "all_error"
  ELSE "no"

ToolRoundMalformedUncounted(r) == \* mutant: a malformed round is not counted as a turn
  LET mal == Observe(malformed, r.malformed)
      fail == Observe(failure, r.failure)
      errors == ObserveAllError(r.allError)
      seen == ObserveHistory(r.failure)
  IN /\ status = "running" /\ ~BudgetReached(turns)
     /\ turns' = IF r.malformed = None THEN turns + 1 ELSE turns
     /\ status' = Verdict(mal, fail, errors, DetectCycle(seen), turns')
     /\ malformed' = mal /\ failure' = fail /\ allErrors' = errors /\ history' = seen
     /\ UNCHANGED <<failureLimit, cycleWarned, observers>>

(* One turn that calls tools.  A malformed breaker that trips ends the run *)
(* before the other trackers see the round, which nothing reads any more.  *)
ToolRound(r) ==
  LET mal == Observe(malformed, r.malformed)
      fail == Observe(failure, r.failure)
      errors == ObserveAllError(r.allError)
      seen == ObserveHistory(r.failure)
      cycle == DetectCycle(seen)
      verdict == Verdict(mal, fail, errors, cycle, turns + 1)
      warning == IF verdict = "running" THEN Warning(fail, errors, cycle) ELSE "no"
  IN /\ status = "running" /\ ~BudgetReached(turns)
     /\ turns' = turns + 1
     /\ status' = verdict
     /\ malformed' = mal /\ failure' = fail /\ allErrors' = errors /\ history' = seen
     /\ cycleWarned' = (cycle # NoCycle /\ (cycleWarned \/ warning = "cycle"))
     /\ streak' = IF failureLimit = 0 \/ r.failure = None THEN <<>> ELSE Append(streak, r.failure)
     /\ errorStreak' = IF r.allError THEN errorStreak + 1 ELSE 0
     /\ badStreak' = IF r.malformed = None THEN <<>> ELSE Append(badStreak, r.malformed)
     /\ warned' = (r.failure # None /\ (warned \/ warning # "no"))
     /\ UNCHANGED failureLimit

(* A turn without tool calls ends the loop.                                *)
Answer ==
  /\ status = "running" /\ ~BudgetReached(turns)
  /\ status' = "answer" /\ turns' = turns + 1
  /\ UNCHANGED <<failureLimit, trackers, observers>>

Next == Answer \/ \E r \in Rounds : ToolRound(r)

Spec == Init /\ [][Next]_vars

(* Every request is answered or fails, so the loop keeps turning.          *)
FairSpec == Spec /\ WF_vars(Next)

-----------------------------------------------------------------------------
(* Properties *)

(* The last k elements of s are all the same.                              *)
EndsInRun(s, k) ==
  Len(s) >= k /\ \A i, j \in Len(s) - k + 1..Len(s) : s[i] = s[j]

(* s ends in k repetitions of its last p elements.                         *)
EndsInCycle(s, p, k) ==
  Len(s) >= k * p /\ \A i \in Len(s) - k * p + 1..Len(s) - p : s[i] = s[i + p]

(* The run ends for failing tools exactly when the unbroken streak of      *)
(* failures, all of which no code keeps, ends in a run of the configured   *)
(* length, in three repetitions of two to four rounds, or the last eight   *)
(* rounds were all errors; a limit of 0 disables all three.                *)
FailureBreakerExact ==
  LET stuck == \/ EndsInRun(streak, failureLimit)
               \/ \E p \in 2..MaxPeriod : EndsInCycle(streak, p, CycleLimit)
               \/ errorStreak >= AllErrorLimit
  IN status \in {"running", "turn_budget", "tool_failure"} =>
       (status = "tool_failure" <=> failureLimit > 0 /\ stuck)

(* The run ends for malformed calls exactly when the last MalformedLimit   *)
(* rounds were nothing but the same malformed calls.                       *)
MalformedBreakerExact ==
  status # "answer" =>
    (status = "malformed" <=>
       MalformedLimit > 0 /\ EndsInRun(badStreak, MalformedLimit))

(* The model is warned before the tools are taken away: a streak ends in a *)
(* finalization only after a warning in that streak, whatever order the    *)
(* three breakers reach their warning counts in (unless the limit leaves   *)
(* no room for one).                                                       *)
WarnedBeforeFinalize ==
  status = "tool_failure" /\ failureLimit > ExactWarning => warned

(* The breakers of the turn guards are exact, and never without warning.   *)
BreakersExact == FailureBreakerExact /\ MalformedBreakerExact /\ WarnedBeforeFinalize

(* Every run ends.                                                         *)
RunEnds == (status = "running") ~> (status # "running")
=============================================================================
