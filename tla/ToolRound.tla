------------------------------ MODULE ToolRound ------------------------------
(***************************************************************************)
(* One model turn's tool calls (crates/tjuae-agent/src/engine.rs           *)
(* execute_tool_round): malformed calls and calls the runtime policy       *)
(* denies get synthetic results, the rest is confirmed and executed        *)
(* (orchestration.rs), the results are merged back and the context         *)
(* modifiers of skills and plan mode are applied.                          *)
(*                                                                         *)
(* In terminal mode neighbouring calls of concurrency-safe tools form a    *)
(* batch whose members run at the same time; in JSON stream mode every     *)
(* call is a batch of its own.  A call is its position in the round; an    *)
(* unknown tool is an unsafe one that fails, and a hook that blocks a call *)
(* is a failure of the call.                                               *)
(***************************************************************************)
EXTENDS Integers, SequencesExt

CONSTANTS
  SafeTools,    \* tools whose is_concurrency_safe answers true
  UnsafeTools,
  Grants,       \* allowed_tools of the skill
  AllowList,    \* tools.allow_list of the configuration
  MaxRound,     \* bound: calls of a round
  MaxCalls      \* bound: calls of the session

Skill == "Skill"
EnterPlan == "EnterPlanMode"
ExitPlan == "ExitPlanMode"
Rejected == "rejected" \* a malformed call, or one the policy or a capability denies

Safe == SafeTools \cup {EnterPlan, ExitPlan}
Unsafe == UnsafeTools \cup {Skill}
Executable == Safe \cup Unsafe
Names == Executable \cup {Rejected}

ASSUME ToolsAssumption ==
  /\ SafeTools \cap UnsafeTools = {}
  /\ (SafeTools \cup UnsafeTools) \cap {Skill, EnterPlan, ExitPlan, Rejected} = {}
  /\ Grants \cup AllowList \subseteq SafeTools \cup UnsafeTools
  /\ MaxRound \in Nat /\ MaxCalls \in Nat

VARIABLES
  mode,        \* "terminal" or "json"
  autoApprove, \* tools.auto_approve
  engineList,  \* AgentEngine.allow_list, read in JSON stream mode
  confirmList, \* ToolConfirmer.allow_list, read in terminal mode
  plan,        \* [active, before]: PlanState
  status,      \* "model", "round" or "quit"
  used,        \* calls so far, against MaxCalls
  calls,       \* the calls of the round
  left,        \* executable calls whose batch has not ended
  toConfirm,   \* calls of the current batch not confirmed yet
  approved,    \* calls of the current batch to run, in order
  running,     \* calls being executed
  outcome,     \* executed call -> "ok" or "error"
  results,     \* results of the executable calls, in the order they were pushed
  \* observers, used by the properties only
  consent,     \* call -> why it may run
  merged       \* the merged results of the last round

listVars == <<engineList, confirmList, plan>>
batchVars == <<left, toConfirm, approved, running, outcome, results>>
vars == <<mode, autoApprove, listVars, status, used, calls, batchVars, consent, merged>>

Calls == 1..Len(calls)
Outcomes == {"ok", "error"}
Results == [call : 1..MaxRound, outcome : Outcomes]
NoPlan == [active |-> FALSE, before |-> {}]

TypeOK ==
  /\ mode \in {"terminal", "json"} /\ autoApprove \in BOOLEAN
  /\ engineList \subseteq Names /\ confirmList \subseteq Names
  /\ plan \in [active : BOOLEAN, before : SUBSET Names]
  /\ status \in {"model", "round", "quit"} /\ used \in 0..MaxCalls
  /\ calls \in Seq(Names) /\ Len(calls) <= MaxRound
  /\ left \subseteq Calls /\ toConfirm \subseteq Calls
  /\ approved \in Seq(Calls) /\ running \subseteq Calls
  /\ outcome \in [Calls -> Outcomes \cup {"none"}]
  /\ results \in Seq(Results) /\ Len(results) <= Len(calls)
  /\ merged \in Seq(Results)
  /\ consent \in [Calls -> {"none", "user", "list"}]

Init ==
  /\ mode \in {"terminal", "json"} /\ autoApprove \in BOOLEAN
  /\ engineList = AllowList /\ confirmList = AllowList
  /\ plan = NoPlan
  /\ status = "model" /\ used = 0
  /\ calls = <<>> /\ left = {} /\ toConfirm = {} /\ approved = <<>>
  /\ running = {} /\ outcome = <<>> /\ results = <<>>
  /\ consent = <<>> /\ merged = <<>>

-----------------------------------------------------------------------------
(* Batches *)

PartitionAllSafe(names, S) == \* mutant: any two neighbouring calls share a batch
  {i \in S : i = Min(S) \/ mode = "terminal"}

(* The first batch of the executable calls S: in terminal mode a safe call *)
(* joins the batch before it if that one is safe, too.                     *)
Partition(names, S) ==
  {i \in S : \/ i = Min(S)
             \/ mode = "terminal" /\ \A j \in S : j <= i => names[j] \in Safe}

StartRoundStale(names) == \* mutant: the results of the round before stay
  /\ status = "model" /\ used + Len(names) <= MaxCalls
  /\ status' = "round" /\ used' = used + Len(names)
  /\ calls' = names
  /\ left' = {i \in 1..Len(names) : names[i] \in Executable}
  /\ toConfirm' = Partition(names, left') /\ approved' = <<>>
  /\ running' = {} /\ merged' = <<>>
  /\ outcome' = [i \in 1..Len(names) |-> "none"]
  /\ consent' = [i \in 1..Len(names) |-> "none"]
  /\ UNCHANGED <<mode, autoApprove, listVars, results>>

StartRound(names) ==
  /\ status = "model" /\ used + Len(names) <= MaxCalls
  /\ status' = "round" /\ used' = used + Len(names)
  /\ calls' = names
  /\ left' = {i \in 1..Len(names) : names[i] \in Executable}
  /\ toConfirm' = Partition(names, left') /\ approved' = <<>>
  /\ running' = {} /\ results' = <<>> /\ merged' = <<>>
  /\ outcome' = [i \in 1..Len(names) |-> "none"]
  /\ consent' = [i \in 1..Len(names) |-> "none"]
  /\ UNCHANGED <<mode, autoApprove, listVars>>

-----------------------------------------------------------------------------
(* Confirmation.  In terminal mode the prompt blocks, in JSON stream mode  *)
(* the engine awaits the approval manager; the confirmer answers y, n,     *)
(* a(lways) or q(uit), the client approves or denies.                      *)

AllowedTools == IF mode = "json" THEN engineList ELSE confirmList
Exempt(i) == autoApprove \/ calls[i] \in AllowedTools

Answer == IF mode = "json" THEN {"yes", "no"} ELSE {"yes", "no", "always", "quit"}

ConfirmAnyway(answer) == \* mutant: an answer other than quit runs the call
  LET i == Min(toConfirm)
  IN /\ status = "round" /\ toConfirm # {}
     /\ ~Exempt(i) /\ answer \in Answer
     /\ toConfirm' = toConfirm \ {i}
     /\ approved' = IF answer # "quit" THEN Append(approved, i) ELSE approved
     /\ consent' = IF answer \in {"yes", "always"} THEN [consent EXCEPT ![i] = "user"] ELSE consent
     /\ status' = IF answer = "quit" THEN "quit" ELSE status
     /\ UNCHANGED <<mode, autoApprove, listVars, used, calls, left, running, outcome,
                    results, merged>>

(* A denied call gets its error result at once, before any of its batch    *)
(* runs.                                                                   *)
Confirm(answer) ==
  LET i == Min(toConfirm)
      yes == answer \in {"yes", "always"}
  IN /\ status = "round" /\ toConfirm # {}
     /\ ~Exempt(i) /\ answer \in Answer
     /\ toConfirm' = toConfirm \ {i}
     /\ approved' = IF yes THEN Append(approved, i) ELSE approved
     /\ consent' = IF yes THEN [consent EXCEPT ![i] = "user"] ELSE consent
     /\ results' = IF answer = "no" THEN Append(results, [call |-> i, outcome |-> "error"])
                   ELSE results
     /\ confirmList' = confirmList \cup (IF answer = "always" THEN {calls[i]} ELSE {})
     /\ status' = IF answer = "quit" THEN "quit" ELSE status
     /\ UNCHANGED <<mode, autoApprove, engineList, plan, used, calls, left,
                    running, outcome, merged>>

ConfirmExempt ==
  LET i == Min(toConfirm)
  IN /\ status = "round" /\ toConfirm # {} /\ Exempt(i)
     /\ toConfirm' = toConfirm \ {i}
     /\ approved' = Append(approved, i)
     /\ consent' = [consent EXCEPT ![i] = "list"]
     /\ UNCHANGED <<mode, autoApprove, listVars, status, used, calls, left, running,
                    outcome, results, merged>>

-----------------------------------------------------------------------------
(* Execution *)

Settled(i) == outcome[i] # "none" \/ \E k \in 1..Len(results) : results[k].call = i

StartEarly(i) == \* mutant: a confirmed call does not wait for its batch to be confirmed
  /\ status = "round"
  /\ i \in ToSet(approved) /\ i \notin running /\ outcome[i] = "none"
  /\ running' = running \cup {i}
  /\ UNCHANGED <<mode, autoApprove, listVars, status, used, calls, left, toConfirm,
                 approved, outcome, results, consent, merged>>

(* join_all polls every approved call of the batch: they start in order    *)
(* and run together.                                                       *)
Start(i) ==
  /\ status = "round" /\ toConfirm = {}
  /\ i \in ToSet(approved) /\ i \notin running /\ outcome[i] = "none"
  /\ \A j \in ToSet(approved) : j < i => j \in running \/ outcome[j] # "none"
  /\ running' = running \cup {i}
  /\ UNCHANGED <<mode, autoApprove, listVars, status, used, calls, left, toConfirm,
                 approved, outcome, results, consent, merged>>

(* The plan mode tools read the flag when they run; the flag changes only  *)
(* when the round is over.                                                 *)
MayEndWith(i) ==
  IF calls[i] = EnterPlan THEN {IF plan.active THEN "error" ELSE "ok", "error"}
  ELSE IF calls[i] = ExitPlan THEN {IF plan.active THEN "ok" ELSE "error", "error"}
  ELSE Outcomes

Finish(i) ==
  /\ status = "round" /\ i \in running
  /\ \E o \in MayEndWith(i) : outcome' = [outcome EXCEPT ![i] = o]
  /\ running' = running \ {i}
  /\ UNCHANGED <<mode, autoApprove, listVars, status, used, calls, left, toConfirm,
                 approved, results, consent, merged>>

EndBatchOptimistic == \* mutant: the error flag of a result is lost
  /\ status = "round" /\ left # {} /\ toConfirm = {}
  /\ \A i \in ToSet(approved) : outcome[i] # "none"
  /\ results' = results \o [k \in 1..Len(approved) |-> [call |-> approved[k], outcome |-> "ok"]]
  /\ left' = left \ Partition(calls, left)
  /\ toConfirm' = Partition(calls, left') /\ approved' = <<>>
  /\ UNCHANGED <<mode, autoApprove, listVars, status, used, calls, running, outcome,
                 consent, merged>>

(* When all of a batch are done their results are pushed in call order,    *)
(* behind those of the denied ones.                                        *)
EndBatch ==
  /\ status = "round" /\ left # {} /\ toConfirm = {}
  /\ \A i \in ToSet(approved) : outcome[i] # "none"
  /\ results' = results \o [k \in 1..Len(approved) |->
                              [call |-> approved[k], outcome |-> outcome[approved[k]]]]
  /\ left' = left \ Partition(calls, left)
  /\ toConfirm' = Partition(calls, left') /\ approved' = <<>>
  /\ UNCHANGED <<mode, autoApprove, listVars, status, used, calls, running, outcome,
                 consent, merged>>

-----------------------------------------------------------------------------
(* The end of the round *)

MergeResultsSkipSynthetic(rs) == rs \* mutant: only executed calls are answered

MergeResultsByPosition(rs) == \* mutant: the synthetic results go first
  LET synthetic == SelectSeq([i \in Calls |-> i], LAMBDA i : calls[i] \notin Executable)
  IN [k \in 1..Len(synthetic) |-> [call |-> synthetic[k], outcome |-> "error"]] \o rs

(* Each executable call takes the next result, whichever call that one is  *)
(* of; every other call gets a synthetic error in its place.               *)
MergeResults(rs) ==
  LET before(i) == Cardinality({j \in 1..i : calls[j] \in Executable})
  IN [i \in Calls |-> IF calls[i] \in Executable THEN rs[before(i)]
                      ELSE [call |-> i, outcome |-> "error"]]

(* What a successful call changes: apply_context_modifiers.                *)
ApplyModifier(lists, name) ==
  CASE name = Skill ->
         [lists EXCEPT !.engine = @ \cup Grants, !.confirm = @ \cup Grants]
    [] name = EnterPlan ->
         [lists EXCEPT !.plan = [active |-> TRUE, before |-> lists.engine]]
    [] name = ExitPlan -> [lists EXCEPT !.plan.active = FALSE, !.engine = lists.plan.before]
    [] OTHER -> lists

EndRound ==
  LET rs == MergeResults(results)
      succeeded == [k \in 1..Len(rs) |-> IF rs[k].outcome = "ok" THEN calls[rs[k].call] ELSE Rejected]
      lists == FoldLeft(ApplyModifier,
                        [engine |-> engineList, confirm |-> confirmList, plan |-> plan], succeeded)
  IN /\ status = "round" /\ left = {}
     /\ status' = "model" /\ merged' = rs
     /\ engineList' = lists.engine /\ confirmList' = lists.confirm /\ plan' = lists.plan
     /\ UNCHANGED <<mode, autoApprove, used, calls, batchVars, consent>>

Rounds == UNION {[1..n -> Names] : n \in 1..MaxRound}

Next ==
  \/ \E names \in Rounds : StartRound(names)
  \/ \E answer \in {"yes", "no", "always", "quit"} : Confirm(answer)
  \/ ConfirmExempt
  \/ \E i \in Calls : Start(i) \/ Finish(i)
  \/ EndBatch \/ EndRound

Spec == Init /\ [][Next]_vars

-----------------------------------------------------------------------------
(* Properties *)

(* A finished round answers every call exactly once, however malformed,    *)
(* denied, refused, failed and concurrent calls were mixed: a call without *)
(* a result makes the provider reject the whole conversation               *)
(* (tool_call.rs merge_tool_results).  And the result is the call's own:   *)
(* what the tool said, or an error if the call did not run.                *)
EveryCallAnsweredOnce ==
  status = "model" /\ calls # <<>> =>
    /\ Len(merged) = Len(calls)
    /\ \A i \in Calls : \E k \in Calls :
         /\ merged[k].call = i
         /\ merged[k].outcome = IF outcome[i] = "none" THEN "error" ELSE outcome[i]

(* A call runs only with a consent of its own, and never one the policy    *)
(* denies or a malformed one (confirm_call, execute_tool_round).           *)
OnlyConfirmedRun ==
  \A i \in Calls :
    i \in running \/ outcome[i] # "none" => consent[i] # "none" /\ calls[i] \in Executable

(* A call of an unsafe tool runs alone, after every executable call before *)
(* it has settled and before any after it starts (partition).              *)
UnsafeRunAlone ==
  \A i \in running :
    calls[i] \in Unsafe =>
      /\ running = {i}
      /\ \A j \in Calls : calls[j] \in Executable /\ j # i => (Settled(j) <=> j < i)

(* Quitting at a prompt runs nothing of that batch, also not the calls     *)
(* confirmed a moment before (execute_tool_calls confirms all first).      *)
QuitRunsNothingOfItsBatch ==
  status = "quit" => \A i \in Partition(calls, left) : i \notin running /\ outcome[i] = "none"

(* Results come back in call order as long as nothing of a larger batch    *)
(* was refused.                                                            *)
InOrderUnlessRefused ==
  status = "model" /\ (\A i \in Calls : calls[i] \in Executable => outcome[i] # "none") =>
    \A k \in 1..Len(merged) : merged[k].call = k

(* A round is answered: every call once, and in order where that is        *)
(* promised.                                                               *)
RoundAnswered == EveryCallAnsweredOnce /\ InOrderUnlessRefused

(* And what runs runs with leave: confirmed, alone if it must be, and not  *)
(* behind a Quit.                                                          *)
RunsWithLeave == OnlyConfirmedRun /\ UnsafeRunAlone /\ QuitRunsNothingOfItsBatch
=============================================================================
