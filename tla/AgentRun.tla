------------------------------ MODULE AgentRun ------------------------------
(***************************************************************************)
(* The agent's run loop (crates/tjuae-agent/src/engine.rs): a run pushes   *)
(* the user's message, and each turn compacts the conversation if it must, *)
(* sends it to the provider, and executes the tool calls that come back,   *)
(* until an answer, a budget, a guard or an error ends the run.  The       *)
(* conversation is saved to the session file after every change, and a     *)
(* later process may resume it.                                            *)
(*                                                                         *)
(* An action is what the engine does between two awaits; the provider, the *)
(* tools, the guards and the token estimates choose freely.  TurnGuards    *)
(* models the guards, JsonStream the approval path.                        *)
(***************************************************************************)
EXTENDS WireProjection

CONSTANTS
  Budgets,         \* values of max_turns_per_run, Unlimited for none
  Unlimited,
  Shapes,          \* shapes of call the provider may make: "ok", "noid", "noname", "neither"
  MaxCalls,        \* bound: tool calls in one behaviour
  MaxPerRound,     \* bound: tool calls of one turn
  MaxRuns,         \* bound: user messages
  MaxSaveFailures, \* bound: failing writes of the session file
  MaxCrashes       \* bound: times the process ends

ASSUME BudgetsAssumption == Budgets \subseteq Nat \cup {Unlimited} /\ Unlimited \notin Nat
ASSUME BoundsAssumption ==
  /\ {MaxCalls, MaxPerRound, MaxRuns, MaxSaveFailures, MaxCrashes} \subseteq Nat
  /\ Shapes \subseteq {"ok", "noid", "noname", "neither"}

MaxPtlRetries == 2

VARIABLES
  history,   \* engine.messages
  disk,      \* messages in the session file
  phase,     \* where the run is suspended
  kind,      \* "normal" or "final" turn, or a slash "command"
  budget,    \* max_turns_per_run of this process
  turns,     \* counted turns of this run
  conv,      \* conversation part of an autocompact request
  ptl,       \* prompt-too-long retries of this autocompact
  lastId,    \* last provider id used
  runs, saveFailures, crashes, \* against their bounds
  \* observers, used by the properties only
  saved,     \* the last save succeeded
  requests,  \* turn requests sent in this run
  interrupted, \* ids of calls that were resumed without their results
  outcome    \* how the last run of this process ended

runVars == <<kind, turns, conv, ptl, requests, outcome>>
boundVars == <<lastId, runs, crashes>>
staticVars == <<boundVars, budget, interrupted>>
vars == <<history, disk, phase, runVars, staticVars, saveFailures, saved>>

Phases == {"idle", "head", "turn", "compact", "model", "tools", "down"}

IsMessage(m) ==
  /\ DOMAIN m = {"role", "calls", "results"}
  /\ m.role \in {"user", "assistant"}
  /\ \A i \in DOMAIN m.calls : m.calls[i].id \in 0..MaxCalls
  /\ \A i \in DOMAIN m.results : m.results[i].id \in 0..MaxCalls
  /\ m.role = "assistant" => m.results = <<>>
  /\ m.role = "user" => m.calls = <<>>

TypeOK ==
  /\ \A s \in {history, disk, conv} : \A i \in DOMAIN s : IsMessage(s[i])
  /\ phase \in Phases /\ kind \in {"normal", "final", "command"}
  /\ budget \in Budgets /\ turns \in Nat /\ ptl \in 0..MaxPtlRetries
  /\ lastId \in 0..MaxCalls /\ runs \in 0..MaxRuns
  /\ saveFailures \in 0..MaxSaveFailures /\ crashes \in 0..MaxCrashes
  /\ saved \in BOOLEAN /\ requests \in Nat /\ interrupted \subseteq 0..MaxCalls
  /\ outcome \in {"none", "answer", "stopped", "error"}

Init ==
  /\ history = <<>> /\ disk = <<>> /\ conv = <<>>
  /\ budget \in Budgets
  /\ phase = "idle" /\ kind = "normal" /\ turns = 0 /\ ptl = 0
  /\ lastId = 0 /\ runs = 0 /\ saveFailures = 0 /\ crashes = 0
  /\ saved = TRUE /\ requests = 0 /\ interrupted = {} /\ outcome = "none"

-----------------------------------------------------------------------------
(* Saving writes the whole conversation; a failure is only reported.       *)
SaveSession ==
  \/ disk' = history' /\ saved' = TRUE /\ UNCHANGED saveFailures
  \/ /\ saveFailures < MaxSaveFailures
     /\ saveFailures' = saveFailures + 1
     /\ saved' = FALSE /\ UNCHANGED disk

NoSave == UNCHANGED <<disk, saved, saveFailures>>

Push(messages) == history' = history \o messages /\ SaveSession

BudgetReached(n) == budget # Unlimited /\ n >= budget

(* run returns: a result or an error.                                      *)
Return(how) ==
  /\ phase' = "idle" /\ outcome' = how
  /\ kind' = "normal" /\ turns' = 0 /\ conv' = <<>> /\ ptl' = 0
  /\ UNCHANGED requests

(* finalize_once asks for an answer with the tools disabled.               *)
Finalize ==
  /\ phase' = "turn" /\ kind' = "final"
  /\ UNCHANGED <<turns, conv, ptl, requests, outcome>>

Goto(p) == phase' = p /\ UNCHANGED <<kind, turns, conv, ptl, requests, outcome>>

Submit ==
  /\ phase = "idle" /\ runs < MaxRuns
  /\ Push(<<UserText>>)
  /\ phase' = "head" /\ runs' = runs + 1
  /\ requests' = 0 /\ outcome' = "none"
  /\ UNCHANGED <<kind, turns, conv, ptl, lastId, crashes, budget, interrupted>>

(* Slash commands that change the conversation run outside the loop.       *)
ClearCommand ==
  /\ phase = "idle" /\ runs < MaxRuns /\ runs' = runs + 1
  /\ history' = <<>> /\ SaveSession
  /\ outcome' = "none" /\ interrupted' = {}
  /\ UNCHANGED <<phase, kind, turns, conv, ptl, requests, lastId, crashes, budget>>

CompactCommand ==
  /\ phase = "idle" /\ runs < MaxRuns /\ runs' = runs + 1
  /\ Len(history) > 2
  /\ phase' = "compact" /\ kind' = "command" /\ conv' = history /\ outcome' = "none"
  /\ UNCHANGED <<history, turns, ptl, requests, lastId, crashes, budget, interrupted>>
  /\ NoSave

(* Only a budget of no turns at all stops here: a budget that runs out     *)
(* during the run is found by the guards after the tool round.             *)
BudgetStop ==
  /\ phase = "head" /\ BudgetReached(turns)
  /\ UNCHANGED history /\ SaveSession
  /\ Return("stopped")
  /\ UNCHANGED staticVars

StartTurn ==
  /\ phase = "head" /\ ~BudgetReached(turns)
  /\ Goto("turn")
  /\ UNCHANGED history /\ NoSave
  /\ UNCHANGED staticVars

-----------------------------------------------------------------------------
(* run_compaction.  Microcompaction rewrites the text of old results in    *)
(* place and saves; it changes no block of the model.                      *)
Microcompact(micro) == UNCHANGED history /\ (IF micro THEN SaveSession ELSE NoSave)

NoAutocompact(micro) ==
  /\ phase = "turn"
  /\ Microcompact(micro)
  /\ \/ /\ phase' = "model" /\ requests' = requests + 1
        /\ UNCHANGED <<kind, turns, conv, ptl, outcome>>
     \/ Return("error") \* the emergency limit
  /\ UNCHANGED staticVars

StartAutocompact(micro) ==
  /\ phase = "turn"
  /\ Microcompact(micro)
  /\ phase' = "compact" /\ conv' = history /\ ptl' = 0
  /\ UNCHANGED <<kind, turns, requests, outcome, staticVars>>

(* The oldest fifth goes, at least one message, never all of them; what is *)
(* left starts with a user message.                                        *)
TruncateForRetry(messages) ==
  LET drop == IF Len(messages) \div 5 > 1 THEN Len(messages) \div 5 ELSE 1
      rest == SubSeq(messages, drop + 1, Len(messages))
  IN IF rest[1].role = "user" THEN rest ELSE <<UserText>> \o rest

AutocompactTooLongUnbounded == \* mutant: the retries are not limited
  /\ phase = "compact" /\ Len(conv) >= 2
  /\ conv' = TruncateForRetry(conv) /\ ptl' = ptl + 1
  /\ UNCHANGED <<history, phase, kind, turns, requests, outcome, staticVars>>
  /\ NoSave

AutocompactTooLong ==
  /\ phase = "compact" /\ ptl < MaxPtlRetries /\ Len(conv) >= 2
  /\ conv' = TruncateForRetry(conv) /\ ptl' = ptl + 1
  /\ UNCHANGED <<history, phase, kind, turns, requests, outcome, staticVars>>
  /\ NoSave

(* Any other failure leaves the conversation alone; the turn goes on, or   *)
(* the emergency limit ends the run.  A command just reports it.           *)
AutocompactFails ==
  /\ phase = "compact"
  /\ \/ /\ kind # "command"
        /\ phase' = "model" /\ requests' = requests + 1 /\ conv' = <<>> /\ ptl' = 0
        /\ UNCHANGED <<kind, turns, outcome>>
     \/ kind # "command" /\ Return("error")
     \/ kind = "command" /\ Return("none")
  /\ UNCHANGED history /\ NoSave
  /\ UNCHANGED staticVars

(* The boundary marker and the summary, two user messages, replace the     *)
(* whole conversation.                                                     *)
AutocompactSucceeds ==
  /\ phase = "compact"
  /\ history' = <<UserText, UserText>> /\ SaveSession
  /\ \/ /\ kind # "command"
        /\ phase' = "model" /\ requests' = requests + 1 /\ conv' = <<>> /\ ptl' = 0
        /\ UNCHANGED <<kind, turns, outcome>>
     \/ kind = "command" /\ Return("none")
  /\ interrupted' = {}
  /\ UNCHANGED <<boundVars, budget>>

-----------------------------------------------------------------------------
(* The provider's answer *)

(* The request fails, or its stream ends with an error: nothing is kept.   *)
ModelFails ==
  /\ phase = "model"
  /\ Return("error")
  /\ UNCHANGED history /\ NoSave
  /\ UNCHANGED staticVars

Rounds ==
  {r \in UNION {[1..n -> Shapes] : n \in 1..MaxPerRound} : lastId + Len(r) <= MaxCalls}

RoundCalls(shapes) ==
  [i \in DOMAIN shapes |->
     [id |-> IF shapes[i] \in {"noid", "neither"} THEN 0 ELSE lastId + i,
      named |-> shapes[i] \notin {"noname", "neither"}, n |-> lastId + i]]

ToolRoundUnsaved(shapes) == \* mutant: the round is saved only with its results
  /\ phase = "model" /\ kind = "normal"
  /\ history' = Append(history, Calls(RoundCalls(shapes))) /\ NoSave
  /\ lastId' = lastId + Len(shapes) /\ turns' = turns + 1
  /\ phase' = "tools"
  /\ UNCHANGED <<kind, conv, ptl, requests, outcome, runs, crashes, budget, interrupted>>

ToolRoundUncounted(shapes) == \* mutant: tool rounds are not counted
  /\ phase = "model" /\ kind = "normal"
  /\ Push(<<Calls(RoundCalls(shapes))>>)
  /\ lastId' = lastId + Len(shapes)
  /\ phase' = "tools"
  /\ UNCHANGED <<kind, turns, conv, ptl, requests, outcome, runs, crashes, budget, interrupted>>

ToolRound(shapes) ==
  /\ phase = "model" /\ kind = "normal"
  /\ Push(<<Calls(RoundCalls(shapes))>>)
  /\ lastId' = lastId + Len(shapes) /\ turns' = turns + 1
  /\ phase' = "tools"
  /\ UNCHANGED <<kind, conv, ptl, requests, outcome, runs, crashes, budget, interrupted>>

FinalAnswer ==
  /\ phase = "model" /\ kind = "normal"
  /\ Push(<<AssistantText>>)
  /\ Return("answer")
  /\ UNCHANGED staticVars

(* Cut off by the token limit: kept, even when it has no content yet.      *)
TruncatedAnswer ==
  /\ phase = "model" /\ kind = "normal"
  /\ Push(<<AssistantText>>)
  /\ Finalize
  /\ UNCHANGED staticVars

EmptyAnswer ==
  /\ phase = "model" /\ kind = "normal"
  /\ Finalize
  /\ UNCHANGED history /\ NoSave
  /\ UNCHANGED staticVars

FinalizationDropped == \* mutant: an unsuccessful finalization leaves no message
  /\ phase = "model" /\ kind = "final"
  /\ \/ Push(<<AssistantText>>)
     \/ UNCHANGED history /\ NoSave
  /\ Return("answer")
  /\ UNCHANGED staticVars

(* The finalization's text is kept when it is an answer; when it is not,   *)
(* a fallback text is, and calls it made are dropped.                      *)
Finalization ==
  /\ phase = "model" /\ kind = "final"
  /\ Push(<<AssistantText>>)
  /\ Return("answer")
  /\ UNCHANGED staticVars

-----------------------------------------------------------------------------
(* The tool round's results, one for each call: those of malformed calls   *)
(* in place, those of executed calls in any order (a concurrent batch puts *)
(* denied calls first).                                                    *)
Executable(call) == call.named /\ call.id # 0

RoundResults(calls, order) ==
  [i \in DOMAIN calls |-> [id |-> calls[order[i]].id, n |-> calls[order[i]].n]]

Orders(calls) ==
  {p \in [DOMAIN calls -> DOMAIN calls] :
     /\ \A i, j \in DOMAIN calls : p[i] = p[j] => i = j
     /\ \A i \in DOMAIN calls : ~Executable(calls[i]) => p[i] = i}

(* What follows the round: the loop, a finalization for a guard or the     *)
(* budget, or an error for malformed calls.  follow is a message of        *)
(* content the tools returned on the side.                                 *)
ToolsDone(order, follow) ==
  /\ phase = "tools"
  /\ order \in Orders(Last(history).calls)
  /\ Push(<<Results(RoundResults(Last(history).calls, order))>>
          \o (IF follow THEN <<UserText>> ELSE <<>>))
  /\ \/ ~BudgetReached(turns) /\ Goto("head")
     \/ Finalize
     \/ Return("error")
  /\ UNCHANGED staticVars

(* The user quits at a confirmation: the run ends with UserAborted, and    *)
(* the REPL with it.                                                       *)
ToolsQuit ==
  /\ phase = "tools"
  /\ crashes < MaxCrashes /\ crashes' = crashes + 1
  /\ disk' \in {disk, history}
  /\ disk' # history => saveFailures < MaxSaveFailures
  /\ phase' = "down" /\ history' = <<>> /\ conv' = <<>> /\ ptl' = 0
  /\ kind' = "normal" /\ turns' = 0 /\ saved' = TRUE /\ interrupted' = {}
  /\ outcome' = "error" /\ requests' = 0
  /\ UNCHANGED <<lastId, runs, saveFailures, budget>>

AbortUnclosed == \* mutant: the host's abort leaves the calls open
  /\ phase \notin {"idle", "down"}
  /\ UNCHANGED history /\ NoSave
  /\ Return("error")
  /\ UNCHANGED staticVars

(* An embedding host drops the run at an await and calls                   *)
(* abort_current_turn, which answers the calls left open.                  *)
HostAborts ==
  /\ phase \notin {"idle", "down"}
  /\ IF history # <<>> /\ Last(history).calls # <<>>
     THEN Push(<<Results(RoundResults(Last(history).calls,
                                      [i \in DOMAIN Last(history).calls |-> i]))>>)
     ELSE UNCHANGED history /\ NoSave
  /\ Return("error")
  /\ UNCHANGED staticVars

-----------------------------------------------------------------------------
(* The process ends anywhere (a crash, a stop of the JSON stream session,  *)
(* or simply its exit) and a new one resumes the session file.             *)
Crash ==
  /\ phase # "down" /\ crashes < MaxCrashes /\ crashes' = crashes + 1
  /\ phase' = "down" /\ history' = <<>> /\ conv' = <<>> /\ ptl' = 0
  /\ kind' = "normal" /\ turns' = 0 /\ saved' = TRUE /\ interrupted' = {}
  /\ outcome' = "none" /\ requests' = 0
  /\ UNCHANGED <<disk, lastId, runs, saveFailures, budget>>

Resume ==
  /\ phase = "down"
  /\ history' = disk /\ phase' = "idle" /\ budget' \in Budgets
  /\ interrupted' = UNION {Ids(disk[i].calls) :
       i \in {j \in DOMAIN disk : j = Len(disk) \/ disk[j + 1].results = <<>>}}
  /\ UNCHANGED <<disk, runVars, boundVars, saveFailures, saved>>

RunSteps ==
  \/ BudgetStop \/ StartTurn
  \/ \E micro \in BOOLEAN : NoAutocompact(micro) \/ StartAutocompact(micro)
  \/ AutocompactTooLong \/ AutocompactFails \/ AutocompactSucceeds
  \/ ModelFails \/ FinalAnswer \/ EmptyAnswer \/ TruncatedAnswer \/ Finalization
  \/ \E shapes \in Rounds : ToolRound(shapes)
  \/ \E order \in UNION {[1..n -> 1..n] : n \in 1..MaxPerRound}, follow \in BOOLEAN :
       ToolsDone(order, follow)

Next == Submit \/ ClearCommand \/ CompactCommand \/ RunSteps \/ ToolsQuit \/ HostAborts \/ Crash \/ Resume

Spec == Init /\ [][Next]_vars

-----------------------------------------------------------------------------
(* Properties *)

(* Whatever crashes, the session file has the whole conversation up to the *)
(* last await: every change is saved before control leaves the engine, and *)
(* a later save makes up for one that failed (docs: saved automatically).  *)
SavedBeforeAwait == phase # "down" /\ saved => disk = history

(* The messages of the request in flight.                                  *)
Request ==
  IF phase = "compact" THEN conv \o <<UserText>>
  ELSE IF kind = "final" THEN history \o <<UserText>> ELSE history

Idless(call) == call.named /\ call.id = 0

OneIdless(messages) ==
  \A i, j \in DOMAIN messages :
    \A k \in DOMAIN messages[i].calls, l \in DOMAIN messages[j].calls :
      Idless(messages[i].calls[k]) /\ Idless(messages[j].calls[l]) => i = j /\ k = l

Ambiguous(messages) ==
  \E i \in DOMAIN messages : \E c, d \in ToSet(messages[i].calls) :
    c.id = 0 /\ d.id = 0 /\ c.named /\ ~d.named

InFlight == phase \in {"model", "compact"}

(* Every request an OpenAI provider is sent pairs calls and results, for   *)
(* turns, finalizations and compactions of truncated conversations alike,  *)
(* although rounds are malformed, interrupted by a crash and resumed, or   *)
(* cut off by the truncation (openai_messages.rs).  A call without an id   *)
(* must not be the one interrupted.                                        *)
OpenAiRequestsPaired ==
  InFlight /\ 0 \notin interrupted => OpenAiPaired(OpenAiRequest(Request))

(* The same for Anthropic, whose projection never removes a call: it holds *)
(* as long as no round was cut off and resumed, and no two id-less calls   *)
(* are given their ids in one millisecond (anthropic_shared.rs).           *)
AnthropicRequestsPaired ==
  InFlight /\ interrupted = {} =>
    \A tick \in {0, 1} :
      tick = 1 \/ OneIdless(Request) => AnthropicPaired(AnthropicRequest(Request, tick))

(* Each tool result in an OpenAI request is the one of the call it names:  *)
(* skipped results and generated ids are matched by order alone, and must  *)
(* still meet the right calls (openai_messages.rs).  An interrupted        *)
(* id-less call, or one beside a call that also lacks a name, is excluded. *)
ResultsReachTheirCalls ==
  InFlight /\ 0 \notin interrupted /\ ~Ambiguous(Request) =>
    LET request == OpenAiRequest(Request)
        results == SelectSeq(request, LAMBDA m : m.role = "tool")
    IN \A i \in DOMAIN request, k \in DOMAIN results :
         \A call \in ToSet(request[i].calls) :
           call.id = results[k].id => call.n = results[k].n

(* Both pairings, for the one conversation that is kept for either         *)
(* provider, and of the right call and result.                             *)
RequestsPaired == OpenAiRequestsPaired /\ AnthropicRequestsPaired /\ ResultsReachTheirCalls

(* engine.rs:1468: every tool_use must be followed by its tool_result, so  *)
(* that the next request can safely reuse the history.                     *)
AnthropicAlwaysPaired == InFlight => AnthropicPaired(AnthropicRequest(Request, 1))

(* The budget bounds the model's work: the counted turns and one request   *)
(* for the final answer (engine.rs, turn.rs).                              *)
OneRequestBeyondBudget ==
  budget # Unlimited => requests <= (IF budget = 0 THEN 0 ELSE budget + 1)

(* A run that reports an answer leaves the answer as the last message of   *)
(* the conversation, so that the next run's request follows it.            *)
AnswerIsRecorded ==
  phase = "idle" /\ outcome = "answer" => history # <<>> /\ Last(history) = AssistantText

(* A run ends within its budget and, where it reports an answer, with it.  *)
RunEndsInOrder == OneRequestBeyondBudget /\ AnswerIsRecorded
=============================================================================
