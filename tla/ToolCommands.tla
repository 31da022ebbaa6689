---------------------------- MODULE ToolCommands ----------------------------
(***************************************************************************)
(* Tool calls with the commands they start: execute_single of              *)
(* crates/tjuae-agent/src/orchestration.rs with the hooks around it        *)
(* (tjuae-config/src/hooks.rs), the ExecCommand tool, the Skill tool with  *)
(* its permissions, embedded commands and hooks (skill_tool.rs and         *)
(* crates/tjuae-skills), and the stop hooks at the end of the session.     *)
(* Every command is a run of ProcessRunner, one at a time; a skill that    *)
(* embeds several, which run side by side, is a skill with one.            *)
(*                                                                         *)
(* A hook is its name and what it matches; an empty set matches all.       *)
(***************************************************************************)
EXTENDS ProcessRunner, Sequences, SequencesExt

CONSTANTS
  HookConfigs,   \* hooks the user may have configured
  Skills,        \* names
  SkillOf,       \* what is loaded for a name; hooked: its frontmatter has hooks
  Denied, Allowed, AutoApprove,   \* the skill permission rules
  Files,
  MaxCalls       \* bound: calls of a session

ASSUME CallsAssumption == MaxCalls \in Nat

Tools  == {"ExecCommand", "Edit", "Skill", "unknown"}
Events == {"pre", "post", "stop"}
None   == "none"

HookDef == [name : STRING, tools : SUBSET Tools, files : SUBSET Files]
HooksConfig == [Events -> Seq(HookDef)]

ASSUME HooksAssumption ==
  /\ HookConfigs \subseteq HooksConfig
  /\ \A s \in Skills : SkillOf[s].hooks \in HooksConfig

Calls ==
  [tool : {"ExecCommand"}, file : {None}, skill : {None}, wellFormed : BOOLEAN]
    \cup [tool : {"unknown"}, file : {None}, skill : {None}, wellFormed : {TRUE}]
    \cup [tool : {"Edit"}, file : Files, skill : {None}, wellFormed : {TRUE}]
    \cup [tool : {"Skill"}, file : {None}, skill : Skills \cup {None}, wellFormed : {TRUE}]

VARIABLES
  hooks,    \* HookEngine.config: per event a sequence of hooks
  phase,    \* "ready", "pre", "tool", "post", "stop" or "ended"
  call,     \* the call, as long as phase is "pre", "tool" or "post"
  todo,     \* hooks of the phase still to run
  failed,   \* is_error of the tool's result
  calls,    \* calls made, against MaxCalls
  \* observers, used by the properties only
  passed,   \* the pre hooks that ended with exit code 0
  ran       \* the call has started a command of its tool

cvars == <<hooks, phase, call, todo, failed, calls, passed, ran>>
vars  == <<pvars, cvars>>

NoCall == [tool |-> None, file |-> None, skill |-> None, wellFormed |-> FALSE]

Init ==
  /\ ProcessInit
  /\ hooks \in HookConfigs /\ phase = "ready" /\ call = NoCall /\ todo = <<>>
  /\ failed = FALSE /\ calls = 0 /\ passed = {} /\ ran = FALSE

-----------------------------------------------------------------------------
(* Hooks                                                                   *)

(* A hook for files does not match a call that names none.                 *)
Matches(hook, c) ==
  /\ hook.tools = {} \/ c.tool \in hook.tools
  /\ hook.files = {} \/ c.file \in hook.files

Matching(event, c) ==
  FoldLeft(LAMBDA seq, h : IF Matches(h, c) THEN Append(seq, h) ELSE seq, <<>>, hooks[event])

Named(seq, name) == \E h \in Range(seq) : h.name = name

MergeVecAll(existing, incoming) == existing \o incoming \* mutant: no check for names

(* merge_vec: a name that exists is skipped.                               *)
MergeVec(existing, incoming) ==
  FoldLeft(LAMBDA seq, h : IF Named(seq, h.name) THEN seq ELSE Append(seq, h), existing, incoming)

MergeHooks(added) == hooks' = [e \in Events |-> MergeVec(hooks[e], added[e])]

HookSucceedsUnlessCode(o) == ~(o.kind = "exit" /\ o.code = "nonzero") \* mutant

(* run_hook_command: a timeout and a failed start are errors, no success.  *)
HookSucceeds(o) == o.kind = "exit" /\ o.code = "zero"

-----------------------------------------------------------------------------
(* Tools                                                                   *)

ExecFails(o) == ~(o.kind = "exit" /\ o.code = "zero")

(* execute_command of a skill: output excuses any exit code.               *)
SkillCommandFails(o) == o.kind # "exit" \/ (o.code # "zero" /\ o.silent)

(* SkillPermissionChecker::check                                           *)
Permission(s) ==
  CASE s \in Denied -> "deny"
    [] s \in Allowed \ Denied -> "allow"
    [] ~SkillOf[s].hooked /\ ~SkillOf[s].widens /\ s \notin Denied -> "allow"
    [] OTHER -> IF AutoApprove THEN "allow" ELSE "ask"

(* No caller gives the Skill tool the spawner that a forked skill needs.   *)
SkillRuns ==
  /\ call.skill \in Skills /\ Permission(call.skill) = "allow"
  /\ SkillOf[call.skill].context = "inline"

EmbedsAlways(s) == SkillOf[s].commands \* mutant: skills of servers run commands as well

(* execute_shell_commands: skills of MCP servers run none.                 *)
Embeds(s) == SkillOf[s].commands /\ SkillOf[s].source # "mcp"

(* parse_skill_hooks: skills of MCP servers register none.                 *)
HooksOf(s) == SkillOf[s].source # "mcp" /\ SkillOf[s].hooked

StartsCommand ==
  CASE call.tool = "ExecCommand" -> call.wellFormed
    [] call.tool = "Skill" -> SkillRuns /\ Embeds(call.skill)
    [] OTHER -> FALSE

-----------------------------------------------------------------------------
(* A call                                                                  *)

CallStart ==
  /\ phase = "ready" /\ pc = "idle" /\ calls < MaxCalls
  /\ \E c \in Calls : call' = c /\ todo' = Matching("pre", c)
  /\ phase' = "pre" /\ calls' = calls + 1
  /\ UNCHANGED <<pvars, hooks, failed, passed, ran>>

AnsweredLater == phase' = "ready" /\ UNCHANGED <<call, todo, failed, passed, ran>> \* mutant

Answered == \* the call has its result
  /\ phase' = "ready" /\ call' = NoCall /\ todo' = <<>>
  /\ failed' = FALSE /\ passed' = {} /\ ran' = FALSE

HookStart ==
  /\ phase \in {"pre", "post", "stop"} /\ todo # <<>> /\ Spawn
  /\ UNCHANGED cvars

(* The first hook that does not succeed blocks the call: neither the tool  *)
(* nor the post hooks run.                                                 *)
PreHookDone ==
  /\ phase = "pre" /\ todo # <<>> /\ pc = "returned"
  /\ IF HookSucceeds(outcome)
       THEN /\ todo' = Tail(todo) /\ UNCHANGED <<phase, call, failed, ran>>
            /\ passed' = IF outcome.kind = "exit" /\ outcome.code = "zero"
                         THEN passed \cup {Head(todo)} ELSE passed
       ELSE Answered
  /\ Forget /\ UNCHANGED <<hooks, calls>>

PreHooksDone ==
  /\ phase = "pre" /\ todo = <<>> /\ phase' = "tool"
  /\ UNCHANGED <<pvars, hooks, call, todo, failed, calls, passed, ran>>

ToolStart ==
  /\ phase = "tool" /\ StartsCommand /\ ~ran /\ Spawn /\ ran' = TRUE
  /\ UNCHANGED <<hooks, phase, call, todo, failed, calls, passed>>

ToPost(failure) ==
  /\ failed' = failure /\ phase' = "post" /\ todo' = Matching("post", call)
  /\ UNCHANGED <<hooks, call, calls, passed, ran>>

ToolDone ==
  /\ phase = "tool" /\ ran /\ pc = "returned"
  /\ ToPost(IF call.tool = "ExecCommand" THEN ExecFails(outcome) ELSE SkillCommandFails(outcome))
  /\ Forget

(* Calls that start no command: refused ones, edits and plain skills.      *)
ToolReturns ==
  /\ phase = "tool" /\ ~StartsCommand
  /\ CASE call.tool = "Edit" -> \E failure \in BOOLEAN : ToPost(failure)
       [] OTHER -> ToPost(~(call.tool = "Skill" /\ SkillRuns))
  /\ UNCHANGED pvars

(* Messages and errors of post hooks and stop hooks are only counted.      *)
LaterHookDone ==
  /\ phase \in {"post", "stop"} /\ todo # <<>> /\ pc = "returned"
  /\ todo' = Tail(todo) /\ Forget
  /\ UNCHANGED <<hooks, phase, call, failed, calls, passed, ran>>

CallEndAnyResult == \* mutant: also a failed skill registers its hooks, without its permission
  /\ phase = "post" /\ todo = <<>>
  /\ IF call.skill \in Skills /\ HooksOf(call.skill)
       THEN MergeHooks(SkillOf[call.skill].hooks) ELSE UNCHANGED hooks
  /\ Answered /\ UNCHANGED <<pvars, calls>>

(* A skill that succeeded registers its hooks for the rest of the session. *)
CallEnd ==
  /\ phase = "post" /\ todo = <<>>
  /\ IF ~failed /\ call.tool = "Skill" /\ HooksOf(call.skill)
       THEN MergeHooks(SkillOf[call.skill].hooks) ELSE UNCHANGED hooks
  /\ Answered /\ UNCHANGED <<pvars, calls>>

(* Stop in protocol mode drops the engine's future with all it awaits.     *)
Stop ==
  /\ phase \in {"pre", "tool", "post"} /\ Drop
  /\ Answered /\ UNCHANGED <<hooks, calls>>

SessionEnd ==
  /\ phase = "ready" /\ pc = "idle" /\ phase' = "stop" /\ todo' = hooks["stop"]
  /\ UNCHANGED <<pvars, hooks, call, failed, calls, passed, ran>>

SessionEnded ==
  /\ phase = "stop" /\ todo = <<>> /\ phase' = "ended"
  /\ UNCHANGED <<pvars, hooks, call, todo, failed, calls, passed, ran>>

Agent ==
  \/ CallStart \/ HookStart \/ PreHookDone \/ PreHooksDone \/ ToolStart \/ ToolDone
  \/ ToolReturns \/ LaterHookDone \/ CallEnd \/ Stop \/ SessionEnd \/ SessionEnded

Next ==
  \/ Agent
  \/ (Runner \/ World) /\ UNCHANGED cvars

Spec == Init /\ [][Next]_vars
FairSpec == Spec /\ RunnerFairness

-----------------------------------------------------------------------------
TypeOK ==
  /\ ProcessTypeOK
  /\ phase \in {"ready", "pre", "tool", "post", "stop", "ended"}
  /\ hooks \in HooksConfig /\ todo \in Seq(HookDef) /\ passed \subseteq HookDef
  /\ call \in Calls \cup {NoCall} /\ (call = NoCall <=> phase \in {"ready", "stop", "ended"})
  /\ calls \in 0..MaxCalls /\ failed \in BOOLEAN /\ ran \in BOOLEAN

(* The tool of a call starts only after every matching pre hook, those     *)
(* that skills registered included, ran to the end with exit code 0: a     *)
(* hook that timed out, could not start or was killed blocks like one that *)
(* fails.                                                                  *)
OnlyPassedCallsRun ==
  phase \in {"tool", "post"} =>
    \A h \in Range(hooks["pre"]) : Matches(h, call) => h \in passed

(* What a skill may do: it is the user's or the project's, and allowed to  *)
(* run.                                                                    *)
MayAct(s) == SkillOf[s].source # "mcp" /\ Permission(s) = "allow"

(* No command of a skill is started that may not act.                      *)
SkillsKeepTheirBounds ==
  phase = "tool" /\ ran /\ call.tool = "Skill" => MayAct(call.skill)

(* The hooks of a session are those the user configured, all of them, and  *)
(* behind them hooks of skills that may act, each of a name that no hook   *)
(* before it has: a skill that is used again adds none.                    *)
HooksAsAllowed ==
  \E config \in HookConfigs : \A e \in Events :
    /\ IsPrefix(config[e], hooks[e])
    /\ \A i \in Len(config[e]) + 1..Len(hooks[e]) :
         /\ \E s \in Skills : MayAct(s) /\ hooks[e][i] \in Range(SkillOf[s].hooks[e])
         /\ \A j \in 1..i - 1 : hooks[e][j].name # hooks[e][i].name

(* Skills, content of an MCP server above all, get neither the shell nor   *)
(* hooks beyond what they are allowed.                                     *)
SkillsStayBounded == SkillsKeepTheirBounds /\ HooksAsAllowed
=============================================================================
