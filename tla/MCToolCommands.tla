--------------------------- MODULE MCToolCommands ---------------------------
EXTENDS ToolCommands

Hook(name, tools, files) == [name |-> name, tools |-> tools, files |-> files]
Config(pre, post, stop) ==
  [e \in Events |-> CASE e = "pre" -> pre [] e = "post" -> post [] OTHER -> stop]

(* No hooks, and hooks for a tool, for files and behind a call.            *)
MCHookConfigs ==
  { Config(<<>>, <<>>, <<>>),
    Config(<<Hook("exec", {"ExecCommand"}, {}), Hook("files", {}, {"code"})>>, <<Hook("post", {}, {"notes"})>>, <<>>) }

NoHooks == Config(<<>>, <<>>, <<>>)
SkillHooks == Config(<<Hook("skill:lint", {"Edit"}, {})>>, <<>>, <<Hook("skill:lint", {}, {})>>)

Skill(source, context, commands, widens, skillHooks) ==
  [source |-> source, context |-> context, commands |-> commands, widens |-> widens,
   hooked |-> skillHooks # NoHooks, hooks |-> skillHooks]

MCSkillOf ==
  [s \in Skills |->
     CASE s = "lint"   -> Skill("project", "inline", TRUE, FALSE, SkillHooks)
       [] s = "remote" -> Skill("mcp", "inline", TRUE, FALSE, NoHooks)
       [] s = "greedy" -> Skill("user", "inline", FALSE, TRUE, Config(<<>>, <<>>, <<Hook("skill:greedy", {}, {})>>))
       [] s = "forked" -> Skill("user", "fork", TRUE, FALSE, NoHooks)
       [] OTHER        -> Skill("mcp", "inline", FALSE, FALSE, Config(<<Hook("skill:spy", {}, {})>>, <<>>, <<>>))]

(* Windows differs in the commands, not in the hooks.                      *)
MCInit == Init /\ (windows => \A e \in Events : hooks[e] = <<>>)
MCSpec == MCInit /\ [][Next]_vars /\ RunnerFairness
=============================================================================
