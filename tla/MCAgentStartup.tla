--------------------------- MODULE MCAgentStartup ---------------------------
(* Starts small enough to check: four families of worlds.                  *)
EXTENDS AgentStartup, TLC

NoAssets == [asked |-> FALSE, id |-> "", core |-> {}, runtime |-> {},
             skills |-> <<>>, mcps |-> <<>>]
Plainly == [managed |-> NoAssets, found |-> <<>>, logs_in |-> FALSE, no_global |-> FALSE]
World(g, p, cli, env, startup) ==
  [global |-> g, project |-> p, cli |-> cli @@ [prompt |-> "loop"],
   env |-> env, startup |-> startup]

\* Layers: both files, aliases, profiles and command lines.
Globals ==
  {ConfigFile,
   [ConfigFile EXCEPT
     !.provider = "openai", !.default = [model |-> "g-model", max_turns |-> "5", max_tokens |-> "9"],
     !.providers = [openai |-> [api_key |-> "g-key", compat |-> [thinking |-> "g", dedup |-> "g"]]],
     !.session = [enabled |-> FALSE, directory |-> "sessions", max |-> 20],
     !.servers = [s |-> "g", t |-> "g"]],
   [ConfigFile EXCEPT
     !.providers = [house |-> [provider |-> "openai", model |-> "g-house"],
                    openai |-> [base_url |-> "openai-url", api_key |-> "g-key"],
                    odd |-> [model |-> "m"]],
     !.profiles = [base |-> [extends |-> "root", model |-> "base-model", compat |-> [api_mode |-> "base"]],
                   root |-> [provider |-> "house", max_turns |-> "7", compat |-> [thinking |-> "root"]],
                   loop |-> [extends |-> "base2"], base2 |-> [extends |-> "loop"]]]}
Projects ==
  {ConfigFile,
   [ConfigFile EXCEPT
     !.default = [model |-> "p-model", max_turns |-> "0"],
     !.providers = [openai |-> [model |-> "p-open", compat |-> [thinking |-> "p"]],
                    house |-> [api_key |-> "p-house-key"]],
     !.profiles = [mine |-> [extends |-> "base", base_url |-> "mine-url", mcp_servers |-> {"s"}],
                   lost |-> [extends |-> "nobody"]],
     !.tools.auto = TRUE, !.servers = [s |-> "p"]],
   [ConfigFile EXCEPT
     !.provider = "vertex",
     !.profiles = [mine |-> [provider |-> "openai", api_key |-> "mine-key",
                             compat |-> [dedup |-> "mine"]]],
     !.shell.default = "lost-shell", !.session.directory = "elsewhere"]}
CommandLines ==
  {[x \in {} |-> ""], [provider |-> "house"], [provider |-> "odd"],
   [model |-> "c-model", api_key |-> "c-key", max_tokens |-> "3"],
   [thinking |-> "enabled", budget |-> "1"], [thinking |-> "often"], [compaction |-> "much"]}
NamedProfiles == {"none", "mine", "base", "loop", "lost"}
Layered ==
  {World(g, p, (IF n = "none" THEN <<>> ELSE [profile |-> n]) @@ c, env, Plainly) :
     g \in Globals, p \in Projects, c \in CommandLines, n \in NamedProfiles,
     env \in {{}, {"API_KEY"}, {"OPENAI_API_KEY", "MODEL"}}}

\* Managed assets beside the skills that lie around.
AssetOf(kind, id) == [kind |-> kind, id |-> id]
Skill(kind, id, root) == [asset |-> AssetOf(kind, id), root |-> root]
Bind(kind, id, server) == [asset |-> AssetOf(kind, id), server |-> server]
SkillLists ==
  {<<>>, <<Skill("skill", "k1", "r1")>>, <<Skill("SKILL", "k1", "r1")>>,
   <<Skill("skill", "k1", "r1"), Skill("skill", "k2", "r2")>>,
   <<Skill("skill", "k1", "r1"), Skill("skill", "k2", "r1")>>,
   <<Skill("skill", "k1", "r1"), Skill("skill", "k2", "twin")>>,
   <<Skill("skill", "k1", "unsafe")>>, <<Skill("skill", "k1", "gone")>>}
BindingLists ==
  {<<>>, <<Bind("mcp", "m1", "s")>>, <<Bind("mcp", "m1", "s"), Bind("mcp", "m2", "t")>>,
   <<Bind("mcp", "m1", "s"), Bind("mcp", "m2", "s")>>, <<Bind("tool", "m1", "s")>>}
ManagedInputs ==
  {[asked |-> TRUE, id |-> id, core |-> core, runtime |-> rt, skills |-> sk, mcps |-> mc] :
     id \in {"snap", ""}, core \in {{}, {AssetOf("assistant", "c1"), AssetOf("other", "c2")}},
     rt \in {{}, {AssetOf("engineAdapter", "e1")}, {AssetOf("other", "e1")}},
     sk \in SkillLists, mc \in BindingLists}
Lie(name, path, from, usable) ==
  [name |-> name, path |-> path, from |-> from, content |-> 1, usable |-> usable,
   server |-> IF from = "mcp" THEN "s" ELSE ""]
Around == <<Lie("one", "p1", "project", TRUE), Lie("solo", "r1", "user", TRUE),
            Lie("s:two", "u2", "user", TRUE), Lie("s:two", "m2", "mcp", TRUE),
            Lie("three", "u2", "added", TRUE), Lie("four", "p4", "project", FALSE)>>
Host(input, around) == [Plainly EXCEPT !.managed = input, !.found = around]
WithServers == [ConfigFile EXCEPT !.servers = [s |-> "g", t |-> "g"]]
Hosted ==
  {World(g, ConfigFile, [api_key |-> "k"], {}, Host(input, Around)) :
     g \in {WithServers}, input \in ManagedInputs}
  \cup {World(ConfigFile, ConfigFile, [api_key |-> "k"], {}, Host(input, <<>>)) :
     input \in {i \in ManagedInputs : i.id = "snap" /\ i.core = {} /\ i.skills = <<>>}}

\* Logins, first configurations, resumed sessions and one-shot prompts.
WithAuth == {ConfigFile, [ConfigFile EXCEPT !.sections = [auth |-> "client-id"]]}
Entered ==
  {World(g, ConfigFile, cli, {}, [Plainly EXCEPT !.logs_in = TRUE]) :
     g \in WithAuth, cli \in {<<>>, [provider |-> "openai"], [provider |-> "bedrock"]}}
  \cup {World(ConfigFile, ConfigFile, cli, {"ANTHROPIC_API_KEY"}, [Plainly EXCEPT !.no_global = TRUE]) :
     cli \in {[prompt |-> "given"], [resume |-> "saved"], [resume |-> "lost"],
              [resume |-> "saved", session_id |-> "x"]}}

MCWorlds == Layered \cup Hosted \cup Entered
MCRoots ==
  [r1 |-> [name |-> "one", file |-> TRUE, safe |-> TRUE, parses |-> TRUE],
   r2 |-> [name |-> "two", file |-> TRUE, safe |-> TRUE, parses |-> TRUE],
   twin |-> [name |-> "one", file |-> TRUE, safe |-> TRUE, parses |-> TRUE],
   unsafe |-> [name |-> "un", file |-> TRUE, safe |-> FALSE, parses |-> TRUE]]
=============================================================================
