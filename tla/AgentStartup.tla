---------------------------- MODULE AgentStartup ----------------------------
(***************************************************************************)
(* The program from its command line to its exit in terminal mode: the     *)
(* auth and config commands, the resolution of ConfigLayers, the engine's  *)
(* bootstrap (AgentBootstrap::build with the managed assets a host may     *)
(* pass and the skill loader of tjuae-skills), the prompt loop of run.rs.  *)
(*                                                                         *)
(* A managed skill is read in three steps (its entry is checked, its tree  *)
(* digested, its SKILL.md read), between which its author may save another *)
(* version.  McpManager::connect_all always succeeds, so the error branch  *)
(* around it is left out.                                                  *)
(***************************************************************************)
EXTENDS ConfigLayers, OAuthLogin, FiniteSets

CONSTANTS
  Roots,      \* what lies at a skill root: [name, file, safe, parses]
  MaxEdits,   \* saves of a managed skill while the program starts
  MaxPrompts  \* prompts typed into the loop

VARIABLES
  connected,  \* MCP servers that completed the handshake and tool discovery
  position,   \* the managed skill at hand
  digest,     \* the version its tree had when it was digested
  loaded,     \* managed skills read so far: [name, path, content]
  receipts,   \* their receipts: [asset, digest]
  visible,    \* the skills the engine and its prompt are given
  snapshot,   \* the receipts handed to the host
  reports,    \* boundary records: [phase, asset, ok]
  tree,       \* the version at each root
  prompts     \* prompts run

bootVars == <<connected, position, digest, loaded, receipts, visible, snapshot, reports>>
startupVars == <<world, stage, layerVars, gaveUp, loginVars, bootVars, tree, prompts>>

\* A start is what its files, command line, environment and host make it: the
\* managed assets it asks for, and the skills that lie around.
Asset == [kind : STRING, id : STRING]
Shaped(w) ==
  /\ DOMAIN w = {"global", "project", "cli", "env", "startup"}
  /\ DOMAIN w.startup = {"managed", "found", "logs_in", "no_global"}
  /\ w.startup.managed.skills \in Seq([asset : Asset, root : STRING])
  /\ w.startup.managed.mcps \in Seq([asset : Asset, server : STRING])
  /\ w.startup.found \in Seq([name : STRING, path : STRING, usable : BOOLEAN, content : Nat,
                              server : STRING, from : {"mcp", "user", "project", "added"}])

ASSUME StartupAssumption ==
  /\ MaxEdits \in Nat /\ MaxPrompts \in Nat
  /\ \A w \in Worlds : Shaped(w)

Managed == world.startup.managed
Report(phase, assets, ok) ==
  reports' = reports \cup {[phase |-> phase, asset |-> a, ok |-> ok] : a \in assets}
Assets(bindings) == {b.asset : b \in Range(bindings)}

-----------------------------------------------------------------------------
(* Commands.                                                               *)

AuthLogin  == stage = "shell" /\ BeginLogin(HasClientId(world.global.sections))
              /\ world.startup.logs_in
              /\ login = "none"
              /\ UNCHANGED <<world, stage, layerVars, gaveUp, bootVars, tree, prompts>>
AuthLogout == stage = "shell" /\ Logout
              /\ UNCHANGED <<world, stage, layerVars, gaveUp, bootVars, tree, prompts>>

ConfigInit ==
  /\ stage = "shell" /\ world.startup.no_global
  /\ world' = [world EXCEPT !.global = Template, !.startup.no_global = FALSE]
  /\ UNCHANGED <<stage, layerVars, gaveUp, loginVars, bootVars, tree, prompts>>

Start ==
  /\ stage = "shell" /\ ~LoginRuns
  /\ IF {"resume", "session_id"} \subseteq DOMAIN world.cli THEN Fail("usage")
     ELSE stage' = "load" /\ UNCHANGED gaveUp
  /\ UNCHANGED <<world, layerVars, loginVars, bootVars, tree, prompts>>

-----------------------------------------------------------------------------
(* AgentBootstrap::build.                                                  *)

\* The session to resume is loaded first; then the shell must exist.
OpenSession ==
  /\ stage = "resolved"
  /\ IF Get(world.cli, "resume", "saved") = "lost" THEN Fail("session")
     ELSE IF config.file.shell.default = "lost-shell" THEN Fail("shell")
     ELSE stage' = "connect" /\ UNCHANGED gaveUp
  /\ UNCHANGED <<world, layerVars, loginVars, bootVars, tree, prompts>>

BadBindingsUnchecked(live) == {i \in DOMAIN Managed.mcps : Managed.mcps[i].asset.kind # "mcp"}

\* The first binding that is malformed, repeats a server or is not connected.
BadBindings(live) ==
  LET mcps == Managed.mcps IN
  {i \in DOMAIN mcps :
     \/ mcps[i].asset.kind # "mcp"
     \/ \E j \in 1 .. i - 1 : mcps[j].server = mcps[i].server
     \/ mcps[i].server \notin live}

ConnectMcp(live) ==
  /\ stage = "connect" /\ live \subseteq DOMAIN config.file.servers
  /\ LET mcps == Managed.mcps
         bad  == BadBindings(live)
     IN CASE DOMAIN config.file.servers = {} /\ mcps # <<>> ->
               Report("connect", Assets(mcps), FALSE) /\ Fail("no servers")
               /\ UNCHANGED connected
          [] DOMAIN config.file.servers # {} /\ bad # {} ->
               Report("connect", {mcps[CHOOSE i \in bad : \A j \in bad : i <= j].asset}, FALSE)
               /\ Fail("binding") /\ UNCHANGED connected
          [] OTHER ->
               Report("connect", Assets(mcps), TRUE)
               /\ connected' = live /\ stage' = "check" /\ UNCHANGED gaveUp
  /\ UNCHANGED <<world, layerVars, loginVars, position, digest, loaded, receipts,
                 visible, snapshot, tree, prompts>>

SkillsFail(reason) ==
  /\ Report("inject", Assets(Managed.skills), FALSE) /\ Fail(reason)
  /\ UNCHANGED <<position, digest, loaded, receipts, visible>>

AsSkill(kind) == IF kind \in {"skill", "SKILL"} THEN "skill" ELSE kind

CheckManaged ==
  /\ stage = "check" /\ position <= Len(Managed.skills)
  /\ LET skill   == Managed.skills[position]
         earlier == {Managed.skills[j] : j \in 1 .. position - 1}
     IN IF \/ Managed.asked /\ Managed.id = ""
           \/ skill.asset.id = ""
           \/ AsSkill(skill.asset.kind) # "skill"
           \/ \E e \in earlier : e.asset.id = skill.asset.id \/ e.root = skill.root
           \/ skill.root \notin DOMAIN Roots
           \/ ~Roots[skill.root].file
        THEN SkillsFail("managed skill")
        ELSE stage' = "digest"
             /\ UNCHANGED <<position, digest, loaded, receipts, visible, reports, gaveUp>>
  /\ UNCHANGED <<world, layerVars, loginVars, connected, snapshot, tree, prompts>>

DigestManaged ==
  /\ stage = "digest"
  /\ LET root == Managed.skills[position].root IN
     IF ~Roots[root].safe THEN SkillsFail("unsafe tree")
     ELSE /\ digest' = tree[root] /\ stage' = "read"
          /\ UNCHANGED <<position, loaded, receipts, visible, reports, gaveUp>>
  /\ UNCHANGED <<world, layerVars, loginVars, connected, snapshot, tree, prompts>>

ReadManaged ==
  /\ stage = "read"
  /\ LET skill == Managed.skills[position]
         name  == Roots[skill.root].name
     IN IF ~Roots[skill.root].parses \/ \E s \in Range(loaded) : s.name = name
        THEN SkillsFail("definition")
        ELSE /\ loaded' = Append(loaded,
                   [name |-> name, path |-> skill.root, from |-> "managed",
                    content |-> tree[skill.root], usable |-> TRUE])
             /\ receipts' = Append(receipts,
                   [asset |-> [skill.asset EXCEPT !.kind = "skill"], digest |-> digest])
             /\ position' = position + 1 /\ stage' = "check"
             /\ UNCHANGED <<digest, visible, reports, gaveUp>>
  /\ UNCHANGED <<world, layerVars, loginVars, connected, snapshot, tree, prompts>>

\* The entries of a sequence at the positions of a set, in their order.
Picked(all, kept) ==
  LET upto[n \in 0 .. Len(all)] ==
        IF n = 0 THEN <<>>
        ELSE IF n \in kept THEN Append(upto[n - 1], all[n])
        ELSE upto[n - 1]
  IN upto[Len(all)]

\* A server's skills are found once it is connected.
Usable(found, source) ==
  Picked(found, {i \in DOMAIN found :
                   /\ found[i].usable /\ found[i].from = source
                   /\ source = "mcp" => found[i].server \in connected})

\* Skills of the connected MCP servers, the user, the project and extra
\* directories, in that order; unsafe trees and invalid definitions are skipped.
FoundProjectFirst ==
  LET of(source) == Usable(world.startup.found, source)
  IN of("project") \o of("mcp") \o of("user") \o of("added")

Found ==
  LET of(source) == Usable(world.startup.found, source)
  IN of("mcp") \o of("user") \o of("project") \o of("added")

AllSkills == loaded \o Found

KeptByPath(all) == {i \in DOMAIN all : \A j \in 1 .. i - 1 : all[j].path # all[i].path}

\* First by canonical path, then by name; the first one wins each time.
Kept(all) ==
  LET paths == {i \in DOMAIN all : \A j \in 1 .. i - 1 : all[j].path # all[i].path}
  IN {i \in paths : \A j \in paths : j < i => all[j].name # all[i].name}

Deduplicate(all) == Picked(all, Kept(all))

\* All managed skills are read; a host that asked must have named its snapshot.
ManagedRead ==
  /\ stage = "check" /\ position > Len(Managed.skills)
  /\ IF Managed.asked /\ Managed.id = "" THEN SkillsFail("snapshot id")
     ELSE /\ stage' = "resources"
          /\ UNCHANGED <<position, digest, loaded, receipts, visible, reports, gaveUp>>
  /\ UNCHANGED <<world, layerVars, loginVars, connected, snapshot, tree, prompts>>

\* Every connected server is asked for its skills, without a timeout, and the
\* directories are read.  The receipts must name what was asked for, to the
\* letter case of its kind.
LoadSkills ==
  /\ stage = "resources"
  /\ IF \E s \in Assets(Managed.skills) : s \notin Assets(receipts)
     THEN SkillsFail("receipt incomplete")
     ELSE /\ \E all \in {AllSkills} : visible' = Deduplicate(all)
          /\ Report("inject", Assets(Managed.skills), TRUE)
          /\ stage' = "handshake"
          /\ UNCHANGED <<position, digest, loaded, receipts, gaveUp>>
  /\ UNCHANGED <<world, layerVars, loginVars, connected, snapshot, tree, prompts>>

AsksNothing == Managed.runtime = {} /\ Managed.skills = <<>> /\ Managed.mcps = <<>>

HandshakeWithoutLateChecks ==
  /\ stage = "handshake"
  /\ snapshot' = Managed.runtime \cup Assets(receipts)
  /\ Report("handshake", Managed.runtime, TRUE)
  /\ stage' = "inject" /\ UNCHANGED gaveUp
  /\ UNCHANGED <<world, layerVars, loginVars, connected, position, digest, loaded,
                 receipts, visible, tree, prompts>>

\* runtime_asset_snapshot: all receipts or none.
Handshake ==
  /\ stage = "handshake"
  /\ IF /\ ~AsksNothing
        /\ \/ \E a \in Managed.runtime : a.kind # "engineAdapter"
           \/ \E m \in Range(Managed.mcps) : m.server \notin connected
     THEN Report("handshake", Managed.runtime, FALSE) /\ Fail("handshake") /\ UNCHANGED snapshot
     ELSE /\ snapshot' =
               Managed.runtime \cup Assets(receipts) \cup Assets(Managed.mcps)
          /\ Report("handshake", Managed.runtime, TRUE)
          /\ stage' = "inject" /\ UNCHANGED gaveUp
  /\ UNCHANGED <<world, layerVars, loginVars, connected, position, digest, loaded,
                 receipts, visible, tree, prompts>>

\* The system prompt is configured and the engine built.
Inject ==
  /\ stage = "inject"
  /\ LET invalid == {a \in Managed.core : a.kind # "assistant"} IN
     IF invalid # {}
     THEN Report("inject", {CHOOSE a \in invalid : TRUE}, FALSE) /\ Fail("core asset")
     ELSE Report("inject", Managed.core, TRUE) /\ stage' = "ready" /\ UNCHANGED gaveUp
  /\ UNCHANGED <<world, layerVars, loginVars, connected, position, digest, loaded,
                 receipts, visible, snapshot, tree, prompts>>

SaveSkill(root) ==
  /\ stage \in {"check", "digest", "read"} /\ tree[root] <= MaxEdits
  /\ root \in {s.root : s \in Range(Managed.skills)}
  /\ tree' = [tree EXCEPT ![root] = @ + 1]
  /\ UNCHANGED <<world, stage, layerVars, gaveUp, loginVars, bootVars, prompts>>

-----------------------------------------------------------------------------
(* The prompt, or the prompt loop, and the exit.                           *)

\* A failed run ends a one-shot program before its stop hooks and the shutdown
\* of its servers; the loop shows the error and goes on.
RunPrompt(result) ==
  /\ stage = "ready" /\ prompts < MaxPrompts
  /\ prompts' = prompts + 1
  /\ IF world.cli.prompt = "given" /\ result # "ok" THEN Fail("run")
     ELSE IF world.cli.prompt = "given" \/ result = "aborted"
     THEN stage' = "stop hooks" /\ UNCHANGED gaveUp
     ELSE UNCHANGED <<stage, gaveUp>>
  /\ UNCHANGED <<world, layerVars, loginVars, bootVars, tree>>

EmptyLine ==
  /\ stage = "ready" /\ world.cli.prompt = "loop"
  /\ stage' = "stop hooks"
  /\ UNCHANGED <<world, layerVars, gaveUp, loginVars, bootVars, tree, prompts>>

RunStopHooks ==
  /\ stage = "stop hooks" /\ stage' = "shutdown"
  /\ UNCHANGED <<world, layerVars, gaveUp, loginVars, bootVars, tree, prompts>>

ShutDownServers ==
  /\ stage = "shutdown" /\ stage' = "ended" /\ connected' = {}
  /\ UNCHANGED <<world, layerVars, gaveUp, loginVars, position, digest, loaded,
                 receipts, visible, snapshot, reports, tree, prompts>>

-----------------------------------------------------------------------------
StartupInit ==
  /\ world \in Worlds
  /\ LayersInit("shell") /\ LoginInit /\ (world.startup.logs_in \/ credentials = FALSE)
  /\ connected = {} /\ position = 1 /\ digest = 0
  /\ loaded = <<>> /\ receipts = <<>> /\ visible = <<>> /\ snapshot = {}
  /\ reports = {} /\ prompts = 0
  /\ tree = [r \in DOMAIN Roots |-> 1]

Bootstrap ==
  \/ OpenSession
  \/ (\E live \in SUBSET DOMAIN Get(config, "file", ConfigFile).servers : ConnectMcp(live))
  \/ CheckManaged \/ DigestManaged \/ ReadManaged \/ ManagedRead \/ LoadSkills
  \/ Handshake \/ Inject

Resolution == /\ ConfigStep(credentials)
              /\ UNCHANGED <<loginVars, bootVars, tree, prompts>>
LoggingIn  == /\ LoginStep
              /\ UNCHANGED <<world, stage, layerVars, gaveUp, bootVars, tree, prompts>>

StartupNext ==
  \/ AuthLogin \/ AuthLogout \/ ConfigInit \/ Start
  \/ LoggingIn
  \/ UserAnswers /\ UNCHANGED <<world, stage, layerVars, gaveUp, bootVars, tree, prompts>>
  \/ Resolution \/ Bootstrap
  \/ (\E r \in DOMAIN Roots : SaveSkill(r))
  \/ (\E r \in {"ok", "error", "aborted"} : RunPrompt(r))
  \/ EmptyLine \/ RunStopHooks \/ ShutDownServers

StartupSpec == StartupInit /\ [][StartupNext]_startupVars
\* What ends by itself: the pause before a poll, the steps of a start that ask
\* no server for its skills, the bounded shutdown of the servers.  A request of
\* a login, a request to a server and a stop hook have no bound.
StartupFairSpec ==
  /\ StartupSpec
  /\ WF_startupVars(LoggingIn /\ login = "waiting") /\ WF_startupVars(Resolution)
  /\ WF_startupVars(Bootstrap /\ (stage = "resources" => connected = {}))
  /\ WF_startupVars(ShutDownServers)

-----------------------------------------------------------------------------
(* Properties.                                                             *)

Stages == {"shell", "load", "profile", "resolve", "resolved", "connect", "check",
           "digest", "read", "resources", "handshake", "inject", "ready",
           "stop hooks", "shutdown", "ended", "failed"}
Begun == {"ready", "stop hooks", "shutdown", "ended"}

\* The variables keep their kinds, a start fails with a reason, and a login
\* polls at most once in an interval of its code's life and once after it,
\* however long its requests take and its pauses last (auth.rs, login).
StartupTypeOK ==
  /\ LoginTypeOK
  /\ stage \in Stages /\ (stage = "failed") = (gaveUp # "none")
  /\ position \in 1 .. Len(Managed.skills) + 1
  /\ Len(loaded) = position - 1 /\ Len(receipts) = position - 1
  /\ connected \subseteq DOMAIN Get(config, "file", ConfigFile).servers
  /\ \A r \in reports : r.phase \in {"connect", "inject", "handshake"} /\ r.ok \in BOOLEAN
  /\ tree \in [DOMAIN Roots -> 1 .. MaxEdits + 1] /\ prompts \in 0 .. MaxPrompts

\* Every setting is the one of the first layer that states it (see Layers in
\* ConfigLayers), however the code nests its merges of two files, a chain of
\* profiles, an alias and the provider under it (config.rs, Config::resolve).
ResolvedByPrecedence == config # <<>> => ResolvedFlat

\* A chain of profiles is refused exactly when it runs into a name nobody
\* defines or into itself (config.rs, resolve_profile).  A start refused over
\* its command line has looked at none.
ProfileErrorsExact ==
  stage \notin {"shell", "load", "profile"} /\ gaveUp # "usage" =>
    (gaveUp \in {"profile cycle", "no such profile"})
      = ~ProfileResolvable(merged.profiles, Get(world.cli, "profile", "none"))

\* Configuration is resolved by its rules, errors included.
ConfigExact == ResolvedByPrecedence /\ ProfileErrorsExact

\* docs/skills.md ranks the project's skills above the user's, loader.rs the
\* other way round; no order of those two is claimed.
Rank == [managed |-> 1, mcp |-> 2, user |-> 3, project |-> 3, added |-> 4]

\* The engine is given every managed skill under its own name, no name and no
\* file twice, a higher source before a lower one.  A skill is missing only if
\* one of no lower rank has its name or its file, and the name of a skill that
\* shares its file with no other is there (loader.rs, load_all_skills).
SkillPrecedence ==
  stage \in {"handshake", "inject", "ready", "stop hooks", "shutdown"} =>
    /\ IsPrefix(loaded, visible)
    /\ \A i, j \in DOMAIN visible : i < j =>
         /\ visible[i].name # visible[j].name /\ visible[i].path # visible[j].path
         /\ Rank[visible[i].from] <= Rank[visible[j].from]
    /\ \A i \in DOMAIN AllSkills :
         LET skill    == AllSkills[i]
             others   == {j \in DOMAIN AllSkills : j # i}
             samePath == {j \in others : AllSkills[j].path = skill.path}
         IN /\ \/ skill \in Range(visible)
               \/ \E j \in others : /\ Rank[AllSkills[j].from] <= Rank[skill.from]
                                    /\ j \in samePath \/ AllSkills[j].name = skill.name
            /\ samePath = {} => \E v \in Range(visible) : v.name = skill.name

\* What the host is told it got is what runs: the receipts are exactly the
\* assets it asked for, each MCP asset on a connected server, each skill with
\* the digest of the content in use, or of an older one when its author saved
\* in between; each asset has one record, of success, in its phase, and a
\* start that gave up over managed assets has a record of gaveUp instead
\* (bootstrap.rs, build and runtime_asset_snapshot).
SnapshotBacked ==
  /\ stage \in Begun =>
       /\ snapshot = Managed.runtime \cup Assets(Managed.skills) \cup Assets(Managed.mcps)
       /\ \A i \in DOMAIN receipts : receipts[i].digest <= loaded[i].content
       /\ reports = {[phase |-> "connect", asset |-> a, ok |-> TRUE] : a \in Assets(Managed.mcps)}
            \cup {[phase |-> "inject", asset |-> a, ok |-> TRUE] :
                     a \in Assets(Managed.skills) \cup Managed.core}
            \cup {[phase |-> "handshake", asset |-> a, ok |-> TRUE] : a \in Managed.runtime}
  /\ stage \in {"ready", "stop hooks", "shutdown"} =>
       \A m \in Range(Managed.mcps) : m.server \in connected
  /\ gaveUp \in {"no servers", "binding", "managed skill", "unsafe tree", "definition",
                  "receipt incomplete", "handshake", "core asset"} =>
       \E r \in reports : ~r.ok

\* The engine runs with the skills and the assets it was asked to run with.
AssetsExact == SkillPrecedence /\ SnapshotBacked

\* A start becomes ready or gives up, unless it waits for good for the skills
\* of a connected server; a login ends, unless it waits for good for an answer
\* to a request; a session past its stop hooks closes its servers and ends
\* (bootstrap.rs, build; auth.rs, login; run.rs).
StartsSettle ==
  /\ \/ <>[](stage = "resources" /\ connected # {})
     \/ (stage = "load") ~> (stage \in Begun \cup {"failed"})
  /\ \/ <>[](login \in {"requesting", "asking"})
     \/ LoginRuns ~> ~LoginRuns
  /\ (stage = "shutdown") ~> (stage = "ended")
=============================================================================
