---------------------------- MODULE ConfigLayers ----------------------------
(***************************************************************************)
(* How one start of the program turns its configuration files, its command *)
(* line, its environment and its saved login into the configuration it     *)
(* runs with: Config::resolve of tjuae-config, with the compatibility      *)
(* tables of compat.rs.                                                    *)
(*                                                                         *)
(* An optional setting is a partial function from its name to its value:   *)
(* a layer that does not state the setting does not have it in its domain, *)
(* and `overlay.or(base)` is Over(overlay, base).  A section whose fields  *)
(* all have defaults is a record: what the file did not say is its default.*)
(***************************************************************************)
EXTENDS Integers, Sequences, SequencesExt

CONSTANTS
  Worlds      \* what starts meet: [global, project, cli, env, startup]

VARIABLES
  world,      \* the files, command line, environment of this start
  stage,      \* where the start has come to
  merged,     \* the configuration file merged so far
  chain,      \* profiles visited along `extends`, in that order
  wanted,     \* the profile looked up next
  overlay,    \* what the visited profiles state, the first one first
  config,     \* the resolved configuration
  gaveUp      \* why the start gave up, "none" while it has not

layerVars == <<merged, chain, wanted, overlay, config>>

Builtin == {"anthropic", "openai", "bedrock", "vertex"}
Get(f, key, otherwise) == IF key \in DOMAIN f THEN f[key] ELSE otherwise
Only(f, keys) == [k \in DOMAIN f \cap keys |-> f[k]]
Over(over, base) ==
  [k \in DOMAIN over \cup DOMAIN base |-> IF k \in DOMAIN over THEN over[k] ELSE base[k]]

-----------------------------------------------------------------------------
(* A configuration file; an absent or unparsable one is the default one.   *)

ConfigFile ==
  [provider   |-> "anthropic",   default   |-> <<>>,
   providers  |-> <<>>,          profiles  |-> <<>>,
   tools      |-> [auto |-> FALSE, allow |-> "readers", rules |-> <<>>],
   session    |-> [enabled |-> TRUE, directory |-> "sessions", max |-> 20],
   compact    |-> [enabled |-> TRUE, window |-> 200, toon |-> FALSE],
   plan       |-> [enabled |-> TRUE, directory |-> "plans"],
   file_cache |-> [enabled |-> TRUE, entries |-> 100, bytes |-> 25],
   shell      |-> [default |-> "auto"],
   hooks      |-> <<>>,          servers   |-> <<>>,
   sections   |-> <<>>,          logging   |-> <<>>]

\* `config init` writes a template only where no file is; what the template
\* states are the defaults and two empty provider entries.
Template ==
  [ConfigFile EXCEPT !.providers = [n \in {"anthropic", "openai"} |-> <<>>]]

MergeProviderReplacing(base, over) == Over(over, base)

MergeProvider(base, over) ==
  IF "compat" \in DOMAIN base \cap DOMAIN over
  THEN [Over(over, base) EXCEPT !.compat = Over(over.compat, base.compat)]
  ELSE Over(over, base)

MergeProviders(base, over) ==
  [n \in DOMAIN base \cup DOMAIN over |->
     MergeProvider(Get(base, n, <<>>), Get(over, n, <<>>))]

\* The project's section if one of the named fields shows that it was written.
Section(global, project, name, fields) ==
  IF \E f \in fields : project[name][f] # ConfigFile[name][f]
  THEN project[name] ELSE global[name]

MergeTools(global, project) ==
  [auto  |-> global.auto \/ project.auto,
   allow |-> IF project.allow # ConfigFile.tools.allow \/ project.auto
             THEN project.allow ELSE global.allow,
   rules |-> global.rules \o project.rules]

MergeSession(global, project) ==
  IF project.directory # ConfigFile.session.directory THEN project
  ELSE [enabled   |-> global.enabled /\ project.enabled,
        directory |-> global.directory,
        max       |-> IF project.max # ConfigFile.session.max
                      THEN project.max ELSE global.max]

MergeFiles(g, p) ==
  [provider   |-> IF p.provider # ConfigFile.provider THEN p.provider ELSE g.provider,
   default    |-> Over(p.default, g.default),
   providers  |-> MergeProviders(g.providers, p.providers),
   profiles   |-> Over(p.profiles, g.profiles),
   tools      |-> MergeTools(g.tools, p.tools),
   session    |-> MergeSession(g.session, p.session),
   compact    |-> Section(g, p, "compact", {"window", "enabled"}),
   plan       |-> Section(g, p, "plan", {"enabled", "directory"}),
   file_cache |-> Section(g, p, "file_cache", {"enabled", "entries", "bytes"}),
   shell      |-> Section(g, p, "shell", {"default"}),
   hooks      |-> g.hooks \o p.hooks,
   servers    |-> Over(p.servers, g.servers),
   sections   |-> Over(p.sections, g.sections),
   logging    |-> Over(p.logging, g.logging)]

-----------------------------------------------------------------------------
(* Profiles.                                                               *)

MergeProfilesParentFirst(base, over) == Over(base, over)

\* A child's settings over its parent's; compat is replaced, not merged.
MergeProfiles(base, over) == Over(over, base)

DefaultKeys == {"model", "max_tokens", "max_turns", "malformed_turns",
                "failure_turns"}

ApplyProfile(file, profile) ==
  LET target == Get(profile, "provider", file.provider)
      entry  == Get(file.providers, target, <<>>)
      served == DOMAIN file.servers \cap
                  Get(profile, "mcp_servers", DOMAIN file.servers)
  IN [file EXCEPT
        !.provider  = target,
        !.default   = Over(Only(profile, DefaultKeys), @),
        !.shell     = [default |-> Get(profile, "shell", @.default)],
        !.providers = Over([n \in {target} |-> MergeProvider(
                         entry, Only(profile, {"api_key", "base_url", "compat"}))], @),
        !.servers   = Only(@, served)]

-----------------------------------------------------------------------------
(* The tables of the four built-in providers.                              *)

DefaultUrl(type) ==
  CASE type = "anthropic" -> "anthropic-url" [] type = "openai" -> "openai-url/v1"
    [] OTHER -> ""
DefaultModel(type) == "model-of-" \o type

\* The official OpenAI address gets the version it lacks.
NormalizeUrl(type, url) ==
  IF type = "openai" /\ url = "openai-url" THEN "openai-url/v1" ELSE url

ClaudeCompat == [thinking |-> "yes", effort |-> "no", alternate |-> "yes",
                 tool_ids |-> "yes", sanitize_calls |-> "yes", tokens |-> "128k"]
CompatDefaults(type) ==
  CASE type = "openai"  -> [thinking |-> "no", effort |-> "yes", dedup |-> "yes",
                            tool_ids |-> "yes", sanitize_calls |-> "yes",
                            api_mode |-> "chat"]
    [] type = "bedrock" -> Over([sanitize_schema |-> "yes"], ClaudeCompat)
    [] OTHER            -> ClaudeCompat

-----------------------------------------------------------------------------
(* Resolution.                                                             *)

ResolveAliasAlone(providers, name) ==
  LET entry == Get(providers, name, <<>>)
  IN [type |-> IF name \in Builtin THEN name ELSE Get(entry, "provider", "unknown"),
      entry |-> entry]

\* The built-in provider behind a name, and the settings it is used with.
ResolveAlias(providers, name) ==
  LET entry == Get(providers, name, <<>>)
      under == Get(entry, "provider", "none")
  IN IF name \in Builtin THEN [type |-> name, entry |-> entry]
     ELSE IF name \in DOMAIN providers /\ under \in Builtin
     THEN [type |-> under, entry |-> MergeProvider(Get(providers, under, <<>>), entry)]
     ELSE [type |-> "unknown", entry |-> <<>>]

\* The argument parser reads four variables as if they were options, so
\* API_KEY outranks the files although resolve_api_key looks at it last.
OptionVariables ==
  [provider |-> "PROVIDER", api_key |-> "API_KEY", base_url |-> "BASE_URL", model |-> "MODEL"]
ValueOf(variable) == "value-of-" \o variable
Parsed(cli, env) ==
  Over(cli, [o \in {p \in DOMAIN OptionVariables : OptionVariables[p] \in env} |->
               ValueOf(OptionVariables[o])])

KeyVariable(type) ==
  CASE type = "anthropic" -> {"ANTHROPIC_API_KEY"} [] type = "openai" -> {"OPENAI_API_KEY"}
    [] OTHER -> {}

HasClientId(sections) ==
  "auth" \in DOMAIN sections /\ sections.auth = "client-id"

\* Command line, provider entry, environment; a saved login counts as a key
\* that is empty, so that no key is left to send.
ResolveKey(cli, entry, type, sections, env, loggedIn) ==
  LET stated == Over(Only(cli, {"api_key"}), Only(entry, {"api_key"}))
  IN IF "api_key" \in DOMAIN stated THEN stated.api_key
     ELSE IF "API_KEY" \in env THEN ValueOf("API_KEY")
     ELSE IF KeyVariable(type) \cap env # {} THEN ValueOf(type)
     ELSE IF type \in {"bedrock", "vertex"} THEN ""
     ELSE IF loggedIn /\ HasClientId(sections) THEN ""
     ELSE "missing"

ResolveThinking(cli) ==
  CASE "thinking" \notin DOMAIN cli -> "unset"
    [] Get(cli, "thinking", "") = "disabled" -> "disabled"
    [] Get(cli, "thinking", "") = "enabled" -> Get(cli, "budget", "10000")
    [] OTHER -> "invalid"

\* Zero turns is no limit; the breakers keep their zero.
Unlimited(settings) ==
  IF Get(settings, "max_turns", "unset") = "0"
  THEN Only(settings, DOMAIN settings \ {"max_turns"}) ELSE settings

Resolved(file, cli, env, loggedIn) ==
  LET name  == Get(cli, "provider", file.provider)
      alias == ResolveAlias(file.providers, name)
      type  == alias.type
      stated == Over(Only(cli, DefaultKeys \cup {"system_prompt"}), file.default)
  IN [label    |-> name,
      type     |-> type,
      api_key  |-> ResolveKey(cli, alias.entry, type, file.sections, env, loggedIn),
      base_url |-> NormalizeUrl(type,
                     Get(Over(Only(cli, {"base_url"}), alias.entry), "base_url", DefaultUrl(type))),
      model    |-> Get(Over(Only(cli, {"model"}), Over(Only(alias.entry, {"model"}), file.default)),
                       "model", DefaultModel(type)),
      limits   |-> Unlimited(Only(stated, DOMAIN stated \ {"model"})),
      thinking |-> ResolveThinking(cli),
      caching  |-> Get(alias.entry, "prompt_caching", type = "anthropic"),
      compat   |-> Over(Get(alias.entry, "compat", <<>>), CompatDefaults(type)),
      file     |-> [file EXCEPT !.tools.auto = @ \/ Get(cli, "auto_approve", FALSE),
                                !.compact.toon = @ \/ Get(cli, "toon", FALSE)]]

\* The first thing resolution stops at, in the order the code meets them.
Refusal(resolved, cli) ==
  IF resolved.type = "unknown" THEN "unknown provider"
  ELSE IF resolved.api_key = "missing" THEN "no key"
  ELSE IF resolved.thinking = "invalid" THEN "thinking"
  ELSE IF "compaction" \in DOMAIN cli THEN "compaction level"   \* one that does not parse
  ELSE "none"

-----------------------------------------------------------------------------
(* The steps.                                                              *)

Fail(reason) == stage' = "failed" /\ gaveUp' = reason

LoadFiles ==
  /\ stage = "load"
  /\ merged' = MergeFiles(world.global, world.project)
  /\ wanted' = Get(world.cli, "profile", "none")
  /\ stage' = IF wanted' = "none" THEN "resolve" ELSE "profile"
  /\ UNCHANGED <<world, chain, overlay, config, gaveUp>>

VisitProfileForgiving ==
  /\ stage = "profile"
  /\ wanted \in DOMAIN merged.profiles \ Range(chain)
  /\ LET profile == merged.profiles[wanted]
         parent  == Get(profile, "extends", "none") IN
       /\ overlay' = MergeProfiles(profile, overlay)
       /\ wanted' = IF parent \in DOMAIN merged.profiles THEN parent ELSE "none"
       /\ chain' = Append(chain, wanted)
       /\ IF wanted' # "none" THEN UNCHANGED <<stage, merged>>
          ELSE stage' = "resolve" /\ merged' = ApplyProfile(merged, overlay')
  /\ UNCHANGED <<world, config, gaveUp>>

\* One level of resolve_profile.
VisitProfile ==
  /\ stage = "profile"
  /\ wanted \in DOMAIN merged.profiles \ Range(chain)
  /\ LET profile == merged.profiles[wanted] IN
       /\ overlay' = MergeProfiles(profile, overlay)
       /\ wanted' = Get(profile, "extends", "none")
       /\ chain' = Append(chain, wanted)
       /\ IF wanted' # "none" THEN UNCHANGED <<stage, merged>>
          ELSE stage' = "resolve" /\ merged' = ApplyProfile(merged, overlay')
  /\ UNCHANGED <<world, config, gaveUp>>

ProfileFailsUnlessCyclic ==
  /\ stage = "profile"
  /\ wanted \notin DOMAIN merged.profiles
  /\ Fail("no such profile")
  /\ UNCHANGED <<world, layerVars>>

ProfileFails ==
  /\ stage = "profile"
  /\ wanted \notin DOMAIN merged.profiles \ Range(chain)
  /\ Fail(IF wanted \in Range(chain) THEN "profile cycle" ELSE "no such profile")
  /\ UNCHANGED <<world, layerVars>>

\* Alias, address, model, limits, key, compatibility and thinking in one step:
\* nothing else runs between them.
ResolveConfig(loggedIn) ==
  /\ stage = "resolve"
  /\ LET cli      == Parsed(world.cli, world.env)
         resolved == Resolved(merged, cli, world.env, loggedIn)
         refusal  == Refusal(resolved, cli)
     IN IF refusal # "none" THEN Fail(refusal) /\ UNCHANGED config
        ELSE config' = resolved /\ stage' = "resolved" /\ UNCHANGED gaveUp
  /\ UNCHANGED <<world, merged, chain, wanted, overlay>>

ConfigStep(loggedIn) ==
  LoadFiles \/ VisitProfile \/ ProfileFails \/ ResolveConfig(loggedIn)

LayersInit(start) ==
  /\ stage = start /\ gaveUp = "none"
  /\ merged = ConfigFile /\ chain = <<>> /\ wanted = "none"
  /\ overlay = <<>> /\ config = <<>>

-----------------------------------------------------------------------------
(* The reference: one flat list of layers for every setting, strongest     *)
(* first, without the merges above.                                        *)

FirstStated(layers, key, otherwise) ==
  LET hits == {i \in DOMAIN layers : key \in DOMAIN layers[i]}
  IN IF hits = {} THEN otherwise
     ELSE layers[CHOOSE i \in hits : \A j \in hits : i <= j][key]

Files == <<world.project, world.global>>
ProfileLayers == [i \in DOMAIN chain |-> merged.profiles[chain[i]]]
FileProvider ==
  IF world.project.provider # ConfigFile.provider
  THEN world.project.provider ELSE world.global.provider
ProfileTarget == FirstStated(ProfileLayers, "provider", FileProvider)
Options == Parsed(world.cli, world.env)
Requested == Get(Options, "provider", ProfileTarget)

EntryLayers(name) == [i \in DOMAIN Files |-> Get(Files[i].providers, name, <<>>)]
Underlying == IF Requested \in Builtin THEN Requested
              ELSE FirstStated(EntryLayers(Requested), "provider", "none")

\* What the profiles state of a provider entry lies on the entry they target.
Overlaid(name, layers) == (IF name = ProfileTarget THEN layers ELSE <<>>) \o EntryLayers(name)
ProviderLayers(profiles) ==
  Overlaid(Requested, profiles)
    \o (IF Underlying = Requested THEN <<>> ELSE Overlaid(Underlying, profiles))

\* Only the nearest profile that states compat counts, over the files' entries.
CompatLayers ==
  LET nearest == FirstStated(ProfileLayers, "compat", <<>>)
      layers  == ProviderLayers(<<[compat |-> nearest]>>)
  IN [i \in DOMAIN layers |-> Get(layers[i], "compat", <<>>)]

DefaultsOf(files) == [i \in DOMAIN files |-> files[i].default]

\* The documented order of keys: command line, files, API_KEY, the variable of
\* the provider, and no key at all for a cloud provider or a saved login.
KeyInOrder ==
  LET variable == IF "API_KEY" \in world.env THEN ValueOf("API_KEY")
                  ELSE IF KeyVariable(Underlying) \cap world.env # {} THEN ValueOf(Underlying)
                  ELSE ""
  IN Get(world.cli, "api_key",
         FirstStated(ProviderLayers(ProfileLayers), "api_key", variable))

\* The exception: with API_KEY set and no key on the command line the program
\* puts the variable above the files, against that order; not claimed either way.
KeyOfOption ==
  IF "API_KEY" \in world.env /\ "api_key" \notin DOMAIN world.cli
  THEN {ValueOf("API_KEY")} ELSE {}

ResolvedFlat ==
  LET cli    == <<Options>>
      limits == cli \o ProfileLayers \o DefaultsOf(Files)
  IN /\ config.label = Requested /\ config.type = Underlying
     /\ config.model = FirstStated(cli \o ProviderLayers(<<>>) \o ProfileLayers
                                     \o DefaultsOf(Files), "model", DefaultModel(Underlying))
     /\ config.base_url = NormalizeUrl(Underlying,
          FirstStated(cli \o ProviderLayers(ProfileLayers), "base_url", DefaultUrl(Underlying)))
     /\ config.api_key \in {KeyInOrder} \cup KeyOfOption
     /\ \A k \in {"max_tokens", "max_turns", "failure_turns"} :
          LET limit == FirstStated(limits, k, "unset") IN
          IF k \notin DOMAIN config.limits
          THEN limit \in {"unset"} \cup (IF k = "max_turns" THEN {"0"} ELSE {}) ELSE config.limits[k] = limit
     /\ \A f \in {"thinking", "dedup", "api_mode", "sanitize_schema"} :
          Get(config.compat, f, "unset")
            = FirstStated(CompatLayers \o <<CompatDefaults(Underlying)>>, f, "unset")
     /\ DOMAIN config.file.servers =
          (DOMAIN world.global.servers \cup DOMAIN world.project.servers)
            \cap FirstStated(ProfileLayers, "mcp_servers",
                             DOMAIN world.global.servers \cup DOMAIN world.project.servers)

\* A profile resolves if it and its ancestors are defined and none of them is
\* its own ancestor: every set of them has one whose parent is outside.
ProfileResolvable(profiles, name) ==
  LET Parent(n) == Get(profiles[n], "extends", "none") IN
  \/ name = "none"
  \/ \E line \in SUBSET (DOMAIN profiles \ {"none"}) :
       /\ name \in line
       /\ \A n \in line : Parent(n) \in line \cup {"none"}
       /\ \A ring \in SUBSET line : ring # {} => \E n \in ring : Parent(n) \notin ring
=============================================================================
