# TjuaeCLI in TLA+

A verification project for TjuaeCLI, an AI agent for the command line: a Rust
workspace whose engine sends a conversation to a language model, executes the
tool calls that come back and feeds the results into the next turn, either in a
terminal or for a host program that talks JSON lines over stdin and stdout. Paths
below are relative to the repository; crates are `crates/tjuae-*`.

The modules are translated from the Rust code. `PROJECT.json` maps every
definition to the lines it stands for, and lists the runs, the mutants that show
that each property can fail, the hazards of the code and the theorems.

## 1. Inventory

| Component | State it keeps | Operations | Correct when |
|---|---|---|---|
| Approval manager (`tjuae-protocol/src/approval.rs`) | pending table of oneshot senders, auto-approved categories, session mode | request, approve, resolve, set mode, drop pending | a waiting receiver has exactly one sender |
| JSON stream session (`tjuae-cli/src/json_stream/`) | command queue, phase, configuration queued in flight, connected MCP servers | pre-message phase, dispatch, select loop of a message, cleanup | every message ends once, control commands are served in flight, what the client was told is what is in force |
| Tool execution with approval (`tjuae-agent/src/orchestration.rs:241`) | the call it is at | request, wait, run, refuse | no call runs without authority |
| Terminal tool round (`orchestration.rs:35`, `engine.rs:649`, `tool_call.rs:169`, `confirm.rs`) | batches, confirmations, results and modifiers | partition, confirm, run, merge, apply modifiers | one result per call, unsafe calls run alone, only confirmed calls run |
| Plan mode (`plan/tools.rs`, `plan/state.rs`) | active flag, saved allow list | enter, exit | leaving restores what held before |
| Agent run loop (`engine.rs`) | conversation, session file, counted turns | run, commands, turn, compaction, finalization, save, abort, resume | history on disk at every await, every request well paired, bounded requests |
| Turn guards (`turn.rs`, `tool_call.rs`) | four trackers with counts and a history of fingerprints | observe a round, verdict, warning | each breaker fires at its count and never before, warning first |
| Provider projection (`openai_messages.rs`, `anthropic_shared.rs`) | queues of dropped and generated ids | projection, deduplication, orphan removal, merging, alternation | calls and results paired in what is sent |
| Stream runner (`stream_runner.rs`, `retry.rs`, `transport.rs`) | retry counters, bounded event channel | send, resend, forward, report | one answer is heard, a broken stream is never taken for a whole one, it ends |
| Provider decoders (`framing.rs`, `openai.rs`, `openai_responses.rs`, `anthropic_shared.rs`, `stream_process.rs`) | pending bytes, accumulated calls, a Done held back | push a chunk, parse a frame, judge the end | whatever the chunks, what is told is what the server meant, each call once |
| Session store (`session.rs`) | one `state.json` per session, the temporary file, per-process locks | create, save, load, cleanup | every session is an atomic register, the oldest go first |
| MCP client (`tjuae-mcp`, `tjuae-skills/src/mcp.rs`) | connections with their pending senders, request ids, registered names | connect all, list, register, call, read resources, add a server, shut down | an answer reaches its own request; a name means one tool; start-up ends |
| File tools (`tjuae-tools/src/{read,edit,write,file_cache}.rs`) | LRU cache of file states with two limits | read, edit, write, clearing of old results | no version nobody saw is overwritten or hidden |
| Process runner (`tjuae-process`) and command tool | child, containment, reader tasks, buffers | spawn, attach, exit, time out, drain, kill, be dropped | it returns, with the output, and leaves nothing behind |
| Hooks (`tjuae-config/src/hooks.rs`, `tjuae-skills/src/hooks.rs`) | configured and added hooks | match, run before, after and at the end, add | a blocked call does not run; a skill adds only what it may |
| Skills (`tjuae-skills`) | loaded skills, receipts of managed ones | load by source and priority, permit, run embedded commands | the right one of equal names, managed ones with their digests, MCP content never runs |
| Configuration (`tjuae-config/src/{config,compat}.rs`) | resolved configuration | merge files, profiles, aliases, environment, command line | each setting is that of the first layer that states it |
| Login (`tjuae-config/src/auth.rs`) | device code, credentials file | request, poll, save, log out | it polls no faster than told and only in the life of its code, and waits for nothing but an answer |
| Start of the agent (`tjuae-agent/src/bootstrap.rs`, `tjuae-cli/src/{run,main,bootstrap}.rs`) | boundary records, receipts | connect, inject, handshake, prompt loop, shutdown | what the host is told is what runs; it becomes ready or gives up, or waits for a server |
| Compaction heuristics (`compact/`, `context_usage.rs`) | token counts, circuit breaker | micro, auto, emergency | choices of `AgentRun` |
| Sub-agents (`spawner.rs`) | child engines | spawn, join | planned |
| Provider requests and signing, search tools, memory, output compaction, rendering | files and text | build, match, transform, print | not modelled: sequential functions and I/O |

How they interact. The session task owns the engine. While a message is in
flight it polls, in one `select!`, the engine's future and the command queue a
reader thread fills; so engine and commands interleave at the engine's awaits.
The approval manager is shared between them: the engine registers a oneshot
sender under the call's id and awaits the receiver, the loop takes the sender out
and sends the answer. The engine calls the provider, whose stream runner is a
task of its own behind a channel of 64 events, and executes tools, in the
terminal path several at a time. Its messages go to the session file after every
change and through a projection into each provider's wire format. MCP tools are
registered between the built-in ones that are always there and those registered last (Skill,
Spawn, the plan tools, ToolSearch); a call to one goes through its manager to a
child's pipe or to HTTP. Read, Edit and Write share one cache of file states.
Around every call run the hooks, which are processes like those of the command
tool and of a skill's embedded commands. Before all of it the configuration is
resolved once, and a host may name the assets the agent must run with.

What is hard: answers that come early, late, twice or never; dropping the engine's
future anywhere (Stop); configuration that changes while a request runs; a crash
between calls and results followed by a resume; retries nested in retries over a
channel that is full or closed; several counters that must each end a run at
the right round; matching results to calls that have no id; answers of a server
matched by position or by an id all calls share; files that change between two
looks at them; characters and tool calls cut anywhere by the network; processes
that outlive their parent; two programs in one session directory.

## 2. Modules

| Module | Models | Lines up with the code as |
|---|---|---|
| `Approval` | approval manager, with abstract waiters | `pending`, `autoApproved`, `sessionMode` are the three mutexes; `rx` is a waiter's oneshot receiver. One action per method; `TakeAnswer` and `Abandon` are the waiter's two ways out |
| `JsonStream` | session, select loop and approval path; EXTENDS `Approval` | `phase` is the position in `session::run`, `eng` the await the engine's future is suspended at, `inbox` the queue. `Handle*` are the arms of `dispatch::handle` and of the in-flight `match`, `Engine*` the engine's steps, `Pre*` the pre-message phase |
| `ToolRound` | `execute_tool_round` in both modes, and plan mode | `left` are the calls of the batches not ended yet, of which `Partition` picks the next; `toConfirm`, `approved`, `running`, `results` are the locals of `execute_tool_calls`; `engineList` and `confirmList` the two allow lists |
| `TurnGuards` | trackers and verdict after a tool round | one record per tracker; `Verdict` and `Warning` follow the order of the tests in `after_tool_round` |
| `WireProjection` | both projections as operators on a conversation of call and result ids | folds over the messages; one operator per pass |
| `AgentRun` | run loop, saves, compaction, crash and resume; EXTENDS `WireProjection` | `history` is `engine.messages`, `disk` the file, `phase` the await. Every action ends at the next await and includes its save |
| `Decoders` | from the bytes of a body to events, for the four APIs | `arrived`, `decoded`, `parsed` are the three positions in the body: received, out of `Utf8StreamDecoder`, through the parser; `st` is the parser's accumulators and flags; `Meant` says what the server meant |
| `StreamRunner` | `run_stream`, its retries, the channel and `consume_stream`; EXTENDS `Decoders` | `pc` is the runner's position, `connects`/`fives`/`attempt` the three nested counters |
| `SessionStore` | `SessionManager`, one step per access to the file system | `state`, `tmp`, `dir`, `legacy` are the files, `locks` the static map of each process, `handle` the open file, which a rename or removal moves along |
| `SessionRegister` | what `SessionManager` promises | one register per session |
| `CallAuthority` | what a session promises the user whose tools it runs | one standing for each call |
| `ProcessRunner` | one command with the processes it starts | `pc` is the await of `CommandRunner::run`, `reader` its two tasks, `holds` who has a pipe open; `Runner` are the code's steps, `World` those of the processes |
| `ToolCommands` | `execute_single`: hooks, command tool, skills; EXTENDS `ProcessRunner` | `phase` is the position in the call, `todo` the hooks left, `hooks` the `HookEngine`'s configuration |
| `ConfigLayers` | `Config::resolve` with compat tables | an absent setting is one outside a function's domain, `a.or(b)` is `Over(a, b)` |
| `OAuthLogin` | device login | `login` is the position of the polling loop, `now` the time since the device code, `polls` the polls sent; requests and pauses take what `Waits` allows, and a request may hang |
| `AgentStartup` | commands, bootstrap, managed assets, prompt loop; EXTENDS the two | `stage` is the await or phase (`resources` the one for the skills of MCP servers), `reports`, `receipts`, `snapshot` what the host gets |
| `Mcp` | manager, three transports, registration, skills, servers added later | a connection is a record: `stage` is the position in `connect_server`, `request` and `post` the await of `request()`, `slot` the table of SSE senders, `wire` what the server wrote and nobody read. `n`, the number of a request, is the observer's; the code sees `id` |
| `FileTools` | Read, Edit, Write, the cache and compaction against outside writers | every access to the file system is a step; `cache` is the LRU list (`Others` and `Place` what an insertion keeps), `bytes` its counter, `live` the results still in the conversation, `written` and `cleared` the versions that came of an edit or a write and the results a compaction took; a content is a version number |
| `MC*` | model values, symmetry and sets for TLC | |
| `*Proofs` | theorems, see section 4 | |

Abstractions common to them. Text, arguments, tokens and timings are left out.
The provider, the tools, the user and the estimates that trigger compaction are
nondeterministic, limited to what the code accepts from them. An action is the
code between two awaits, since nothing else of the same task can run in between
and the locks are held only inside one call. Variables under "observers" record
what was seen; no guard reads them, with one exception: in `JsonStream` the
client answers a call it has seen `requested`.

### Abstract specification and refinement

`CallAuthority!AuthoritySpec` is the promise of a session to the user: each call has one
standing, a question is asked once and while no other is open, it gets one answer, a call
runs on a grant of its own or under a policy that lets it, and a refusal or the end of
the session before it ran is final. `JsonStream` has no such variable. `CallStandings` computes it
from the receiver the engine waits on, its place in the round and what was observed of the
call, and `ImplementsAuthority` says that queue, table of senders, oneshot channel, mode changes,
Stop and EOF together move it only so. It is no projection of the code's state: an entry
left in the table, an answer taken for another call or a call run without its answer
breaks it (two mutants do). Checked by the run `JsonStream`, proved as
`SessionImplementsAuthority`. `JsonStream` uses the actions of `Approval` inside of its own, so
that it keeps to them needs no check; `Approval!ApprovalSpec` serves the proof, where it carries
the manager's guarantee over to a session.

`SessionRegister!RegisterSpec` is the promise of the session store: every session is one
register, a call takes effect at one moment between its start and its answer, a
failed call changes nothing, `create` replaces nothing, and only a session that a
listing showed to have `max_sessions` others at least as new is removed. The decision is
made on the listing (`doomed`), not at the removal: by then another process may have
removed some of the others, or saved anew, so a stronger promise is false. `SessionStore` implements it under a
mapping that makes a call pending until its rename, a load until it read, and that
looks through the gap of a Windows replacement (the old file is removed before the
new one is renamed): `ImplementsRegister`. The promise ends, for one session, when two
processes were in its critical section at once, since the locks are per process and
the temporary file has one name, or when a process died inside that gap; the
variable `shared` says for which, and the register may then hold anything. An
evicted session whose file of the old layout still lies there comes back as that.

Not a refinement but the same idea: in `StreamRunner` the events told are compared with
`Meant(response)`, and in `ConfigLayers` the nested merges with `Layers`, one flat list in
order of precedence.

## 3. Runs

Bounds are constants in the `.cfg` files and appear as guards of the actions that
would otherwise go on for ever; the sets of worlds and bodies are in the `MC` modules.
Several properties are conjunctions; the parts are named in the modules.

| Run | Instance | Shows |
|---|---|---|
| `JsonStream` | two messages, two calls of different category, three configuration updates, three commands besides answers | authority for every started call; entries only while waited for; a waiting receiver has its sender; one `stream_end` per message; the client's picture is current between messages and the configuration stable in flight (`SettingsAsAnnounced`); what comes of each call is what would come of it if the user were asked in person (`ImplementsAuthority`); messages end if their requests are answered, and pings are answered, in flight too (`ClientIsServed`). Three commands are what it takes for message, set_config or set_mode in flight, and a second message or a Stop |
| `JsonStreamEof` | one message, two calls | **violated**: EOF while an approval is awaited, see below |
| `AgentRun` | budgets 0, 2; two runs, two calls in every shape (without id, name, both); one crash, one failed save; 440 thousand states | disk equals history at each await after a successful save; OpenAI and Anthropic requests pair calls and results, of the right calls (`RequestsPaired`); at most one request beyond the budget, and an answer is recorded (`RunEndsInOrder`) |
| `AgentResume` | the same without the calls that lack both | **violated**: resume after an interrupted round |
| `TurnGuards` | two fingerprints of each kind, 13 turns, failure limit 0 (off) and 3 (the default) | the breakers are exact against a plain definition over the whole streak, and a warning precedes (`BreakersExact`); every run ends. 13 turns are one more than three repetitions of the longest period, four, so the history is trimmed |
| `ToolRound` | one tool of each kind with Skill and the plan tools, rounds of three, four calls in all; 795 thousand states | every call answered once, by its own result, in order unless a call was refused (`RoundAnswered`); only confirmed calls run, unsafe ones alone, Quit starts nothing of its batch (`RunsWithLeave`) |
| `StreamRunner` | whole responses of four APIs with up to two calls of two pieces, in all orders the APIs allow, with reasoning items, a broken byte, ids left out; chunks of up to five bytes, two to a character; channel of two; the code's retry limits; broken off anywhere | the engine hears one response, an answer taken for complete is one whose stream ended, and no character is torn (`OneResponseWhole`); the calls told are the first of those meant, each once with all arguments, Done once and last, and a complete answer is the whole of what was meant (`HeardAsMeant`); sends bounded by the product of the retries; the request ends. The channel holds 64 in the code; two is enough for it to be full with an event still to come |
| `SessionStore` | two clients in one process or two, on both platforms, two sessions of which one may exist in either layout, one may be kept; deaths at any step; 249 thousand states up to symmetry | `ImplementsRegister`, with locks that are held exactly in the critical sections (`TypeOK`). One session to keep makes every create evict; two versions tell an old value from a new one |
| `ToolCommands` | two calls of command tool, Edit, Skill, unknown tool; with and without configured hooks; five skills (one with commands and hooks, two of MCP servers that have commands or hooks, one that asks for more than it may, one that forks); each command a child, a process in its group and one out of it, one chunk for each stream; 218 thousand states | what a result says of processes and output is true (`ResultIsTrue`); the tool of a call runs only after every matching pre hook ended with code 0; skills keep within their permission, MCP content never runs, and the hooks in force are the configured ones with, behind them, those of skills that may act, each under a new name (`SkillsStayBounded`); a command returns, but for the grandchild below. Three processes are one of each fate under a kill; two calls let a skill's hooks meet a later call |
| `AgentStartup` | about 1,450 worlds: both files, aliases, five profile names, seven command lines, three environments; managed skills and bindings of eight and five kinds; logins, first starts, resumes, one-shot prompts; one save of a managed skill, two prompts; login of 12 s with polls each 5 s, requests and pauses that take 0 or 4 s more; 33 thousand states | each setting is that of the first layer that states it, profile errors exactly where a chain is broken (`ConfigExact`); skills by priority without doubles, and every receipt, record and connection behind what the host is told (`AssetsExact`); a login polls once an interval while its code lives and once after it, whatever a request takes (`StartupTypeOK`); starts, logins and shutdowns settle, but for a start that waits for the skills of a connected server and a login that waits for an answer (`StartsSettle`). 12 s hold two polls with slow answers, and three without |
| `Mcp` | three deployments of two servers: stdio and SSE together; stdio, or SSE, with an HTTP server added later under the same name; up to four requests each, one fault | a call gets an answer not its own only after an unanswered request, never on HTTP, on SSE only between tool calls; a plain name is no other MCP tool's and no built-in tool's that was there before, and the name of a later built-in tool belongs at most to a configured server's tool called so (`PlainNamesUnique`); start-up ends, and where a call can wait (`NoWaitOfItsOwn`). Four requests are the handshake and two calls, the least for an answer to go astray; one fault is what each exception needs |
| `FileTools` | two files, a whole and a partial read, entries of one or two bytes, cache of two entries and two bytes; two versions beside the first, two clock values, three calls; 1.85 million states up to symmetry | edits overwrite, and stubs hide, seen versions only, except in the windows named, and a stub refers to a result of Read that is in the conversation, except where disagreement 5 has it false (`CacheAgreesWithModel`); the accounting of the cache, both limits reached (`TypeOK`). Three calls are Read, Edit or Write, and Read; two clock values tell a write in the same millisecond from a later one |

Only `SessionStore` checks deadlock: the other systems may stop (a session exits, a run
of the guards ends, a start fails, bounds are exhausted). What must not stop is
stated as liveness.

### Fairness

`JsonStream!FairSpec`: weak fairness of the engine (provider and tools
eventually return; the future is polled in the loop), of the host (the select
polls its ready branches in random order, so the queue cannot be starved), and of
the client's answers while stdin is open. `MessageFinishes` gives up when stdin
is closed, which is the case `ExitsAfterEof` is about.
`StreamRunner!FairSpec`: weak fairness of the runner task and of the consumer.
That the response eventually sends, ends or breaks is an assumption on the
network: the code sets no timeout between chunks. `TurnGuards!FairSpec`: the loop
keeps turning because every request ends. `Mcp!McpFairSpec`: weak fairness of the
steps of the client that have all they need (a line, an event, a body, a timer);
nothing of servers, and nothing of a POST, which has no timeout.
`ToolCommands!FairSpec`: `RunnerFairness`, weak fairness of each step of the runner, of its
readers and its timers; nothing of the processes, which may run, write and keep a
pipe for ever. `AgentStartup!StartupFairSpec`: weak fairness of what ends by itself, which is the
pause of a login before its next poll, the resolution, the bootstrap as long as it asks no server
for its skills (the connects before that have a timeout, the shutdown behind it is bounded).
Nothing of the requests of a login, whose client has no timeout (`auth.rs:84`), nor of its
answers; nothing of the resources of a connected server (`tjuae-skills/src/mcp.rs:31`); nothing
of the stop hooks, which may wait for an escaped grandchild (9. below), nor of the user.

### Disagreements found

With a run:

1. EOF with an approval outstanding does not end the process
   (`docs/json-stream-protocol.md` §3.5; `message.rs:69`): the closed queue only
   disables a branch, and the sender the engine waits for is owned by the waiting
   session itself. The branch for a closed receiver (`orchestration.rs:301`) is
   never taken.
2. A round interrupted by a crash or by Quit leaves calls without results in the
   file, and a resume sends them so to Anthropic (`engine.rs:1468`). The repair,
   `abort_current_turn`, is called by tests only. The OpenAI projection copes,
   except with an interrupted call that has no id.

Visible in the modules, which follow the code, without a run of their own:

3. Leaving plan mode restores `AgentEngine.allow_list` only; in the terminal the
   confirmer's own list decides (`plan/tools.rs:98`; `ToolRound`).
4. An MCP server added by the client that fails to connect is announced with
   `mcp_ready` (`docs/json-stream-protocol.md:286`; `manager.rs:73` returns Ok
   whatever failed, so `pre_message.rs:114` is never reached; `Mcp`). For the same
   reason the error branch around `connect_all` in the bootstrap is dead.
5. After an Edit or a Write, a Read of the file is answered with “unchanged, the
   earlier Read result is still valid” (`read.rs:14`), because the cache entry a
   write leaves looks like a full read (`file_cache.rs:109`; `FileTools`): the earlier
   result is the old version, or there is none. The same answer is given when
   microcompaction cleared the result, or autocompact put a summary in its place, since
   neither tells the cache. `StubRefersToRead` excepts these two cases and claims the
   comment's words of all others.
6. `API_KEY` outranks the files' keys, because clap reads it into the command line
   (`cli.rs:22`), while `docs/getting-started.md:188` and the comment at `config.rs:391` rank files
   before it. `ConfigExact` states the documented order and leaves the key open where
   `API_KEY` is set and the command line has none. A login is said to stand in for a key (`getting-started.md:194`,
   `config.rs:603`), but nothing calls `OAuthManager::get_token`. A project's explicit
   value that equals the default cannot override the global file's. User skills
   are loaded before a project's (`loader.rs:86`), which `docs/skills.md:17` has the other way
   round; `AssetsExact` claims no order of the two (`ConfigLayers`, `AgentStartup`).
7. The digest in a receipt of a managed skill is taken before its content is read
   (`loader.rs:236`): a save in between runs new content under the old digest. The
   kind of a managed asset is compared with and without regard to case in two
   places. A skill can be lost when another has its file and a third its name. A
   failing one-shot prompt skips the stop hooks and the closing of MCP servers
   (`run.rs:56`). The last login poll may come after the deadline.
8. A byte that is no UTF-8 holds back all that follows until as many more pushes
   came, where a comment rules out buffering (`framing.rs:49`). An OpenAI stream that
   ends without `[DONE]` loses the Done held back and unfinished calls and still
   counts as complete; a length limit drops the calls. An id sent as `""` in a later
   delta erases the first one (only the name is guarded; the bodies of the run
   exclude it). Bedrock makes up a Done for a stream that was cut, and drops frames
   that are not UTF-8. An Anthropic stream that breaks after a Done without content
   is resent, so Done can be heard twice.
9. After a timeout the readers are awaited without a bound, on the ground that killing
   the containment closes every writer (`runner.rs:86`); on Unix a grandchild that left
   the process group is not killed and can keep the caller waiting. A command's future
   that is dropped kills only the direct child.
10. Hooks after a call and at the end are run and counted, their failure has no
   effect. A skill with `context: fork` always fails, since nobody gives `SkillTool` a
   spawner. An embedded command that exits with an error but wrote something counts
   as a success. `TOOL_INPUT_COMMAND` is read from a field `command` that the command tool
   calls `cmd`.
11. The comment at `tool_proxy.rs:105` has an MCP tool prefixed when its name is a built-in
   tool's. The names it is compared with are taken before Skill, Spawn, EnterPlanMode,
   ExitPlanMode and ToolSearch are registered (`bootstrap.rs:237`, `:293`), so a configured
   server's tool of such a name keeps it, and `registry.rs:24`, where the first one
   wins, never finds the built-in tool (`Mcp`).
12. A login request, and the listing and reading of the resources of a connected MCP server
   during a start, have no timeout (`auth.rs:84`, `tjuae-skills/src/mcp.rs:31` and `:45`): a
   server that accepts and stays silent keeps `auth login`, or the start, waiting for ever.
   `StartsSettle` names both.

Also met, modelled as the code has them: the refusal of a call
in a concurrent batch precedes the results of the batch (`engine.rs:644` promises
call order; the failure fingerprint zips by position; `InOrderUnlessRefused` is
what holds); a 429 on the first send is final, although
`docs/troubleshooting.md:49` says the agent retries; the prefix of a colliding MCP
tool is `mcp__server_`, not `mcp__server__` (`tool_proxy.rs`), so two
pairs of server and tool can read the same; Stop sends no
`stream_end` (§2.2 of the protocol asks for one); `scope: always` is ignored by
both handlers (§2.3), so `approve` has no caller; a second `set_config` in flight
replaces the first (§2.7); any first command ends the pre-message phase (§2.8);
approvals are requested one at a time, never two (§3.4); a slash command emits
`stream_end` without `stream_start`; Stop before the first message skips the
cleanup; the budget allows one request more for the final answer.

## 4. Proofs

Everything in this section holds for every value of the constants, under the
named assumptions of the modules: `None` is not a message, call, answer, fingerprint or
version, every call has a category, there is one waiter `"engine"`, bounds are naturals
(some of them not zero), updates are partial functions to `Values`; the hooks that may be
configured, and those of skills, are sequences of hook definitions for each event
(`HooksAssumption`); there are finitely many sessions (`SessionsAssumption`), and no client
has the name of a mark for a file or of a free lock (`NamesAssumption`); a body of a provider
is a sequence of frames of the decoder's kinds, whatever their order (`BodiesAssumption`);
`Nil` is no request, line or number and there are finitely many MCP servers.

Folds and recursive functions. The invariants of `ToolRound`, `FileTools`, `ToolCommands`,
of the byte counter and of the provider projection depend on what `FoldLeft`, or a function
recursive on a natural, returns.
That such a function exists and meets its equation is proved in the modules that need it:
naturals are well-founded, so a set of naturals that holds 0 and is closed under + 1 holds
them all (`NatSetInduction`); the set is then that of the lengths up to which a function with
the equations exists (`FoldExists`). Where only membership is needed, the same induction is
over the prefixes (`FoldTrace`, `CallsTrace`, `TakenTrace`).

`JsonStreamProofs`, first part, is about the manager alone. `WaiterHasOneSender` is not
inductive: `Resolve` must know that the entry it removes names a receiver that still
waits, and no second entry does. The invariant joins it to the types.
`ApprovalTypeCorrect` and `WaitersReachable` follow.

The second part is about the session. The inductive invariant `CallsInv` is the type
invariant and both safety properties with three strengthenings:

- `EngineInv`: the engine runs in phase `running` only, and has calls left exactly
  while it is at one;
- `RoundInv`: the calls of a round are distinct, and those not reached, like the
  ids not used, are fresh: never requested, answered or started. Without it a
  call could be started that an early answer had "approved";
- `ReceiverInv`: while it waits, the receiver is empty and the call unanswered, or
  it holds the very answer recorded for the head of the round. It is what carries
  an approval from the loop's step to the engine's.

Each action has a lemma; `CallsInvariant` puts them together. From it:
`SessionTypeCorrect`, `NoCallWithoutApproval`, `NoEntryLeftBehind`,
`SessionImplementsAuthority` (a step moves the standing of one call as the specification has
it, or of none; the invariant is needed to see that no other question is open when one is
asked, that the answer the engine takes is the one given to this very call, and that a
refused or withdrawn call is never at the head of a round again), and
`SessionWaitersReachable` from the manager's guarantee.

The third part is about what the client sees, on top of `CallsInvariant`.
`OneEndForEachMessage`: beside the counts, `StreamsInv` says that there is a current message
exactly in phase `running`, and that its start is still to come while the engine has not
called the provider; `EndStep` is where the two ways a message ends meet.
`SettingsAnnounced`: `SettingsInv` says that what was announced is in force unless a change of
mode in flight is still to be announced, and that neither it nor a queued configuration
outlives the message; the stability in flight is a property of each step.

`ToolRoundProofs`. `RoundTypeCorrect`, `EveryRoundAnswered` and `WhatRunsHasLeave`, for every
set of tools and any round. The invariant `RoundInv`:

- `BatchInv`: the batches that ended come before those left; the calls of the current
  one are confirmed, and approved, in order;
- `LeaveInv`: what runs or ran was approved, and nothing of a batch does before all of
  it is confirmed. This carries the user's Quit to "nothing of its batch starts";
- `ResultsInv`: which calls have results, namely those of ended batches and the refused
  ones of the current batch, each saying how its call ended, in order if none was refused;
- `SettledInv`: nothing is left of a round when the model is asked.

The core is `PartitionFacts` (the next batch is the least call left and, when it is safe, the
safe ones up to the next unsafe one) and `EndBatchStep` (sorting the results of a batch by
position puts them behind those of the batches before it).

`StartAndTurnsProofs`, first part. `GuardsTypeCorrect` and `BreakersAreExact`, for every set of
fingerprints, budget and limits. The counting trackers are related to their streaks by
`Tracks` (the count is the length of the last run of equal elements), the cycle tracker by
`Recent` (the history is the last twelve of the streak). `DetectedCycle` shows that the two
nested choices of `DetectCycle`, the most repetitions of the shortest period, find a
cycle of k repetitions exactly when there is one, `RecentCycles` that twelve rounds are
enough to see one. The warning is the part that is not inductive: `WarnedOf` adds that
whatever has reached its warning count has been warned of, though one round gives one
warning only and the others are swallowed; `CycleBefore` (three repetitions were two a
round earlier) then gives the warning before each finalization.

The second part is about a start, for any files, profiles, command lines, environments, hosts and
skills; the only assumptions, `StartupAssumption` and `LoginTimes`, give the bounds and the inputs their
kinds.
`StartInv` is what holds of it at every step: the skills read so far are those asked for, in
order, with no asset, root or name in common and a receipt no newer than their content
(`SkillsRead`, `AtSkill`), a binding's server is connected from `connect` to `shutdown`
(`ServersKept`), and the records are exactly those of the stages passed (`Told`), among them `resources`, where all
managed skills are read and the servers are asked for theirs.
`StartupTypesAreKept` follows; what it says of a login is part of the types: each poll
comes an interval after what was before it, and the pause for it begins in the life of the code,
so `polls` intervals fit into the time passed and all but the last into that life.
`AssetsAreExact` follows with two lemmas about the loader:
`FoundRanked` (each source is ranked, and so is their concatenation in the loader's order) and
`Deduplicated` (what two passes keep stays in order, and what they drop has its name or its
file before it). That the receipts are those asked for needs the late check of `LoadSkills`: the
code compares kinds with and without regard to case, and only there is a difference noticed.

`ConfigIsExact` compares the nested merges with the flat list. `FirstOfBoth` is what makes them
comparable: the first layer of `s \o t` that states a key is the first of `s`, or else the first of
`t`, just as `Get(Over(f, g), k, o)` is `Get(f, k, Get(g, k, o))`. The invariant `LayersInv` says
that the overlay of the profiles visited is their flat reading (`OverlayInv`), that the chain
follows `extends` without a repetition (`ChainInv`), and that a resolved configuration was
computed from the file with that overlay applied. `EntryStates` and `EntryCompat` follow one
provider entry through both files and the profiles, `AliasStates` and `AliasCompat` an alias and
the provider under it; then there is one lemma for each setting. That a chain is refused exactly
when it does not resolve is `EndedResolves` (a chain that came to its end is a line of ancestors,
and of any set of them the last one in the chain has its parent outside) and `StoppedDoesNot`
(such a line would contain the whole chain and the name it stopped at, which is undefined or
makes the chain a ring).

`AgentRunProofs`. `SavedAtEveryAwait` needs no strengthening: every action saves what it
changed or changes nothing. `RunsEndInOrder` needs `RunInv`: history and file are sequences
(`Stored`), requests and turns agree with the phase (`CountsInv`), there is a turn left
before each request but the last (`WithinBudget`), and no answer is reported before the
run ends (`AnswerInv`). `RunTypeCorrect`: the results of a round are made from the calls of
the last message, so the types need that there is one (`ToolsInv`); the truncation of an
oversized history must keep it.

`AnthropicPairs`, also in `AgentRunProofs`: unless a round was cut off and resumed, each
request to an Anthropic provider answers every tool use in the next message and once, with
unique ids and alternating roles, for conversations and rounds of any length. It is the
Anthropic half of `RequestsPaired`. Its two parts meet in `ConversationsPair`:

- the projection of a conversation that is well formed (`Formed`: a message has calls or
  results, results fit the calls before them, no two calls share an id) and closed (each
  round has its results) is paired. Over the calls of a message `Counted` and `Freshly` say
  that those without an id were either downgraded or have an id made up for them, and count
  both; over its results `Balanced` takes the same account down to nothing, which is why a
  result without an id meets a call without one. `SoFar` carries this over the messages:
  roles alternate, all uses but those of the last message are answered;
- the run keeps conversations well formed and, outside of a round, closed (`PairInv`, which TLC
  finds invariant on the runs' instance): history, session file and autocompact request, also when
  the host aborts, a truncation drops the oldest messages or a resume reads the file back.

`StreamRunnerProofs`. `SendsAreBounded`: while it sends, the counters tell how often it did
(`SendsInv`), a round of the 5xx loop for each answer of that kind, the connect errors of
the current one, all the rounds of the resends before. `OneWholeResponseIsHeard`, for any
bodies a server may send:

- `HeardInv`: nothing is told while a request is being sent or before `emitted` is set, all
  that was told, or is in the channel, is of the present attempt, and a failed outcome
  leaves nothing to send. A resend after something was told would break it;
- `EndInv`: once the runner is gone, the stream ended well or an error is in the channel
  or was heard;
- `BytesInv`: a frame with a torn character is the one with the broken byte, or comes
  after the end of the body, where it has no terminator and is never parsed.

`TypesAreKept`, of the same module, says that the four decoders stay within their types for
any frames in any order: what a parser accumulates (`ParserInv`), the events of a step and what
is left of them in the channel (`EventsInv`, `ChannelInv`), what has arrived of a body
(`RangeInv`) and where the runner is under its policy (`PolicyInv`). The OpenAI Responses decoder drops
what it told before: `Unseen` is a function over the items of a step, and `KeptStep` says what
each of them adds.

`ToolsProofs`, first part. `CacheAccountsExact` (the byte counter is the sum over the entries, which
stay within both limits unless one entry is larger than the whole cache) and `TimeStampsSuffice`, for any
files, limits and outside writers. What the property says at the moment of a stub or of an
edit's write is decided earlier, when an entry is made and when the outside writes. So the
invariant is about entries (`CacheInv`): a modification time that matches an entry shows a
version that is the entry's and the last one shown, or a raced one. Only the call that wrote
the file and has not updated the cache breaks this, for its file (`CallInv`), which is why
no other call may start before. The stub's words are a second invariant, `ReferInv`: an entry is that
of an Edit or a Write (`written`), or the result of Read it came from is in the conversation or
was `cleared` (`EntriesReferred`), which no compaction can break. `SumIsSum` relates the counter to the fold of the code,
`InsertStep` the eviction to the longest run of recent entries that fits.

The second part is about the MCP client, for any servers, deployments, transports, requests and
faults. `AnswersAreOwn` needs to know where the answer to a request can be. `Sound` says it
of a connection: whatever the server owes or wrote (`Owes`, `Ours`) is about the request under
way or one that was left without its answer, on http only the former; the answer to the request
under way is in one place at most, owed, on the wire or heard, and nowhere while its POST
has not arrived (`OneAnswer`); a sender in the table is under the id of its request
(`SlotsKept`), and an id other than the zero of the tool calls tells the request (`Told`: the
handshake has two fixed ids, resources a counter). `Settled` turns a request that took no line
of its own into one left without its answer, and `ReturnSteps` is where a wrong line is taken.
`McpTypesAreKept` adds where a connection can be in each phase (`Placed`), and that requests do
not overlap once the servers are connected (`Alone`). `PlainNamesAreUnique` has a hypothesis,
`NamesApart`: no server offers a tool that is called like a prefixed one. The program does
not exclude it, and without it two tools may share a name; the run's servers satisfy it.

`SessionStoreProofs`. `SessionInv`: what a call is at says what it knows (`CallInv`), a lock is
held exactly inside and inside of one session (`LockInv`), a file lies in a directory that is
there (`DirInv`), and for a session that two clients were never inside at once, `AtWork` gives
the files as the one inside left them (`AloneInv`). From it: `LocksAreReleased`;
`OneProcessKeepsThePromise` (with one process, and without the gap of a Windows replacement,
no session ever loses the promise), and the refinement `SessionsAreRegisters`: each step maps
to a step of `SessionRegister` or a stutter. `RenameMaps` is where a call takes effect,
`OldestAreTooOld` where a listing chooses (the oldest beyond the limit each have that many at
least as new, ties of time included), `CrashMaps` where a death in the gap shares a session.

`ToolCommandsProofs`. For every configuration of hooks and skills. On the side of the
process: `ReadersInv` (readers exist from the attachment on, only the drain after
an exit aborts one, and an end of file is final because the child holds its pipes while it
lives and nobody else forks) and `KilledInv` (nothing lives before the child, and what lives
after a kill is outside of its containment) give `CommandsTypeCorrect` and `ResultsAreTrue`. On the side of the
call: `PreInv` (a matching pre hook is still to run or passed), `ToolInv` (what runs
commands is a tool that does, what did not fail as a skill may run) and the hooks in force
(`HooksAsAllowed`) give `HooksGuardEveryCall` and `SkillsKeepWithinBounds`. `MatchingHooks` says
what the selection by tool and file returns, `MergedHooks` what adding a skill's hooks to
those in force does, each a fold.

What TLC found is where each proof began: the properties are those of the runs. A proof that
failed also showed where a property said less or more than it seemed to: the removal
of sessions was promised for the moment of the removal, and is now promised for that of the listing
(a run beyond the present bounds has the counterexample, two processes and three clock values);
the part of `HeardAsMeant` that does not depend on the meaning of a body became
`OneResponseWhole`; that hooks are not added twice followed from what is now `HooksAsAllowed`; and a start that fails
over its command line (`gaveUp = "usage"`) has looked at no profile, which the part of `ConfigExact`
about profile errors had not said: no start of the run has both.

Only model-checked: liveness, and what depends on ENABLED, which are out of the prover's
reach; `StreamRunner!HeardAsMeant`, which compares what is heard with the meaning each body of
the run is given by hand, so a proof would be about a grammar of four protocols that the
code does not have; and the OpenAI half of `AgentRun!RequestsPaired`, whose
projection is built on `SelectSeq` and `FlattenSeq`, which the prover cannot expand.

One assumption is worth naming: the provider uses a call id once. With an id used
again, a late duplicate of an old answer could approve the new call; the
manager's table has no other key.

## 5. Not modelled

Components: sub-agents; provider selection, request bodies, signing and the Vertex
token cache; search tools and the registry; the memory store; output compaction;
rendering and the protocol writer. All but the first are sequential functions of their
input, or one lock around a write.

Within the modelled ones: the branch of a closed receiver in the approval path,
since nobody drops a registered sender while the engine waits (`drop_pending` is
only used by tests; `Approval` has the action); attached files; the token arithmetic of
compaction (its decisions are free, its bounds kept); the circuit breaker of
autocompact. In `WireProjection`: images, thinking, schemas, cache markers; the compat
switches are those of the two default profiles. In `Mcp`: parsing, headers, the
contents of skills, a duplicate tool within one server's list, `connect_one` (no
caller), and a listener of a session already closed. In `FileTools`: an outside writer
that sets a modification time back; symbolic links; a reader in another program that
sees a file half written; `remove` and `clear` of the cache (tests only). A partial read
counts as having seen the version, as it does for the code. In `StreamRunner`: backoff
times. In `Decoders`: JSON, thinking text, block indices of the Anthropic stream (which
the code ignores, too), diagnostics. In `SessionStore`: listing, with the index of the
old layout that only it reads, disk errors other than those a race produces, and a reader of
another program. In `ToolCommands`: a process that outlives its command is not followed
into the next; several commands embedded in one skill run side by side in the code and
stand for one; substitution; the file watcher and conditional skills. In `AgentStartup`:
the contents of prompts, and the refresh of credentials (no caller).

## 6. Plan

Done: `Approval`, `JsonStream`, `ToolRound`, `TurnGuards`, `WireProjection`, `AgentRun`,
`Decoders`, `StreamRunner`, `Mcp`, `FileTools`, `SessionRegister`, `SessionStore`,
`ProcessRunner`, `ToolCommands`, `ConfigLayers`, `OAuthLogin`, `AgentStartup`; proofs for
`Approval`, `JsonStream`, `ToolRound`, `TurnGuards`, `AgentRun`, `StreamRunner`, `FileTools`,
`Mcp`, `SessionStore`, `ToolCommands`, `ConfigLayers` and `AgentStartup`.

Next modules:

1. `Compaction`: thresholds, circuit breaker and the order of the three levels, in place of
   the free choices of `AgentRun`.
2. `Spawner`: parallel sub-agents, each an `AgentRun`, and their join.
3. An abstract specification for `Mcp` (a call returns the answer to itself or an
   error), implemented on HTTP and, without faults, on the other two transports.
4. The skill watcher and conditional skills.

Next proofs:

1. `AgentRun`: the OpenAI half of `RequestsPaired`, on top of what `AnthropicPairs` needed; the
   calls and results of a message are projected alike, but `SelectSeq` would become a fold;
2. `StreamRunner`: `HeardAsMeant`, with a declarative account of the bodies a server may send.
