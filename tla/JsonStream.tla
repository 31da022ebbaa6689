----------------------------- MODULE JsonStream -----------------------------
(***************************************************************************)
(* A JSON stream session (crates/tjuae-cli/src/json_stream): the client    *)
(* writes commands to stdin, a reader task queues them, and one task runs  *)
(* the pre-message phase, the main loop and, for a message, a select       *)
(* between the engine's run and the next command.  The engine's approval   *)
(* path (crates/tjuae-agent/src/orchestration.rs) is modelled call by      *)
(* call; what the provider and the tools do is chosen freely.              *)
(*                                                                         *)
(* Every action is what the session task does between two awaits.          *)
(***************************************************************************)
EXTENDS Approval, Naturals, Sequences

CONSTANTS
  MsgIds,         \* message ids of the client
  CallCategory,   \* the category of the tool a call names
  AllowListed,    \* calls exempt from approval: auto_approve or allow_list
  Updates,        \* set_config commands the client may send: partial [Fields -> Values]
  Servers,        \* MCP servers the client may add
  Kinds,          \* command kinds the client uses in this instance
  MaxCommands,    \* bound: commands other than answers to tool requests
  MaxRound        \* bound: tool calls of one model turn

ASSUME CallCategoryAssumption == CallCategory \in [CallIds -> Categories]
ASSUME WaitersAssumption == Waiters = {"engine"} \* one engine, one call at a time
Starts == {"policy", "client"} \* how a call comes to run

ASSUME StartsAssumption == None \notin Starts
ASSUME MsgIdsAssumption == None \notin MsgIds
ASSUME MaxRoundAssumption == MaxRound \in Nat
ASSUME MaxCommandsAssumption == MaxCommands \in Nat

Fields == {"model", "image_input", "effort"}
Values == {"unknown", "a", "b"}

ASSUME UpdatesAssumption ==
  \A u \in Updates : DOMAIN u \subseteq Fields /\ \A f \in DOMAIN u : u[f] \in Values

VARIABLES
  inbox,        \* commands read from stdin and not yet received
  stdin,        \* "open" or "closed" (EOF: the reader task ended)
  sent,         \* commands sent so far, against MaxCommands
  phase,        \* "pre", "loop", "running", "cleanup", "exited"
  cur,          \* message being handled
  eng,          \* where the engine's run future is suspended
  todo,         \* calls of the tool round not yet settled, in call order
  known,        \* call ids the provider has used
  config,       \* model, image capability and effort in force
  pendingConfig,\* set_config queued during a run
  modeChanged,  \* a set_mode was handled during this run
  managers,     \* MCP managers connected in the pre-message phase
  \* what the client has observed or asked for, used by the properties only
  streams,      \* message -> how often it was taken up, and its stream events
  requested,    \* calls announced with tool_request
  answered,     \* call -> the first answer received for it while it was requested
  started,      \* call -> how it came to run: "policy" or "client"
  advertised,   \* capabilities in the last ready or config_changed event
  pings, pongs, \* pings sent and pongs emitted
  stopHooks     \* the stop hooks have run

clientVars == <<inbox, stdin, sent>>
runVars == <<cur, eng, todo, known>>
configVars == <<config, pendingConfig, modeChanged, advertised>>
callVars == <<requested, answered, started>>
exitVars == <<managers, stopHooks>>
vars == <<clientVars, phase, runVars, configVars, approvalVars, callVars, exitVars,
          streams, pings, pongs>>

Commands ==
  {c \in [kind : {"message"}, msg : MsgIds]
     \cup [kind : {"approve", "deny"}, call : CallIds]
     \cup [kind : {"set_mode"}, mode : SessionModes]
     \cup [kind : {"set_config"}, update : Updates]
     \cup [kind : {"add_mcp"}, server : Servers]
     \cup [kind : {"stop", "ping", "init_history"}] : c.kind \in Kinds}

ClientAnswer == [kind : {"approve", "deny"}, call : CallIds]

EngineStates == {"off", "start", "model", "tool", "wait", "exec"}

TypeOK ==
  /\ inbox \in Seq(Commands \cup ClientAnswer)
  /\ stdin \in {"open", "closed"} /\ sent \in 0..MaxCommands
  /\ phase \in {"pre", "loop", "running", "cleanup", "exited"}
  /\ cur \in MsgIds \cup {None}
  /\ eng \in EngineStates
  /\ todo \in Seq(CallIds) /\ known \subseteq CallIds
  /\ config \in [Fields -> Values]
  /\ pendingConfig \in Updates \cup {None} /\ modeChanged \in BOOLEAN
  /\ managers \subseteq Servers /\ stopHooks \in BOOLEAN
  /\ streams \in [MsgIds -> [taken : Nat, start : Nat, end : Nat]]
  /\ requested \subseteq CallIds
  /\ answered \in [CallIds -> Answers \cup {None}]
  /\ started \in [CallIds -> Starts \cup {None}]
  /\ advertised \in Values \X SessionModes
  /\ pings \in Nat /\ pongs \in Nat
  /\ ApprovalTypeOK

Init ==
  /\ inbox = <<>> /\ stdin = "open" /\ sent = 0
  /\ phase = "pre" /\ cur = None /\ eng = "off" /\ todo = <<>> /\ known = {}
  /\ config = [f \in Fields |-> "unknown"]
  /\ pendingConfig = None /\ modeChanged = FALSE
  /\ advertised = <<"unknown", "default">>
  /\ managers = {} /\ stopHooks = FALSE
  /\ streams = [m \in MsgIds |-> [taken |-> 0, start |-> 0, end |-> 0]]
  /\ requested = {}
  /\ answered = [c \in CallIds |-> None] /\ started = [c \in CallIds |-> None]
  /\ pings = 0 /\ pongs = 0
  /\ ApprovalInit
-----------------------------------------------------------------------------
(* The client *)

Send(c) ==
  /\ stdin = "open" /\ sent < MaxCommands
  /\ c.kind = "message" => \A i \in 1..Len(inbox) : inbox[i] # c
  /\ inbox' = Append(inbox, c) /\ sent' = sent + 1
  /\ pings' = IF c.kind = "ping" THEN pings + 1 ELSE pings
  /\ UNCHANGED <<stdin, phase, runVars, configVars, approvalVars, callVars, exitVars,
                 streams, pongs>>

(* The client answers a tool_request it has seen; it may do so only once   *)
(* through this action, and again through Send.                            *)
AnswerRequest(id, kind) ==
  /\ stdin = "open"
  /\ id \in requested /\ answered[id] = None
  /\ \A i \in 1..Len(inbox) : inbox[i].kind \in {"approve", "deny"} => inbox[i].call # id
  /\ inbox' = Append(inbox, [kind |-> kind, call |-> id])
  /\ UNCHANGED <<stdin, sent, phase, runVars, configVars, approvalVars, callVars, exitVars,
                 streams, pings, pongs>>

CloseStdin ==
  /\ stdin = "open" /\ "eof" \in Kinds
  /\ stdin' = "closed"
  /\ UNCHANGED <<inbox, sent, phase, runVars, configVars, approvalVars, callVars, exitVars,
                 streams, pings, pongs>>

Client ==
  \/ \E c \in Commands : Send(c)
  \/ \E id \in CallIds, kind \in {"approve", "deny"} : AnswerRequest(id, kind)
  \/ CloseStdin

-----------------------------------------------------------------------------
(* Config *)

ApplyConfigUpdateNoReset(base, update) == \* mutant: a new model's capability is left without a value
  [f \in Fields |->
     IF f \in DOMAIN update THEN update[f]
     ELSE IF f = "image_input" /\ "model" \in DOMAIN update THEN None
     ELSE base[f]]

(* A given field is set; a new model without an image_input of its own     *)
(* makes the image capability unknown; any other field keeps its value.    *)
ApplyConfigUpdate(base, update) ==
  [f \in Fields |->
     IF f \in DOMAIN update THEN update[f]
     ELSE IF f = "image_input" /\ "model" \in DOMAIN update THEN "unknown"
     ELSE base[f]]

Capabilities(cfg, mode) == <<cfg["image_input"], mode>>

ApplyQueuedSilentMode == \* mutant: a mode change alone is not announced
  /\ config' = IF pendingConfig = None THEN config
               ELSE ApplyConfigUpdate(config, pendingConfig)
  /\ advertised' = IF pendingConfig # None
                   THEN Capabilities(config', sessionMode)
                   ELSE advertised
  /\ pendingConfig' = None /\ modeChanged' = FALSE

(* The end of message::handle, after the engine's future finished or was   *)
(* dropped: the queued config is applied and the new capabilities go out.  *)
ApplyQueued ==
  /\ config' = IF pendingConfig = None THEN config
               ELSE ApplyConfigUpdate(config, pendingConfig)
  /\ advertised' = IF pendingConfig # None \/ modeChanged
                   THEN Capabilities(config', sessionMode)
                   ELSE advertised
  /\ pendingConfig' = None /\ modeChanged' = FALSE
-----------------------------------------------------------------------------
(* The engine's run, one action for each stretch between two awaits.  A    *)
(* tool round keeps the calls still to settle in todo.                     *)

Running(state) == phase = "running" /\ eng = state

FinishSilently(ok) == \* mutant: an engine error closes no stream
  /\ phase' = "loop" /\ cur' = None /\ eng' = "off" /\ todo' = <<>>
  /\ streams' = IF ok THEN [streams EXCEPT ![cur].end = @ + 1] ELSE streams
  /\ ApplyQueued

(* The run future is ready: Ok and Err both end the stream.                *)
FinishRun(ok) ==
  /\ phase' = "loop" /\ cur' = None /\ eng' = "off" /\ todo' = <<>>
  /\ streams' = [streams EXCEPT ![cur].end = @ + 1]
  /\ ApplyQueued

(* A slash command is answered without a stream_start (ok or /exit).       *)
EngineSlash(ok) ==
  /\ Running("start")
  /\ FinishRun(ok)
  /\ UNCHANGED <<clientVars, known, approvalVars, callVars, exitVars, pings, pongs>>

EngineStart ==
  /\ Running("start")
  /\ streams' = [streams EXCEPT ![cur].start = @ + 1]
  /\ eng' = "model"
  /\ UNCHANGED <<clientVars, phase, cur, todo, known, configVars, approvalVars, callVars,
                 exitVars, pings, pongs>>

(* The provider's turn: tool calls, or the end of the run (a final answer, *)
(* a finalization, a budget, a provider error, a guard's stop).            *)
EngineToolTurn(round) ==
  /\ Running("model")
  /\ \A i \in DOMAIN round : round[i] \notin known /\ \A j \in 1..(i - 1) : round[j] # round[i]
  /\ todo' = round
  /\ known' = known \cup {round[i] : i \in DOMAIN round}
  /\ eng' = "tool"
  /\ UNCHANGED <<clientVars, phase, cur, configVars, approvalVars, callVars, exitVars,
                 streams, pings, pongs>>

EngineLastTurn(ok) ==
  /\ Running("model")
  /\ FinishRun(ok)
  /\ UNCHANGED <<clientVars, known, approvalVars, callVars, exitVars, pings, pongs>>

EngineRoundDone ==
  /\ Running("tool") /\ todo = <<>>
  /\ eng' = "model"
  /\ UNCHANGED <<clientVars, phase, cur, todo, known, configVars, approvalVars, callVars,
                 exitVars, streams, pings, pongs>>

NeedsApproval(id) == id \notin AllowListed /\ ~IsAutoApproved(CallCategory[id])

(* tool_request goes out and the entry is registered without an await in   *)
(* between, so no answer can be handled before it can be matched.          *)
EngineRequest ==
  /\ Running("tool") /\ todo # <<>> /\ NeedsApproval(Head(todo))
  /\ requested' = requested \cup {Head(todo)}
  /\ RequestApproval("engine", Head(todo), CallCategory[Head(todo)])
  /\ eng' = "wait"
  /\ UNCHANGED <<clientVars, phase, cur, todo, known, configVars, answered, started,
                 exitVars, streams, pings, pongs>>

EngineAutoRun ==
  /\ Running("tool") /\ todo # <<>> /\ ~NeedsApproval(Head(todo))
  /\ started' = [started EXCEPT ![Head(todo)] = "policy"]
  /\ eng' = "exec"
  /\ UNCHANGED <<clientVars, phase, cur, todo, known, configVars, approvalVars, requested,
                 answered, exitVars, streams, pings, pongs>>

EngineApprovedAnyway == \* mutant: a denial only skips the request
  /\ Running("wait") /\ rx["engine"] \in Answers
  /\ TakeAnswer("engine")
  /\ started' = [started EXCEPT ![Head(todo)] = "client"]
  /\ eng' = "exec"
  /\ UNCHANGED <<clientVars, phase, cur, todo, known, configVars, requested, answered,
                 exitVars, streams, pings, pongs>>

EngineApproved ==
  /\ Running("wait") /\ rx["engine"] = "approved"
  /\ TakeAnswer("engine")
  /\ started' = [started EXCEPT ![Head(todo)] = "client"]
  /\ eng' = "exec"
  /\ UNCHANGED <<clientVars, phase, cur, todo, known, configVars, requested, answered,
                 exitVars, streams, pings, pongs>>

EngineDenied ==
  /\ Running("wait") /\ rx["engine"] = "denied"
  /\ TakeAnswer("engine")
  /\ todo' = Tail(todo)
  /\ eng' = "tool"
  /\ UNCHANGED <<clientVars, phase, cur, known, configVars, callVars, exitVars,
                 streams, pings, pongs>>

EngineToolDone ==
  /\ Running("exec")
  /\ todo' = Tail(todo)
  /\ eng' = "tool"
  /\ UNCHANGED <<clientVars, phase, cur, known, configVars, approvalVars, callVars, exitVars,
                 streams, pings, pongs>>

Rounds == UNION {[1..n -> CallIds] : n \in 1..MaxRound}

Engine ==
  \/ \E ok \in BOOLEAN : EngineSlash(ok) \/ EngineLastTurn(ok)
  \/ EngineStart
  \/ \E round \in Rounds : EngineToolTurn(round)
  \/ EngineRoundDone \/ EngineRequest \/ EngineAutoRun
  \/ EngineApproved \/ EngineDenied \/ EngineToolDone

-----------------------------------------------------------------------------
(* Commands *)

Take(kind) == inbox # <<>> /\ Head(inbox).kind = kind /\ inbox' = Tail(inbox)

(* answered records the first answer that met a registered request.        *)
ResolveCall(id, answer) ==
  /\ Resolve(id, answer)
  /\ answered' = IF pending[id] # None THEN [answered EXCEPT ![id] = answer] ELSE answered
  /\ UNCHANGED <<requested, started>>

(* tool_approve and tool_deny, idle or in flight; the scope is not used.   *)
HandleAnswer ==
  /\ phase \in {"loop", "running"}
  /\ \/ Take("approve") /\ ResolveCall(Head(inbox).call, "approved")
     \/ Take("deny") /\ ResolveCall(Head(inbox).call, "denied")
  /\ UNCHANGED <<stdin, sent, phase, runVars, configVars, exitVars, streams, pings, pongs>>

HandlePingWhenIdle == \* mutant: in flight a ping is ignored like the other commands
  /\ phase \in {"loop", "running"} /\ Take("ping")
  /\ pongs' = IF phase = "loop" THEN pongs + 1 ELSE pongs
  /\ UNCHANGED <<stdin, sent, phase, runVars, configVars, approvalVars, callVars, exitVars,
                 streams, pings>>

HandlePing ==
  /\ phase \in {"loop", "running"} /\ Take("ping")
  /\ pongs' = pongs + 1
  /\ UNCHANGED <<stdin, sent, phase, runVars, configVars, approvalVars, callVars, exitVars,
                 streams, pings>>

HandleSetModeIdle ==
  /\ phase = "loop" /\ Take("set_mode") /\ SetMode(Head(inbox).mode)
  /\ advertised' = Capabilities(config, sessionMode')
  /\ UNCHANGED <<stdin, sent, phase, runVars, config, pendingConfig, modeChanged,
                 callVars, exitVars, streams, pings, pongs>>

HandleSetModeInFlight ==
  /\ phase = "running" /\ Take("set_mode") /\ SetMode(Head(inbox).mode)
  /\ modeChanged' = TRUE
  /\ UNCHANGED <<stdin, sent, phase, runVars, config, pendingConfig, advertised,
                 callVars, exitVars, streams, pings, pongs>>

HandleSetConfigIdle ==
  /\ phase = "loop" /\ Take("set_config")
  /\ config' = ApplyConfigUpdate(config, Head(inbox).update)
  /\ advertised' = Capabilities(config', sessionMode)
  /\ UNCHANGED <<stdin, sent, phase, runVars, pendingConfig, modeChanged, approvalVars,
                 callVars, exitVars, streams, pings, pongs>>

HandleSetConfigAtOnce == \* mutant: a set_config in flight is applied under the run
  /\ phase = "running" /\ Take("set_config")
  /\ config' = ApplyConfigUpdate(config, Head(inbox).update)
  /\ UNCHANGED <<stdin, sent, phase, runVars, pendingConfig, modeChanged, advertised,
                 approvalVars, callVars, exitVars, streams, pings, pongs>>

(* The whole command is queued in place of the one queued before it.       *)
HandleSetConfigInFlight ==
  /\ phase = "running" /\ Take("set_config")
  /\ pendingConfig' = Head(inbox).update
  /\ UNCHANGED <<stdin, sent, phase, runVars, config, modeChanged, advertised, approvalVars,
                 callVars, exitVars, streams, pings, pongs>>

HandleMessage ==
  /\ phase = "loop" /\ Take("message")
  /\ phase' = "running" /\ cur' = Head(inbox).msg /\ eng' = "start"
  /\ streams' = [streams EXCEPT ![Head(inbox).msg].taken = @ + 1]
  /\ UNCHANGED <<stdin, sent, todo, known, configVars, approvalVars, callVars, exitVars,
                 pings, pongs>>

(* A second message, add_mcp_server and init_history get a debug log in    *)
(* flight; idle, init_history gets one and add_mcp_server an error event.  *)
HandleIgnored ==
  /\ \/ phase = "running" /\ Take("message")
     \/ phase \in {"loop", "running"} /\ (Take("add_mcp") \/ Take("init_history"))
  /\ UNCHANGED <<stdin, sent, phase, runVars, configVars, approvalVars, callVars, exitVars,
                 streams, pings, pongs>>

HandleStopIdle ==
  /\ phase = "loop" /\ Take("stop")
  /\ phase' = "cleanup"
  /\ UNCHANGED <<stdin, sent, runVars, configVars, approvalVars, callVars, exitVars,
                 streams, pings, pongs>>

(* Stop in flight drops the run future wherever it is suspended: no        *)
(* stream_end, and an entry it registered stays in the manager.            *)
HandleStopInFlight ==
  /\ phase = "running" /\ Take("stop")
  /\ phase' = "cleanup" /\ cur' = None /\ eng' = "off" /\ todo' = <<>>
  /\ Abandon("engine")
  /\ ApplyQueued
  /\ UNCHANGED <<stdin, sent, known, callVars, exitVars, streams, pings, pongs>>

(* The pre-message phase consumes add_mcp_server (a connection, or an      *)
(* error for a bad transport); anything else ends it and is handled next   *)
(* by the main loop, except stop, which returns from the session at once.  *)
PreAddMcp ==
  /\ phase = "pre" /\ Take("add_mcp")
  /\ managers' \in {managers, managers \cup {Head(inbox).server}}
  /\ UNCHANGED <<stdin, sent, phase, runVars, configVars, approvalVars, callVars, stopHooks,
                 streams, pings, pongs>>

PreStop ==
  /\ phase = "pre" /\ Take("stop")
  /\ phase' = "exited"
  /\ UNCHANGED <<stdin, sent, runVars, configVars, approvalVars, callVars, exitVars,
                 streams, pings, pongs>>

PreEnds ==
  /\ phase = "pre"
  /\ IF inbox = <<>> THEN stdin = "closed" ELSE Head(inbox).kind \notin {"add_mcp", "stop"}
  /\ phase' = "loop"
  /\ UNCHANGED <<clientVars, runVars, configVars, approvalVars, callVars, exitVars, streams,
                 pings, pongs>>

(* recv() yields None once stdin is closed and the queue is drained.  The  *)
(* main loop leaves on it; in flight its branch of the select is disabled. *)
LoopEof ==
  /\ phase = "loop" /\ stdin = "closed" /\ inbox = <<>>
  /\ phase' = "cleanup"
  /\ UNCHANGED <<clientVars, runVars, configVars, approvalVars, callVars, exitVars, streams,
                 pings, pongs>>

Cleanup ==
  /\ phase = "cleanup"
  /\ phase' = "exited" /\ stopHooks' = TRUE /\ managers' = {}
  /\ UNCHANGED <<clientVars, runVars, configVars, approvalVars, callVars, streams, pings,
                 pongs>>

Host ==
  \/ HandleAnswer \/ HandlePing
  \/ HandleSetModeIdle \/ HandleSetModeInFlight
  \/ HandleSetConfigIdle \/ HandleSetConfigInFlight
  \/ HandleMessage \/ HandleIgnored
  \/ HandleStopIdle \/ HandleStopInFlight
  \/ PreAddMcp \/ PreStop \/ PreEnds
  \/ LoopEof \/ Cleanup

Next == Client \/ Engine \/ Host

Spec == Init /\ [][Next]_vars

(* The session task polls its select forever, choosing among ready         *)
(* branches at random, and neither provider nor tools block for good, so   *)
(* the engine and the host each make progress; a client shows every        *)
(* request to its user and sends the answer while stdin is open.           *)
ClientAnswers == \E id \in CallIds, kind \in {"approve", "deny"} : AnswerRequest(id, kind)

FairSpec == Spec /\ WF_vars(Engine) /\ WF_vars(Host) /\ WF_vars(ClientAnswers)

-----------------------------------------------------------------------------
(* Properties *)

(* No tool runs without authority: a call that asked the client runs only  *)
(* after the client approved that very call while it was pending, and a    *)
(* denied call never runs (orchestration.rs, approval.rs resolve).  An     *)
(* answer sent before the request, or twice, must not count.               *)
OnlyApprovedCallsRun ==
  \A id \in CallIds :
    /\ started[id] = "client" => answered[id] = "approved"
    /\ started[id] = "policy" => id \notin requested
    /\ answered[id] = "denied" => started[id] = None

(* The manager holds an entry exactly while the engine waits for that      *)
(* call, whatever mix of early, duplicate or stray answers came: none is   *)
(* left over for a later call, and the engine never takes its own receiver *)
(* for a client that left.  (After an in-flight stop the session ends.)    *)
PendingOnlyWhileWaiting ==
  phase \notin {"cleanup", "exited"} =>
    /\ \A id \in CallIds :
         pending[id] # None <=> /\ eng = "wait" /\ id = Head(todo) /\ rx["engine"] = "waiting"
    /\ eng = "wait" => rx["engine"] \in {"waiting"} \cup Answers

(* Every message taken up gets exactly one stream_end, for a result and    *)
(* for an error, and never before its stream_start, so that no stream is   *)
(* open between messages (message.rs).  A slash command ends a stream it   *)
(* never started; an in-flight stop ends the session instead.              *)
EveryStreamEndsOnce ==
  phase \in {"pre", "loop", "running"} =>
    \A m \in MsgIds :
      /\ streams[m].end = streams[m].taken - (IF m = cur THEN 1 ELSE 0)
      /\ streams[m].start <= streams[m].taken

(* Between messages the client's picture is current: the image capability  *)
(* and the mode last announced (ready, config_changed) are those in force, *)
(* although both change in and out of flight (dispatch.rs, message.rs).    *)
CapabilitiesAnnounced ==
  phase = "loop" => advertised = Capabilities(config, sessionMode)

(* The request configuration never changes under a running message; a      *)
(* set_config received in flight waits for its end (message.rs).           *)
ConfigStableInFlight ==
  [][phase = "running" /\ phase' = "running" => config' = config]_vars

(* A message the session takes up is finished, as long as the client keeps *)
(* stdin open to answer requests or the session is stopped.                *)
MessageFinishes ==
  phase = "running" ~> (phase # "running" \/ stdin = "closed")

(* Every ping is answered before the session ends, even while a tool or an *)
(* approval keeps the engine waiting (docs/json-stream-protocol.md 2.9).   *)
PingsAnswered ==
  \A n \in 1..MaxCommands : (pings = n) ~> (pongs >= n \/ phase \in {"cleanup", "exited"})

(* What is in force is what the client was told, and it never changes      *)
(* under a running message.                                                *)
SettingsAsAnnounced == []CapabilitiesAnnounced /\ ConfigStableInFlight

(* How a call stands with the user: what the engine's receiver holds while *)
(* the engine is at that call, and what the call came to otherwise.        *)
CallStanding(id) ==
  LET held == IF rx["engine"] = "approved" THEN "granted"
              ELSE IF rx["engine"] = "denied" THEN "refused" ELSE "asked"
  IN IF started[id] # None THEN "run"
     ELSE IF id \notin requested THEN "new"
     ELSE IF eng = "wait" /\ id = Head(todo) THEN held
     ELSE IF answered[id] = "denied" THEN "refused" ELSE "withdrawn"

CallStandings == [id \in CallIds |-> CallStanding(id)]

Authority == INSTANCE CallAuthority WITH Calls <- CallIds, standing <- CallStandings

(* The answers travel as commands in a queue, through a table of senders   *)
(* and a channel to the engine, in any order and number; what comes of a   *)
(* call is all the same as if the user were asked in person: one question  *)
(* at a time, one answer to it that counts, no call run on another's       *)
(* answer, none after a refusal or the end of the session (CallAuthority;  *)
(* approval.rs, message.rs, orchestration.rs).                             *)
ImplementsAuthority == Authority!AuthoritySpec

(* The client is served while it waits: messages finish, pings are         *)
(* answered.                                                               *)
ClientIsServed == MessageFinishes /\ PingsAnswered

(* docs/json-stream-protocol.md 3.5: once the client closed stdin, the     *)
(* agent cleans up and exits.                                              *)
ExitsAfterEof == (stdin = "closed") ~> (phase = "exited")
=============================================================================
