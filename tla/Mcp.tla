-------------------------------- MODULE Mcp --------------------------------
(***************************************************************************)
(* The MCP client: McpManager connects to the configured servers at once,  *)
(* registers their tools, loads skills from their resources, accepts       *)
(* servers added before the first message, and then serves the tool calls  *)
(* of an engine, one at a time.  The question is the one a caller asks of  *)
(* request(): is the answer that comes back the answer to this request?    *)
(* The three transports reply differently:                                 *)
(*   stdio  the next line of the child's stdout, whatever it is;           *)
(*   sse    the first event that carries the request's id;                 *)
(*   http   the first JSON-RPC object in the body of this POST.            *)
(*                                                                         *)
(* A connection is a record; n numbers the requests of a connection, and   *)
(* every line a server writes carries the n of the request it answers (0   *)
(* for a line that answers none), which the program never sees.            *)
(***************************************************************************)
EXTENDS Naturals, Sequences, FiniteSets

CONSTANTS
  Conns,        \* attempts to connect to a server
  Deployments,  \* which of them are configured, and which a client adds later
  ServerName,   \* the name a server is connected under
  Transport,    \* its transport: "stdio", "sse" or "http"
  Offers,       \* the sets of tools a server may list
  Builtin,      \* names registered before any server is connected
  LateBuiltin,  \* names registered behind the tools of the configured servers
  MaxRequests,  \* bound: requests of one connection
  MaxFaults,    \* bound: stray lines, deaths and failed POSTs of all servers
  Nil

ASSUME McpAssumption ==
  /\ MaxRequests \in Nat /\ MaxFaults \in Nat /\ IsFiniteSet(Conns)
  /\ Builtin \cap LateBuiltin = {}
  /\ DOMAIN ServerName = Conns /\ Transport \in [Conns -> {"stdio", "sse", "http"}]
  /\ \A d \in Deployments :
       /\ d.configured \subseteq Conns /\ d.added \subseteq Conns \ d.configured
       /\ \A b, c \in d.configured : ServerName[b] = ServerName[c] => b = c

VARIABLES
  deployment, \* constant: the servers of this run of the program
  conn,      \* the connections
  phase,     \* connect, skills, inject (before the first message), serve, closed
  registry,  \* the registered tools, as records of name, connection and tool
  ready,     \* connections announced with McpReady
  nextId,    \* next_id of the manager of the configured servers
  outcome,   \* the last call that returned Ok, Nil after an error
  faults     \* faults so far

mcpVars == <<deployment, conn, phase, registry, ready, nextId, outcome, faults>>

Configured == deployment.configured

ResourceCalls == {"resources/list", "resources/read"}
Methods == {"initialize", "tools/list", "tools/call"} \cup ResourceCalls
Connecting == {"opening", "initialize", "notify", "tools"}
Ids == Nat \cup {Nil}

Request == [n : Nat, id : Nat, method : Methods]
Line == [id : Ids, n : Nat, method : Methods \cup {Nil}, body : {"result", "error", "stray"}]

ASSUME NilAssumption == Nil \notin Request /\ Nil \notin Line /\ Nil \notin Nat

McpTypeOK ==
  /\ \A c \in Conns :
       LET k == conn[c] IN
       /\ k.stage \in Connecting \cup {"idle", "up", "failed"}
       /\ k.request \in Request \cup {Nil} /\ k.reply \in Line \cup {Nil}
       /\ k.owed \subseteq Request /\ k.wire \in Seq(Line)
       /\ k.post \in {"none", "flying", "arrived", "done"}
       /\ (k.post = "none") = (k.request = Nil)
       /\ k.request # Nil =>
            \/ k.stage \in {"initialize", "tools"} /\ phase # "serve"
            \/ k.stage = "up" /\ \A d \in Conns \ {c} : conn[d].request = Nil
       /\ k.reply # Nil => Transport[c] = "sse" /\ k.request # Nil
       /\ k.abandoned \subseteq 1..k.sent /\ k.resources \in {"no", "yes", "listed"}
       /\ \A i \in DOMAIN k.slot : k.slot[i] \in 1..k.sent /\ Transport[c] = "sse"
  /\ phase \in {"connect", "skills", "inject", "serve", "closed"}
  /\ \A e \in registry : conn[e.conn].stage = "up" /\ e.tool \in conn[e.conn].tools
  /\ ready \subseteq deployment.added /\ nextId \in Nat /\ faults \in 0..MaxFaults

-----------------------------------------------------------------------------
(* A connection before anything happened to it.                            *)
Fresh(c) ==
  [stage |-> IF c \in Configured THEN "opening" ELSE "idle", alive |-> FALSE,
   request |-> Nil, post |-> "none", reply |-> Nil, slot |-> <<>>,
   owed |-> {}, wire |-> <<>>, tools |-> {}, resources |-> "no",
   sent |-> 0, abandoned |-> {}]

McpInit ==
  /\ deployment \in Deployments
  /\ conn = [c \in Conns |-> Fresh(c)]
  /\ phase = "connect" /\ registry = {} /\ ready = {}
  /\ nextId = 10 /\ outcome = Nil /\ faults = 0

Become(c, k) == conn' = [conn EXCEPT ![c] = k]
Fault == faults < MaxFaults /\ faults' = faults + 1

(* The id a request is sent with: constants in the handshake, zero for     *)
(* every tool call, the manager's counter for resources.                   *)
RequestId(m) ==
  CASE m = "initialize" -> 1
    [] m = "tools/list" -> 2
    [] m = "tools/call" -> 0
    [] OTHER -> nextId

(* request() up to its first await.  SSE registers the sender under the id *)
(* first, which replaces a sender left there by an earlier request.        *)
Sending(c, k, m) ==
  LET r == [n |-> k.sent + 1, id |-> RequestId(m), method |-> m] IN
  [k EXCEPT !.request = r, !.post = "flying", !.sent = r.n,
            !.slot = IF Transport[c] = "sse"
                     THEN [i \in DOMAIN @ \cup {r.id} |-> IF i = r.id THEN r.n ELSE @[i]]
                     ELSE @]

(* A transport that is dropped: its child is killed.  The listener of an   *)
(* SSE transport is detached and runs on, with nobody left to hear it.     *)
Dropped(c, k) ==
  [Fresh(c) EXCEPT !.stage = "failed", !.alive = k.alive /\ Transport[c] # "stdio",
                   !.sent = k.sent, !.abandoned = k.abandoned]

(* The connection after request() returned, with the line it took or Nil. *)
(* The body of an HTTP answer is dropped with its response.                *)
SettledBodyKept(c, k, line) ==
  LET own == line # Nil /\ line.n = k.request.n
  IN [k EXCEPT !.request = Nil, !.post = "none", !.reply = Nil,
               !.abandoned = IF own THEN @ ELSE @ \cup {k.request.n}]

Settled(c, k, line) ==
  LET own == line # Nil /\ line.n = k.request.n
      left == [k EXCEPT !.request = Nil, !.post = "none", !.reply = Nil,
                        !.abandoned = IF own THEN @ ELSE @ \cup {k.request.n}]
  IN IF Transport[c] = "http" THEN [left EXCEPT !.wire = <<>>, !.owed = {}] ELSE left

(* What the manager does with the result: an error object, an absent       *)
(* result or one that does not parse as this method's result is an error;  *)
(* in the handshake an error drops the server.                             *)
Return(c, k, line) ==
  LET m == k.request.method
      ok == line # Nil /\ line.body = "result" /\ line.method = m
      left == Settled(c, k, line) IN
  \/ /\ m = "initialize" /\ ok
     /\ \E res \in {"no", "yes"} : Become(c, [left EXCEPT !.stage = "notify", !.resources = res])
     /\ UNCHANGED outcome
  \/ /\ m = "tools/list" /\ ok
     /\ \E offered \in Offers : Become(c, [left EXCEPT !.stage = "up", !.tools = offered])
     /\ UNCHANGED outcome
  \/ /\ m \in {"initialize", "tools/list"} /\ ~ok
     /\ Become(c, Dropped(c, left)) /\ UNCHANGED outcome
  \/ /\ m \in ResourceCalls \cup {"tools/call"}
     /\ Become(c, IF ok /\ m = "resources/list" THEN [left EXCEPT !.resources = "listed"] ELSE left)
     /\ outcome' = IF ok THEN [conn |-> c, n |-> k.request.n, got |-> line.n, method |-> m] ELSE Nil

Quiet == \A c \in Conns : conn[c].request = Nil
manager == <<deployment, phase, registry, ready, nextId>>

-----------------------------------------------------------------------------
(* connect_server: spawn the child or open the event stream (HTTP opens    *)
(* nothing), then initialize.                                              *)
Open(c) ==
  /\ conn[c].stage = "opening"
  /\ Become(c, Sending(c, [conn[c] EXCEPT !.stage = "initialize", !.alive = TRUE], "initialize"))
  /\ UNCHANGED <<manager, outcome, faults>>

OpenFails(c) ==
  /\ conn[c].stage = "opening" /\ Transport[c] # "http"
  /\ Become(c, Dropped(c, conn[c])) /\ UNCHANGED <<manager, outcome, faults>>

(* The initialized notification, whose HTTP status nobody looks at, and    *)
(* then tools/list.                                                        *)
Notify(c) ==
  /\ conn[c].stage = "notify" /\ conn[c].alive
  /\ Become(c, Sending(c, [conn[c] EXCEPT !.stage = "tools"], "tools/list"))
  /\ UNCHANGED <<manager, outcome, faults>>

NotifyFails(c) ==
  /\ conn[c].stage = "notify" /\ ~conn[c].alive
  /\ Become(c, Dropped(c, conn[c])) /\ UNCHANGED <<manager, outcome, faults>>

(* with_startup_timeout: the future of connect_server is dropped wherever  *)
(* it is, and its transport with it.                                       *)
StartupTimeoutStdioOnly(c) ==
  /\ conn[c].stage \in Connecting /\ Transport[c] = "stdio"
  /\ Become(c, Dropped(c, conn[c])) /\ UNCHANGED <<manager, outcome, faults>>

StartupTimeout(c) ==
  /\ conn[c].stage \in Connecting
  /\ Become(c, Dropped(c, conn[c])) /\ UNCHANGED <<manager, outcome, faults>>

-----------------------------------------------------------------------------
(* stdio: write and flush the line, then read one.                         *)
WriteLine(c) ==
  LET k == conn[c] IN
  /\ Transport[c] = "stdio" /\ k.post = "flying"
  /\ IF k.alive
       THEN Become(c, [k EXCEPT !.post = "done", !.owed = @ \cup {k.request}]) /\ UNCHANGED outcome
       ELSE Return(c, k, Nil)
  /\ UNCHANGED <<manager, faults>>

ReadLine(c) ==
  LET k == conn[c] IN
  /\ Transport[c] = "stdio" /\ k.post = "done" /\ k.wire # <<>>
  /\ Return(c, [k EXCEPT !.wire = Tail(@)], Head(k.wire))
  /\ UNCHANGED <<manager, faults>>

ReadEofAsBlankLine(c) ==
  /\ Transport[c] = "stdio" /\ conn[c].post = "done" /\ conn[c].wire = <<>> /\ ~conn[c].alive
  /\ UNCHANGED mcpVars

ReadEof(c) ==
  LET k == conn[c] IN
  /\ Transport[c] = "stdio" /\ k.post = "done" /\ k.wire = <<>> /\ ~k.alive
  /\ Return(c, k, Nil) /\ UNCHANGED <<manager, faults>>

(* sse and http: the POST reaches the server, and ends with a status or    *)
(* with an error, which for the client do not tell whether it did.         *)
Arrive(c) ==
  LET k == conn[c] IN
  /\ Transport[c] # "stdio" /\ k.post = "flying" /\ k.alive
  /\ Become(c, [k EXCEPT !.post = "arrived", !.owed = @ \cup {k.request}])
  /\ UNCHANGED <<manager, outcome, faults>>

PostAccepted(c) ==
  /\ Transport[c] # "stdio" /\ conn[c].post = "arrived"
  /\ Become(c, [conn[c] EXCEPT !.post = "done"])
  /\ UNCHANGED <<manager, outcome, faults>>

(* A status that is no success: SSE takes its sender back.                 *)
PostRefused(c) ==
  LET k == conn[c] IN
  /\ Transport[c] # "stdio" /\ k.post \in {"flying", "arrived"} /\ Fault
  /\ Return(c, [k EXCEPT !.slot = [i \in DOMAIN @ \ {k.request.id} |-> @[i]]], Nil)
  /\ UNCHANGED manager

(* No status at all: the sender stays in the table.                        *)
PostFails(c) ==
  LET k == conn[c] IN
  /\ Transport[c] # "stdio" /\ k.post \in {"flying", "arrived"}
  /\ IF k.alive THEN Fault ELSE UNCHANGED faults
  /\ Return(c, k, Nil) /\ UNCHANGED manager

(* The listener of an SSE transport: an event with an id in the table      *)
(* takes the sender out and is sent to it, heard or not.  When the stream  *)
(* ends the listener ends; the senders stay in the table, so their         *)
(* receivers wait on.                                                      *)
Listen(c) ==
  LET k == conn[c] IN
  /\ Transport[c] = "sse" /\ k.wire # <<>>
  /\ LET line == Head(k.wire)
         hit == line.id \in DOMAIN k.slot
         heard == hit /\ k.request # Nil /\ k.slot[line.id] = k.request.n
     IN Become(c, [k EXCEPT !.wire = Tail(@),
                            !.slot = IF hit THEN [i \in DOMAIN @ \ {line.id} |-> @[i]] ELSE @,
                            !.reply = IF heard THEN line ELSE @])
  /\ UNCHANGED <<manager, outcome, faults>>

TakeReply(c) ==
  /\ Transport[c] = "sse" /\ conn[c].post = "done" /\ conn[c].reply # Nil
  /\ Return(c, conn[c], conn[c].reply) /\ UNCHANGED <<manager, faults>>

(* http: the first object of the body, or an error when the body ends.     *)
ReadBody(c) ==
  LET k == conn[c] IN
  /\ Transport[c] = "http" /\ k.post = "done" /\ k.wire # <<>>
  /\ Return(c, [k EXCEPT !.wire = Tail(@)], Head(k.wire)) /\ UNCHANGED <<manager, faults>>

BodyEnds(c) ==
  /\ Transport[c] = "http" /\ conn[c].post = "done" /\ conn[c].wire = <<>> /\ ~conn[c].alive
  /\ Return(c, conn[c], Nil) /\ UNCHANGED <<manager, faults>>

-----------------------------------------------------------------------------
(* The servers.  An answer may come late or never; a server may write a    *)
(* line that answers nothing: a notification or a log line (no id), or a   *)
(* request of its own, whose id is the server's (0 is a usual first one);  *)
(* and a server, or its stream, may end.                                   *)
Answer(c) ==
  LET k == conn[c] IN
  /\ k.alive
  /\ \E r \in k.owed, b \in {"result", "error"} :
       Become(c, [k EXCEPT !.owed = @ \ {r},
                           !.wire = Append(@, [id |-> r.id, n |-> r.n, method |-> r.method, body |-> b])])
  /\ UNCHANGED <<manager, outcome, faults>>

Stray(c) ==
  LET k == conn[c] IN
  /\ k.alive /\ k.stage # "failed" /\ Fault
  /\ Transport[c] = "http" => k.owed # {}
  /\ \E i \in {0, Nil} :
       Become(c, [k EXCEPT !.wire = Append(@, [id |-> i, n |-> 0, method |-> Nil, body |-> "stray"])])
  /\ UNCHANGED <<manager, outcome>>

Die(c) ==
  /\ conn[c].alive /\ conn[c].stage # "failed" /\ Fault
  /\ Become(c, [conn[c] EXCEPT !.alive = FALSE, !.owed = {}])
  /\ UNCHANGED <<manager, outcome>>

-----------------------------------------------------------------------------
(* A tool is registered under its own name unless that name is taken by    *)
(* the tools registered before the group of servers it comes with, or is   *)
(* offered by two servers of the group.                                    *)
Prefixed(c, t) == "mcp__" \o ServerName[c] \o "_" \o t

DisplayNamePlain(c, t, taken, group) == t

DisplayName(c, t, taken, group) ==
  IF t \in taken \/ Cardinality({d \in group : t \in conn[d].tools}) > 1
  THEN Prefixed(c, t)
  ELSE t

(* The tools of skills, sub-agents, plan mode and the tool search are      *)
(* registered once the skills are loaded: the configured servers' tools    *)
(* are named without them and stand before them in the registry.           *)
NamesWithoutLate == Builtin \cup {e.name : e \in registry}

Names ==
  Builtin \cup {e.name : e \in registry}
    \cup (IF phase \in {"connect", "skills"} THEN {} ELSE LateBuiltin)

Register(taken, group) ==
  registry' = registry \cup
    UNION {{[name |-> DisplayName(c, t, taken, group), conn |-> c, tool |-> t]
              : t \in conn[c].tools} : c \in group}

(* connect_all has an answer or a timeout from every configured server;    *)
(* those that failed are left out.                                         *)
Connected ==
  /\ phase = "connect" /\ \A c \in Configured : conn[c].stage \in {"up", "failed"}
  /\ Register(Names, {c \in Configured : conn[c].stage = "up"})
  /\ phase' = "skills" /\ UNCHANGED <<deployment, conn, ready, nextId, outcome, faults>>

(* load_mcp_skills: list the resources of each server that has some, and   *)
(* read them one by one; an error only skips.                              *)
CallResource(c, m) ==
  LET k == conn[c] IN
  /\ phase = "skills" /\ Quiet /\ c \in Configured /\ k.stage = "up" /\ k.sent < MaxRequests
  /\ k.resources = IF m = "resources/list" THEN "yes" ELSE "listed"
  /\ Become(c, Sending(c, k, m)) /\ nextId' = nextId + 1
  /\ UNCHANGED <<deployment, phase, registry, ready, outcome, faults>>

SkillsLoaded ==
  /\ phase = "skills" /\ Quiet
  /\ phase' = "inject" /\ UNCHANGED <<deployment, conn, registry, ready, nextId, outcome, faults>>

(* AddMcpServer before the first message: a manager of its own, whose      *)
(* connect_all returns Ok also when its one server failed, so McpReady is  *)
(* announced either way.                                                   *)
Injecting == \E c \in deployment.added \ ready : conn[c].stage # "idle"

AddServer(c) ==
  /\ phase = "inject" /\ ~Injecting /\ c \in deployment.added /\ conn[c].stage = "idle"
  /\ Become(c, [conn[c] EXCEPT !.stage = "opening"])
  /\ UNCHANGED <<manager, outcome, faults>>

ServerAdded(c) ==
  /\ phase = "inject" /\ c \in deployment.added \ ready /\ conn[c].stage \in {"up", "failed"}
  /\ Register(Names, {c} \cap {d \in Conns : conn[d].stage = "up"})
  /\ ready' = ready \cup {c} /\ UNCHANGED <<deployment, conn, phase, nextId, outcome, faults>>

FirstMessage ==
  /\ phase = "inject" /\ ~Injecting
  /\ phase' = "serve" /\ UNCHANGED <<deployment, conn, registry, ready, nextId, outcome, faults>>

(* McpToolProxy::execute.  MCP tools are not concurrency-safe, so an       *)
(* engine has one call at a time.                                          *)
CallToolConcurrently(c) ==
  /\ phase = "serve" /\ conn[c].sent < MaxRequests /\ \E e \in registry : e.conn = c
  /\ conn[c].request = Nil
  /\ Become(c, Sending(c, conn[c], "tools/call"))
  /\ UNCHANGED <<manager, outcome, faults>>

CallTool(c) ==
  /\ phase = "serve" /\ Quiet /\ conn[c].sent < MaxRequests /\ \E e \in registry : e.conn = c
  /\ Become(c, Sending(c, conn[c], "tools/call"))
  /\ UNCHANGED <<manager, outcome, faults>>

(* shutdown at the end of the session, which may have dropped a call:      *)
(* children are killed, listeners aborted.                                 *)
Shutdown ==
  /\ phase = "serve" /\ phase' = "closed"
  /\ conn' = [c \in Conns |->
                IF conn[c].stage # "up" THEN conn[c]
                ELSE [conn[c] EXCEPT !.alive = @ /\ Transport[c] = "http", !.request = Nil, !.post = "none",
                                     !.reply = Nil, !.slot = <<>>, !.wire = <<>>, !.owed = {}]]
  /\ UNCHANGED <<deployment, registry, ready, nextId, outcome, faults>>

-----------------------------------------------------------------------------
ClientStep(c) ==
  \/ Open(c) \/ OpenFails(c) \/ Notify(c) \/ NotifyFails(c) \/ StartupTimeout(c)
  \/ WriteLine(c) \/ ReadLine(c) \/ ReadEof(c)
  \/ Arrive(c) \/ PostAccepted(c) \/ PostRefused(c) \/ PostFails(c)
  \/ Listen(c) \/ TakeReply(c) \/ ReadBody(c) \/ BodyEnds(c)

McpNext ==
  \/ Connected \/ SkillsLoaded \/ FirstMessage \/ Shutdown
  \/ \E c \in Conns :
       \/ phase # "closed" /\ (ClientStep(c) \/ Answer(c) \/ Stray(c) \/ Die(c))
       \/ AddServer(c) \/ ServerAdded(c) \/ CallTool(c)
       \/ \E m \in ResourceCalls : CallResource(c, m)

McpSpec == McpInit /\ [][McpNext]_mcpVars

(* The runtime polls a future whose line, event, body or timer is there,   *)
(* and a write to a pipe ends.  Nothing is assumed of a server or a POST.  *)
McpFairSpec ==
  /\ McpSpec /\ WF_mcpVars(Connected)
  /\ \A c \in Conns :
       /\ WF_mcpVars(StartupTimeout(c)) /\ WF_mcpVars(WriteLine(c)) /\ WF_mcpVars(ReadLine(c))
       /\ WF_mcpVars(ReadEof(c)) /\ WF_mcpVars(Listen(c)) /\ WF_mcpVars(TakeReply(c))
       /\ WF_mcpVars(ReadBody(c)) /\ WF_mcpVars(BodyEnds(c))

-----------------------------------------------------------------------------
(* A call that returns Ok returns the answer to itself, except after a     *)
(* request of the same connection ended without its answer, and then only  *)
(* the answer to such a request: on stdio to any, because lines are not    *)
(* matched at all; on sse only between tool calls, which all have id 0;    *)
(* on http never.                                                          *)
AnswerIsOwn ==
  (outcome # Nil /\ outcome.got # outcome.n) =>
    /\ outcome.got \in conn[outcome.conn].abandoned
    /\ Transport[outcome.conn] # "http"
    /\ Transport[outcome.conn] = "sse" => outcome.method = "tools/call"

(* A call of the engine never reaches a tool it did not name: a registered *)
(* name is shared by two tools only when both had to be prefixed (a server *)
(* added twice, or two prefixes that read the same), never by a tool that  *)
(* kept its own name.  With a built-in tool it is shared by a configured   *)
(* server's tool that is called like one registered later, which the       *)
(* registry then finds first; nothing else shadows, or is shadowed by, a   *)
(* built-in tool.                                                          *)
PlainNamesUnique ==
  \A e \in registry :
    /\ e.name \notin Builtin
    /\ e.name \in LateBuiltin => e.name = e.tool /\ e.conn \in Configured
    /\ e.name = e.tool => \A f \in registry : f.name = e.name => f = e

(* connect_all returns, even if no server ever answers.                    *)
ConnectEnds == <>(phase # "connect")

(* A call does not wait for ever on the client's side: only for a POST,    *)
(* for an answer the server owes, or on an SSE stream that has ended.      *)
CallWaitsOnlyOnServer ==
  \A c \in Conns :
    []<>(\/ conn[c].post # "done" \/ conn[c].owed # {}
         \/ Transport[c] = "sse" /\ ~conn[c].alive)

(* Neither the start nor a call hangs on the client.                       *)
NoWaitOfItsOwn == ConnectEnds /\ CallWaitsOnlyOnServer
=============================================================================
