-------------------------- MODULE JsonStreamProofs --------------------------
(***************************************************************************)
(* Proofs about a JSON stream session and the approval manager it shares   *)
(* with the engine: the types of both, that every waiting task can be      *)
(* reached, that no call runs without the approval it asked for, that the  *)
(* manager's map holds exactly the call the engine waits for, and that the *)
(* session implements what CallAuthority promises its user.  Then what a   *)
(* client sees: every message has one end, and the capabilities told last  *)
(* are those in force.                                                     *)
(***************************************************************************)
EXTENDS JsonStream, TLAPS

(***************************************************************************)
(* The approval manager alone, for any number of calls and waiters.        *)
(* WaiterHasOneSender is inductive together with ApprovalTypeOK.           *)
(***************************************************************************)
ApprovalInv == ApprovalTypeOK /\ WaiterHasOneSender

(* Settling an entry keeps the receivers typed, whatever the entry.        *)
LEMMA SettleType ==
  ASSUME ApprovalTypeOK, NEW id \in CallIds, NEW answer \in RxStates
  PROVE  Settle(id, answer) \in [Waiters -> RxStates]
BY NoneAssumption DEF ApprovalTypeOK, Settle, Entries

(* Every operation of the manager keeps the types of its state.            *)
LEMMA TypeStep ==
  ASSUME ApprovalTypeOK, [ApprovalNext]_approvalVars
  PROVE  ApprovalTypeOK'
<1> USE DEF ApprovalTypeOK
<1>1. ASSUME NEW w \in Waiters, NEW id \in CallIds, NEW c \in Categories,
             RequestApproval(w, id, c)
      PROVE  ApprovalTypeOK'
  <2>1. [tx |-> w, category |-> c] \in Entries
    BY DEF Entries
  <2>2. Settle(id, "closed") \in [Waiters -> RxStates] /\ "waiting" \in RxStates
    BY SettleType DEF RxStates
  <2> QED BY <1>1, <2>1, <2>2 DEF RequestApproval
<1>2. ASSUME NEW id \in CallIds, NEW s \in Scopes, Approve(id, s)
      PROVE  ApprovalTypeOK'
  <2>1. Settle(id, "approved") \in [Waiters -> RxStates]
    BY SettleType DEF RxStates, Answers
  <2>2. pending[id] # None => pending[id].category \in Categories
    BY DEF Entries
  <2> QED BY <1>2, <2>1, <2>2 DEF Approve
<1>3. ASSUME NEW id \in CallIds, NEW a \in Answers, Resolve(id, a)
      PROVE  ApprovalTypeOK'
  <2>1. Settle(id, a) \in [Waiters -> RxStates]
    BY SettleType DEF RxStates
  <2> QED BY <1>3, <2>1 DEF Resolve
<1>4. ASSUME NEW id \in CallIds, DropPending(id)
      PROVE  ApprovalTypeOK'
  <2>1. Settle(id, "closed") \in [Waiters -> RxStates]
    BY SettleType DEF RxStates
  <2> QED BY <1>4, <2>1 DEF DropPending
<1>5. ASSUME NEW m \in SessionModes, SetMode(m)
      PROVE  ApprovalTypeOK'
  BY <1>5 DEF SetMode
<1>6. ASSUME NEW c \in Categories, AddAutoApprove(c)
      PROVE  ApprovalTypeOK'
  BY <1>6 DEF AddAutoApprove
<1>7. ASSUME NEW w \in Waiters, TakeAnswer(w) \/ Abandon(w)
      PROVE  ApprovalTypeOK'
  BY <1>7 DEF TakeAnswer, Abandon, RxStates
<1>8. CASE UNCHANGED approvalVars
  BY <1>8 DEF approvalVars
<1> QED BY <1>1, <1>2, <1>3, <1>4, <1>5, <1>6, <1>7, <1>8 DEF ApprovalNext

(* An operation that takes the entry under one id out of the map, and      *)
(* settles it, leaves every waiter reachable.                              *)
LEMMA RemoveStep ==
  ASSUME ApprovalInv, NEW id \in CallIds, NEW answer \in Answers \cup {"closed"},
         pending' = [pending EXCEPT ![id] = None],
         rx' = Settle(id, answer)
  PROVE  WaiterHasOneSender'
<1> SUFFICES ASSUME NEW w \in Waiters
             PROVE  /\ rx'[w] = "waiting" => \E i \in CallIds : HeldBy(w)' = {i}
                    /\ rx'[w] \in {"idle", "closed"} \cup Answers => HeldBy(w)' = {}
  BY DEF WaiterHasOneSender
<1> USE DEF ApprovalInv, ApprovalTypeOK
<1>1. HeldBy(w)' = HeldBy(w) \ {id}
  BY DEF HeldBy
<1>2. CASE id \in HeldBy(w)
  <2>1. pending[id] # None /\ pending[id].tx = w
    BY <1>2 DEF HeldBy
  <2>2. rx[w] \in {"waiting", "dropped"}
    BY <1>2 DEF WaiterHasOneSender, RxStates
  <2>3. CASE rx[w] = "dropped"
    <3>1. rx'[w] = "dropped"
      BY <2>1, <2>3 DEF Settle
    <3> QED BY <3>1 DEF Answers
  <2>4. CASE rx[w] = "waiting"
    <3>1. HeldBy(w)' = {}
      BY <1>1, <1>2, <2>4 DEF WaiterHasOneSender
    <3>2. rx'[w] = answer
      BY <2>1, <2>4 DEF Settle
    <3> QED BY <3>1, <3>2 DEF Answers
  <2> QED BY <2>2, <2>3, <2>4
<1>3. CASE id \notin HeldBy(w)
  <2>1. HeldBy(w)' = HeldBy(w)
    BY <1>1, <1>3
  <2>2. rx'[w] = rx[w]
    BY <1>3, NoneAssumption DEF Settle, HeldBy, Entries
  <2> QED BY <2>1, <2>2 DEF WaiterHasOneSender
<1> QED BY <1>2, <1>3

(* A request replaces the entry under its id: the task that waited on the  *)
(* old one learns that its sender is gone, the new one is reachable.       *)
LEMMA RequestStep ==
  ASSUME ApprovalInv, NEW v \in Waiters, NEW id \in CallIds, NEW c \in Categories,
         RequestApproval(v, id, c)
  PROVE  WaiterHasOneSender'
<1> DEFINE entry == [tx |-> v, category |-> c]
<1> SUFFICES ASSUME NEW w \in Waiters
             PROVE  /\ rx'[w] = "waiting" => \E i \in CallIds : HeldBy(w)' = {i}
                    /\ rx'[w] \in {"idle", "closed"} \cup Answers => HeldBy(w)' = {}
  BY DEF WaiterHasOneSender
<1> USE DEF ApprovalInv, ApprovalTypeOK
<1>1. entry # None /\ entry.tx = v
  BY NoneAssumption DEF Entries
<1>2. pending' = [pending EXCEPT ![id] = entry] /\ rx[v] = "idle"
  BY DEF RequestApproval
<1>3. HeldBy(v) = {}
  BY <1>2 DEF WaiterHasOneSender
<1>4. Settle(id, "closed") \in [Waiters -> RxStates]
  BY SettleType DEF RxStates
<1>5. rx'[v] = "waiting" /\ (w # v => rx'[w] = Settle(id, "closed")[w])
  BY <1>4 DEF RequestApproval
<1>6. CASE w = v
  <2>1. HeldBy(v)' = {id}
    BY <1>1, <1>2, <1>3 DEF HeldBy
  <2> QED BY <1>5, <1>6, <2>1 DEF Answers
<1>7. CASE w # v
  <2>1. HeldBy(w)' = HeldBy(w) \ {id}
    BY <1>1, <1>2, <1>7 DEF HeldBy
  <2>2. CASE id \in HeldBy(w)
    <3>1. pending[id] # None /\ pending[id].tx = w
      BY <2>2 DEF HeldBy
    <3>2. rx[w] \in {"waiting", "dropped"}
      BY <2>2 DEF WaiterHasOneSender, RxStates
    <3>3. CASE rx[w] = "dropped"
      <4>1. rx'[w] = "dropped"
        BY <1>5, <1>7, <3>1, <3>3 DEF Settle
      <4> QED BY <4>1 DEF Answers
    <3>4. CASE rx[w] = "waiting"
      <4>1. HeldBy(w)' = {}
        BY <2>1, <2>2, <3>4 DEF WaiterHasOneSender
      <4>2. rx'[w] = "closed"
        BY <1>5, <1>7, <3>1, <3>4 DEF Settle
      <4> QED BY <4>1, <4>2
    <3> QED BY <3>2, <3>3, <3>4
  <2>3. CASE id \notin HeldBy(w)
    <3>1. HeldBy(w)' = HeldBy(w)
      BY <2>1, <2>3
    <3>2. rx'[w] = rx[w]
      BY <1>5, <1>7, <2>3, NoneAssumption DEF Settle, HeldBy, Entries
    <3> QED BY <3>1, <3>2 DEF WaiterHasOneSender
  <2> QED BY <2>2, <2>3
<1> QED BY <1>6, <1>7

(* Every operation of the manager leaves every waiter reachable.           *)
LEMMA SenderStep ==
  ASSUME ApprovalInv, [ApprovalNext]_approvalVars
  PROVE  WaiterHasOneSender'
<1>1. ASSUME NEW w \in Waiters, NEW id \in CallIds, NEW c \in Categories,
             RequestApproval(w, id, c)
      PROVE  WaiterHasOneSender'
  BY <1>1, RequestStep
<1>2. ASSUME NEW id \in CallIds, NEW s \in Scopes, Approve(id, s)
      PROVE  WaiterHasOneSender'
  BY <1>2, RemoveStep DEF Approve, Answers
<1>3. ASSUME NEW id \in CallIds, NEW a \in Answers, Resolve(id, a)
      PROVE  WaiterHasOneSender'
  BY <1>3, RemoveStep DEF Resolve
<1>4. ASSUME NEW id \in CallIds, DropPending(id)
      PROVE  WaiterHasOneSender'
  BY <1>4, RemoveStep DEF DropPending
<1>5. ASSUME UNCHANGED <<pending, rx>>
      PROVE  WaiterHasOneSender'
  BY <1>5 DEF ApprovalInv, WaiterHasOneSender, HeldBy
<1>6. ASSUME NEW w \in Waiters, TakeAnswer(w) \/ Abandon(w)
      PROVE  WaiterHasOneSender'
  <2>1. pending' = pending /\ rx' \in {[rx EXCEPT ![w] = "idle"], [rx EXCEPT ![w] = "dropped"]}
    BY <1>6 DEF TakeAnswer, Abandon
  <2>2. rx'[w] = "idle" => HeldBy(w) = {}
    BY <1>6, <2>1 DEF TakeAnswer, Abandon, ApprovalInv, ApprovalTypeOK, WaiterHasOneSender
  <2>3. \A u \in Waiters : HeldBy(u)' = HeldBy(u)
    BY <2>1 DEF HeldBy
  <2>4. \A u \in Waiters : u # w => rx'[u] = rx[u]
    BY <2>1 DEF ApprovalInv, ApprovalTypeOK
  <2>5. rx'[w] \in {"idle", "dropped"}
    BY <2>1 DEF ApprovalInv, ApprovalTypeOK
  <2> QED BY <2>2, <2>3, <2>4, <2>5 DEF ApprovalInv, WaiterHasOneSender, Answers
<1> QED
  BY <1>1, <1>2, <1>3, <1>4, <1>5, <1>6
     DEF ApprovalNext, approvalVars, SetMode, AddAutoApprove

(* The manager starts typed and with no entry.                             *)
LEMMA InitInv == ApprovalInit => ApprovalInv
<1> SUFFICES ASSUME ApprovalInit PROVE ApprovalInv
  OBVIOUS
<1>1. ApprovalTypeOK
  BY DEF ApprovalInit, ApprovalTypeOK, SessionModes, RxStates
<1>2. \A w \in Waiters : rx[w] = "idle" /\ HeldBy(w) = {}
  BY DEF ApprovalInit, HeldBy
<1> QED BY <1>1, <1>2 DEF ApprovalInv, WaiterHasOneSender

(* The inductive invariant holds throughout: types, and a sender for every *)
(* waiter.                                                                 *)
THEOREM ApprovalInvariant == ApprovalSpec => []ApprovalInv
<1>1. ApprovalInv /\ [ApprovalNext]_approvalVars => ApprovalInv'
  BY TypeStep, SenderStep DEF ApprovalInv
<1> QED BY InitInv, <1>1, PTL DEF ApprovalSpec

(* The state of the manager is always of its types, for any calls, tasks   *)
(* and order of operations.                                                *)
THEOREM ApprovalTypeCorrect == ApprovalSpec => []ApprovalTypeOK
BY ApprovalInvariant, PTL DEF ApprovalInv

(* No task ever sleeps on a request that nobody can answer any more, for   *)
(* any calls, tasks and order of operations.                               *)
THEOREM WaitersReachable == ApprovalSpec => []WaiterHasOneSender
BY ApprovalInvariant, PTL DEF ApprovalInv

-----------------------------------------------------------------------------
(***************************************************************************)
(* The session.                                                            *)
(***************************************************************************)
(***************************************************************************)
(* The inductive invariant.  OnlyApprovedCallsRun and                      *)
(* PendingOnlyWhileWaiting say nothing of calls that have not come up yet, *)
(* nor of what the engine's receiver holds; the parts below add both.      *)
(***************************************************************************)

(* Nothing has happened to a call yet.                                     *)
Fresh(id) == id \notin requested /\ answered[id] = None /\ started[id] = None

(* The engine runs in the running phase only, and the round it settles is  *)
(* there as long as it is at one of its calls.                             *)
EngineInv ==
  /\ eng = "off" <=> phase # "running"
  /\ eng \in {"off", "start", "model"} => todo = <<>>
  /\ eng \in {"wait", "exec"} => todo # <<>>

(* The calls of the round are distinct, and those not reached yet, like    *)
(* the ids the provider has not used, are fresh.                           *)
RoundInv ==
  /\ \A i \in DOMAIN todo :
       /\ todo[i] \in known
       /\ \A j \in DOMAIN todo : i # j => todo[i] # todo[j]
       /\ i > 1 \/ eng = "tool" => Fresh(todo[i])
  /\ \A id \in CallIds \ known : Fresh(id)

(* The engine's receiver waits, or holds the answer that call was given.   *)
ReceiverInv ==
  phase \notin {"cleanup", "exited"} =>
    IF eng = "wait"
    THEN /\ started[Head(todo)] = None
         /\ \/ rx["engine"] = "waiting" /\ answered[Head(todo)] = None
            \/ rx["engine"] \in Answers /\ answered[Head(todo)] = rx["engine"]
    ELSE rx["engine"] = "idle"

(* The call the engine waits for was announced.                            *)
WaitsAsked == eng = "wait" => Head(todo) \in requested

CallsInv ==
  /\ TypeOK /\ EngineInv /\ RoundInv /\ ReceiverInv /\ WaitsAsked
  /\ OnlyApprovedCallsRun /\ PendingOnlyWhileWaiting

LEMMA InboxHead ==
  ASSUME TypeOK, inbox # <<>>
  PROVE  /\ Head(inbox) \in Commands \cup ClientAnswer
         /\ Tail(inbox) \in Seq(Commands \cup ClientAnswer)
BY DEF TypeOK

LEMMA CommandFields ==
  ASSUME NEW c \in Commands \cup ClientAnswer
  PROVE  /\ c.kind \in {"approve", "deny"} => c.call \in CallIds
         /\ c.kind = "set_mode" => c.mode \in SessionModes
         /\ c.kind = "set_config" => c.update \in Updates
         /\ c.kind = "message" => c.msg \in MsgIds
         /\ c.kind = "add_mcp" => c.server \in Servers
BY DEF Commands, ClientAnswer

(* What a handler takes from the queue has the fields of its kind.         *)
LEMMA Taken ==
  ASSUME TypeOK, NEW kind, Take(kind)
  PROVE  /\ inbox' \in Seq(Commands \cup ClientAnswer)
         /\ kind \in {"approve", "deny"} => Head(inbox).call \in CallIds
         /\ kind = "set_mode" => Head(inbox).mode \in SessionModes
         /\ kind = "set_config" => Head(inbox).update \in Updates
         /\ kind = "message" => Head(inbox).msg \in MsgIds
         /\ kind = "add_mcp" => Head(inbox).server \in Servers
BY InboxHead, CommandFields DEF Take

(* A step of the session is an operation of the approval manager, or none. *)
LEMMA ApprovalStep ==
  ASSUME TypeOK, [Next]_vars
  PROVE  [ApprovalNext]_approvalVars
<1>1. CASE Client
  BY <1>1 DEF Client, Send, AnswerRequest, CloseStdin
<1>2. CASE Engine
  <2>1. CASE EngineRequest
    <3>1. Head(todo) \in CallIds /\ CallCategory[Head(todo)] \in Categories
      BY <2>1, CallCategoryAssumption DEF EngineRequest, TypeOK
    <3> QED BY <2>1, <3>1, WaitersAssumption DEF EngineRequest, ApprovalNext
  <2>2. CASE EngineApproved \/ EngineDenied
    BY <2>2, WaitersAssumption DEF EngineApproved, EngineDenied, ApprovalNext
  <2> QED
    BY <1>2, <2>1, <2>2
       DEF Engine, EngineSlash, EngineLastTurn, EngineStart, EngineToolTurn, EngineRoundDone,
           EngineAutoRun, EngineToolDone
<1>3. CASE Host
  <2>1. CASE HandleAnswer
    BY <2>1, Taken DEF HandleAnswer, ResolveCall, ApprovalNext, Answers
  <2>2. CASE HandleSetModeIdle \/ HandleSetModeInFlight
    BY <2>2, Taken DEF HandleSetModeIdle, HandleSetModeInFlight, ApprovalNext
  <2>3. CASE HandleStopInFlight
    BY <2>3, WaitersAssumption DEF HandleStopInFlight, ApprovalNext
  <2> QED
    BY <1>3, <2>1, <2>2, <2>3
       DEF Host, HandlePing, HandleSetConfigIdle, HandleSetConfigInFlight, HandleMessage,
           HandleIgnored, HandleStopIdle, PreAddMcp, PreStop, PreEnds, LoopEof, Cleanup
<1>4. CASE UNCHANGED vars
  BY <1>4 DEF vars, approvalVars
<1> QED BY <1>1, <1>2, <1>3, <1>4 DEF Next

LEMMA ConfigType ==
  ASSUME NEW base \in [Fields -> Values], NEW update \in Updates
  PROVE  ApplyConfigUpdate(base, update) \in [Fields -> Values]
BY UpdatesAssumption DEF ApplyConfigUpdate, Values

(* The end of a run keeps the types of the configuration.                  *)
LEMMA QueuedType ==
  ASSUME TypeOK, ApplyQueued
  PROVE  /\ config' \in [Fields -> Values]
         /\ pendingConfig' \in Updates \cup {None} /\ modeChanged' \in BOOLEAN
         /\ advertised' \in Values \X SessionModes
<1>1. config' \in [Fields -> Values]
  BY ConfigType DEF TypeOK, ApplyQueued
<1>2. Capabilities(config', sessionMode) \in Values \X SessionModes
  BY <1>1 DEF Capabilities, Fields, TypeOK, ApprovalTypeOK
<1>3. advertised' \in {Capabilities(config', sessionMode), advertised}
  BY DEF ApplyQueued
<1>4. advertised' \in Values \X SessionModes
  BY <1>2, <1>3 DEF TypeOK
<1>5. pendingConfig' = None /\ modeChanged' = FALSE
  BY DEF ApplyQueued
<1> QED BY <1>1, <1>4, <1>5

(* What the client does keeps the types.                                   *)
LEMMA ClientType ==
  ASSUME TypeOK, Client, ApprovalTypeOK'
  PROVE  TypeOK'
<1> USE DEF TypeOK, runVars, configVars, callVars, exitVars
<1>1. ASSUME NEW c \in Commands, Send(c) PROVE TypeOK'
  <2>1. inbox' \in Seq(Commands \cup ClientAnswer) /\ pings' \in Nat
    BY <1>1 DEF Send
  <2>2. sent' \in 0..MaxCommands
    BY <1>1, MaxCommandsAssumption DEF Send
  <2> QED BY <1>1, <2>1, <2>2 DEF Send
<1>2. ASSUME NEW id \in CallIds, NEW kind \in {"approve", "deny"}, AnswerRequest(id, kind)
      PROVE  TypeOK'
  <2>1. [kind |-> kind, call |-> id] \in ClientAnswer
    BY DEF ClientAnswer
  <2>2. inbox' \in Seq(Commands \cup ClientAnswer)
    BY <1>2, <2>1 DEF AnswerRequest
  <2> QED BY <1>2, <2>2 DEF AnswerRequest
<1>3. CASE CloseStdin
  BY <1>3 DEF CloseStdin
<1> QED BY <1>1, <1>2, <1>3 DEF Client

(* The end of a run counts a stream event of the message it was about.     *)
LEMMA StreamsType ==
  ASSUME TypeOK, NEW m,
         \/ streams' = [streams EXCEPT ![m].taken = @ + 1]
         \/ streams' = [streams EXCEPT ![m].start = @ + 1]
         \/ streams' = [streams EXCEPT ![m].end = @ + 1]
  PROVE  streams' \in [MsgIds -> [taken : Nat, start : Nat, end : Nat]]
<1>1. CASE m \in MsgIds
  <2>1. streams[m] \in [taken : Nat, start : Nat, end : Nat]
    BY <1>1 DEF TypeOK
  <2>2. /\ [streams[m] EXCEPT !.taken = @ + 1] \in [taken : Nat, start : Nat, end : Nat]
        /\ [streams[m] EXCEPT !.start = @ + 1] \in [taken : Nat, start : Nat, end : Nat]
        /\ [streams[m] EXCEPT !.end = @ + 1] \in [taken : Nat, start : Nat, end : Nat]
    BY <2>1
  <2> QED BY <1>1, <2>2 DEF TypeOK
<1>2. CASE m \notin MsgIds
  BY <1>2 DEF TypeOK
<1> QED BY <1>1, <1>2

(* What the engine does keeps the types.                                   *)
LEMMA EngineType ==
  ASSUME TypeOK, EngineInv, Engine, ApprovalTypeOK'
  PROVE  TypeOK'
<1> USE DEF TypeOK, clientVars, runVars, configVars, callVars, exitVars, EngineStates, Starts
<1>1. ASSUME NEW ok \in BOOLEAN, EngineSlash(ok) \/ EngineLastTurn(ok) PROVE TypeOK'
  <2>1. FinishRun(ok)
    BY <1>1 DEF EngineSlash, EngineLastTurn
  <2>2. streams' \in [MsgIds -> [taken : Nat, start : Nat, end : Nat]]
    BY <2>1, StreamsType DEF FinishRun
  <2>3. /\ config' \in [Fields -> Values]
        /\ pendingConfig' \in Updates \cup {None} /\ modeChanged' \in BOOLEAN
        /\ advertised' \in Values \X SessionModes
    BY <2>1, QueuedType DEF FinishRun
  <2>4. phase' = "loop" /\ cur' = None /\ eng' = "off" /\ todo' = <<>>
    BY <2>1 DEF FinishRun
  <2>5. UNCHANGED <<clientVars, known, callVars, exitVars, pings, pongs>>
    BY <1>1 DEF EngineSlash, EngineLastTurn
  <2> QED BY <2>2, <2>3, <2>4, <2>5, SMTT(20)
<1>2. CASE EngineStart
  <2>1. streams' \in [MsgIds -> [taken : Nat, start : Nat, end : Nat]]
    BY <1>2, StreamsType DEF EngineStart
  <2> QED BY <1>2, <2>1 DEF EngineStart
<1>3. ASSUME NEW round \in Rounds, EngineToolTurn(round) PROVE TypeOK'
  <2>1. PICK n \in 1..MaxRound : round \in [1..n -> CallIds]
    BY <1>3, Zenon DEF Rounds
  <2>2. n \in Nat /\ round \in Seq(CallIds)
    BY <2>1, MaxRoundAssumption
  <2>3. {round[i] : i \in DOMAIN round} \subseteq CallIds
    BY <2>1
  <2> QED BY <1>3, <2>2, <2>3 DEF EngineToolTurn
<1>4. CASE EngineRoundDone
  BY <1>4 DEF EngineRoundDone
<1>5. CASE EngineRequest
  BY <1>5 DEF EngineRequest
<1>6. CASE EngineAutoRun
  BY <1>6 DEF EngineAutoRun
<1>7. CASE EngineApproved
  BY <1>7 DEF EngineApproved
<1>8. CASE EngineDenied
  <2>1. Tail(todo) \in Seq(CallIds)
    BY <1>8 DEF EngineDenied, EngineInv, Running
  <2> QED BY <1>8, <2>1 DEF EngineDenied
<1>9. CASE EngineToolDone
  <2>1. Tail(todo) \in Seq(CallIds)
    BY <1>9 DEF EngineToolDone, EngineInv, Running
  <2> QED BY <1>9, <2>1 DEF EngineToolDone
<1> QED BY <1>1, <1>2, <1>3, <1>4, <1>5, <1>6, <1>7, <1>8, <1>9 DEF Engine

(* What the session task does keeps the types.                             *)
LEMMA HostType ==
  ASSUME TypeOK, Host, ApprovalTypeOK'
  PROVE  TypeOK'
<1> USE DEF TypeOK, clientVars, runVars, configVars, callVars, exitVars
<1>1. CASE HandleAnswer
  <2>1. inbox' \in Seq(Commands \cup ClientAnswer)
    BY <1>1, Taken DEF HandleAnswer
  <2>2. answered' \in [CallIds -> Answers \cup {None}] /\ UNCHANGED <<requested, started>>
    BY <1>1 DEF HandleAnswer, ResolveCall, Answers
  <2> QED BY <1>1, <2>1, <2>2 DEF HandleAnswer
<1>2. CASE HandlePing
  BY <1>2, Taken DEF HandlePing
<1>3. CASE HandleSetModeIdle \/ HandleSetModeInFlight
  <2>1. inbox' \in Seq(Commands \cup ClientAnswer)
    BY <1>3, Taken DEF HandleSetModeIdle, HandleSetModeInFlight
  <2>2. Capabilities(config, sessionMode') \in Values \X SessionModes
    BY DEF Capabilities, Fields, ApprovalTypeOK
  <2> QED BY <1>3, <2>1, <2>2 DEF HandleSetModeIdle, HandleSetModeInFlight
<1>4. CASE HandleSetConfigIdle \/ HandleSetConfigInFlight
  <2>1. inbox' \in Seq(Commands \cup ClientAnswer) /\ Head(inbox).update \in Updates
    BY <1>4, Taken DEF HandleSetConfigIdle, HandleSetConfigInFlight
  <2>2. config' \in [Fields -> Values]
    BY <1>4, <2>1, ConfigType DEF HandleSetConfigIdle, HandleSetConfigInFlight
  <2>3. Capabilities(config', sessionMode) \in Values \X SessionModes
    BY <2>2 DEF Capabilities, Fields, ApprovalTypeOK
  <2> QED BY <1>4, <2>1, <2>2, <2>3 DEF HandleSetConfigIdle, HandleSetConfigInFlight
<1>5. CASE HandleMessage
  <2>1. inbox' \in Seq(Commands \cup ClientAnswer) /\ Head(inbox).msg \in MsgIds
    BY <1>5, Taken DEF HandleMessage
  <2>2. streams' \in [MsgIds -> [taken : Nat, start : Nat, end : Nat]]
    BY <1>5, StreamsType DEF HandleMessage
  <2> QED BY <1>5, <2>1, <2>2 DEF HandleMessage, EngineStates
<1>6. CASE HandleIgnored
  BY <1>6, Taken DEF HandleIgnored
<1>7. CASE HandleStopIdle \/ PreStop
  BY <1>7, Taken DEF HandleStopIdle, PreStop
<1>8. CASE HandleStopInFlight
  <2>1. /\ config' \in [Fields -> Values]
        /\ pendingConfig' \in Updates \cup {None} /\ modeChanged' \in BOOLEAN
        /\ advertised' \in Values \X SessionModes
    BY <1>8, QueuedType DEF HandleStopInFlight
  <2>2. inbox' \in Seq(Commands \cup ClientAnswer)
    BY <1>8, Taken DEF HandleStopInFlight
  <2> QED BY <1>8, <2>1, <2>2 DEF HandleStopInFlight, EngineStates
<1>9. CASE PreAddMcp
  BY <1>9, Taken DEF PreAddMcp
<1>10. CASE PreEnds \/ LoopEof \/ Cleanup
  BY <1>10 DEF PreEnds, LoopEof, Cleanup
<1> QED
  BY <1>1, <1>2, <1>3, <1>4, <1>5, <1>6, <1>7, <1>8, <1>9, <1>10 DEF Host

(* Every step of the session keeps the types.                              *)
LEMMA SessionTypeStep ==
  ASSUME TypeOK, EngineInv, [Next]_vars
  PROVE  TypeOK'
<1>1. ApprovalTypeOK'
  BY ApprovalStep, TypeStep DEF TypeOK
<1>2. CASE UNCHANGED vars
  BY <1>2 DEF vars, TypeOK, ApprovalTypeOK, approvalVars, clientVars, runVars, configVars,
              callVars, exitVars
<1> QED BY <1>1, <1>2, ClientType, EngineType, HostType DEF Next

(* The engine's place in its run fits the phase and the round.             *)
LEMMA EngineInvStep ==
  ASSUME EngineInv, [Next]_vars
  PROVE  EngineInv'
<1> USE DEF EngineInv, runVars
<1>1. CASE Client
  BY <1>1 DEF Client, Send, AnswerRequest, CloseStdin
<1>2. CASE Engine
  BY <1>2 DEF Engine, EngineSlash, EngineLastTurn, FinishRun, EngineStart, EngineToolTurn,
              EngineRoundDone, EngineRequest, EngineAutoRun, EngineApproved, EngineDenied,
              EngineToolDone, Running
<1>3. CASE Host
  BY <1>3 DEF Host, HandleAnswer, HandlePing, HandleSetModeIdle, HandleSetModeInFlight,
              HandleSetConfigIdle, HandleSetConfigInFlight, HandleMessage, HandleIgnored,
              HandleStopIdle, HandleStopInFlight, PreAddMcp, PreStop, PreEnds, LoopEof, Cleanup
<1>4. CASE UNCHANGED vars
  BY <1>4 DEF vars
<1> QED BY <1>1, <1>2, <1>3, <1>4 DEF Next

(* The request of the call the engine comes to wait for is announced in    *)
(* the same step.                                                          *)
LEMMA WaitsAskedStep ==
  ASSUME WaitsAsked, [Next]_vars
  PROVE  WaitsAsked'
<1> USE DEF WaitsAsked, runVars, callVars
<1>1. CASE Client
  <2>1. UNCHANGED <<eng, todo, requested>>
    BY <1>1 DEF Client, Send, AnswerRequest, CloseStdin
  <2> QED BY <2>1
<1>2. CASE Engine
  BY <1>2 DEF Engine, EngineSlash, EngineLastTurn, FinishRun, EngineStart, EngineToolTurn,
              EngineRoundDone, EngineRequest, EngineAutoRun, EngineApproved, EngineDenied,
              EngineToolDone
<1>3. CASE Host
  BY <1>3 DEF Host, HandleAnswer, ResolveCall, HandlePing, HandleSetModeIdle,
              HandleSetModeInFlight, HandleSetConfigIdle, HandleSetConfigInFlight, HandleMessage,
              HandleIgnored, HandleStopIdle, HandleStopInFlight, PreAddMcp, PreStop, PreEnds,
              LoopEof, Cleanup
<1>4. CASE UNCHANGED vars
  BY <1>4 DEF vars
<1> QED BY <1>1, <1>2, <1>3, <1>4 DEF Next

(* A step that touches no call keeps what is known of calls.               *)
LEMMA NoCallStep ==
  ASSUME CallsInv, UNCHANGED <<known, callVars, pending, rx>>,
         \/ UNCHANGED <<phase, eng, todo>>
         \/ phase' \in {"cleanup", "exited"} /\ eng' = "off" /\ todo' = <<>>
         \/ phase \notin {"cleanup", "exited"} /\ eng # "wait" /\ eng' # "wait" /\ todo' = <<>>
  PROVE  RoundInv' /\ ReceiverInv' /\ OnlyApprovedCallsRun' /\ PendingOnlyWhileWaiting'
<1> USE DEF callVars
<1>1. OnlyApprovedCallsRun'
  BY DEF CallsInv, OnlyApprovedCallsRun
<1>2. RoundInv'
  BY DEF CallsInv, RoundInv, Fresh
<1>3. ReceiverInv'
  BY DEF CallsInv, ReceiverInv
<1>4. PendingOnlyWhileWaiting'
  BY DEF CallsInv, PendingOnlyWhileWaiting
<1> QED BY <1>1, <1>2, <1>3, <1>4

(* The calls of the round still to settle, one by one.                     *)
LEMMA HeadAndTail ==
  ASSUME CallsInv, todo # <<>>
  PROVE  /\ Head(todo) \in CallIds /\ Head(todo) \in known /\ Head(todo) = todo[1]
         /\ 1 \in DOMAIN todo
         /\ \A i \in DOMAIN Tail(todo) :
              i + 1 \in DOMAIN todo /\ Tail(todo)[i] = todo[i + 1] /\ i + 1 > 1
         /\ \A i \in DOMAIN todo : i > 1 => todo[i] # Head(todo)
<1>1. todo \in Seq(CallIds)
  BY DEF CallsInv, TypeOK
<1>2. Head(todo) = todo[1] /\ 1 \in DOMAIN todo /\ Head(todo) \in CallIds
  BY <1>1
<1>3. \A i \in DOMAIN Tail(todo) :
        i + 1 \in DOMAIN todo /\ Tail(todo)[i] = todo[i + 1] /\ i + 1 > 1
  BY <1>1
<1>4. \A i \in DOMAIN todo : i > 1 => todo[i] # Head(todo)
  BY <1>2 DEF CallsInv, RoundInv
<1> QED BY <1>2, <1>3, <1>4 DEF CallsInv, RoundInv

(* A new round's calls are fresh, as the provider has not used their ids.  *)
LEMMA ToolTurnStep ==
  ASSUME CallsInv, NEW round \in Rounds, EngineToolTurn(round)
  PROVE  RoundInv' /\ ReceiverInv' /\ OnlyApprovedCallsRun' /\ PendingOnlyWhileWaiting'
<1> USE DEF EngineToolTurn, Running, callVars
<1>1. PICK n \in 1..MaxRound : round \in [1..n -> CallIds]
  BY Zenon DEF Rounds
<1>2. DOMAIN round = 1..n /\ n \in Nat
  BY <1>1, MaxRoundAssumption
<1>3. OnlyApprovedCallsRun'
  BY DEF CallsInv, OnlyApprovedCallsRun
<1>4. ASSUME NEW i \in DOMAIN round, NEW j \in DOMAIN round, i # j PROVE round[i] # round[j]
  BY <1>2, <1>4
<1>5. \A i \in DOMAIN round : Fresh(round[i])
  BY <1>1 DEF CallsInv, RoundInv
<1>6. RoundInv'
  BY <1>4, <1>5 DEF CallsInv, RoundInv, Fresh
<1>7. ReceiverInv' /\ PendingOnlyWhileWaiting'
  BY DEF CallsInv, ReceiverInv, PendingOnlyWhileWaiting, approvalVars
<1> QED BY <1>3, <1>6, <1>7

(* A request registers the call it announces, and only that call.          *)
LEMMA CallRequestStep ==
  ASSUME CallsInv, EngineRequest
  PROVE  RoundInv' /\ ReceiverInv' /\ OnlyApprovedCallsRun' /\ PendingOnlyWhileWaiting'
<1> DEFINE id == Head(todo)
<1> USE DEF EngineRequest, RequestApproval, Running
<1>1. id \in CallIds /\ id = todo[1] /\ Fresh(id) /\ id \in known
  BY HeadAndTail DEF CallsInv, RoundInv
<1>2. \A c \in CallIds : pending[c] = None
  BY DEF CallsInv, PendingOnlyWhileWaiting
<1>3. rx' = [rx EXCEPT !["engine"] = "waiting"] /\ rx'["engine"] = "waiting"
  BY <1>1, <1>2, WaitersAssumption DEF Settle, CallsInv, TypeOK, ApprovalTypeOK
<1>4. [tx |-> "engine", category |-> CallCategory[id]] # None
  BY <1>1, NoneAssumption, CallCategoryAssumption, WaitersAssumption DEF Entries
<1>5. \A c \in CallIds : pending'[c] # None <=> c = id
  BY <1>1, <1>2, <1>4 DEF CallsInv, TypeOK, ApprovalTypeOK
<1>6. PendingOnlyWhileWaiting'
  BY <1>3, <1>5 DEF PendingOnlyWhileWaiting
<1>7. ReceiverInv'
  BY <1>1, <1>3 DEF ReceiverInv, Fresh
<1>8. OnlyApprovedCallsRun'
  BY <1>1, StartsAssumption DEF CallsInv, OnlyApprovedCallsRun, Fresh, Starts
<1>9. RoundInv'
  BY <1>1, HeadAndTail DEF CallsInv, RoundInv, Fresh
<1> QED BY <1>6, <1>7, <1>8, <1>9

(* A call the policy lets through runs without a request.                  *)
LEMMA AutoRunStep ==
  ASSUME CallsInv, EngineAutoRun
  PROVE  RoundInv' /\ ReceiverInv' /\ OnlyApprovedCallsRun' /\ PendingOnlyWhileWaiting'
<1> DEFINE id == Head(todo)
<1> USE DEF EngineAutoRun, Running, approvalVars
<1>1. id \in CallIds /\ id = todo[1] /\ Fresh(id) /\ id \in known
  BY HeadAndTail DEF CallsInv, RoundInv
<1>2. started' = [started EXCEPT ![id] = "policy"] /\ started \in [CallIds -> Starts \cup {None}]
  BY DEF CallsInv, TypeOK
<1>3. \A c \in CallIds : started'[c] = IF c = id THEN "policy" ELSE started[c]
  BY <1>2
<1>4. answered[id] # "denied"
  BY <1>1, NoneAssumption DEF Fresh, Answers
<1>5. OnlyApprovedCallsRun'
  BY <1>1, <1>3, <1>4 DEF CallsInv, OnlyApprovedCallsRun, Fresh
<1>6. RoundInv'
  BY <1>1, <1>3, HeadAndTail DEF CallsInv, RoundInv, Fresh, TypeOK
<1>7. ReceiverInv' /\ PendingOnlyWhileWaiting'
  BY DEF CallsInv, ReceiverInv, PendingOnlyWhileWaiting
<1> QED BY <1>5, <1>6, <1>7

(* A call runs only on an approval its own request got.                    *)
LEMMA ApprovedStep ==
  ASSUME CallsInv, EngineApproved
  PROVE  RoundInv' /\ ReceiverInv' /\ OnlyApprovedCallsRun' /\ PendingOnlyWhileWaiting'
<1> DEFINE id == Head(todo)
<1> USE DEF EngineApproved, TakeAnswer, Running
<1>1. id \in CallIds /\ id = todo[1] /\ id \in known
  BY HeadAndTail DEF CallsInv, EngineInv
<1>2. answered[id] = "approved"
  BY DEF CallsInv, ReceiverInv, Answers
<1>3. \A c \in CallIds : started'[c] = IF c = id THEN "client" ELSE started[c]
  BY DEF CallsInv, TypeOK
<1>4. OnlyApprovedCallsRun'
  BY <1>1, <1>2, <1>3 DEF CallsInv, OnlyApprovedCallsRun
<1>5. RoundInv'
  BY <1>1, <1>3, HeadAndTail DEF CallsInv, EngineInv, RoundInv, Fresh, TypeOK
<1>6. rx'["engine"] = "idle"
  BY WaitersAssumption DEF CallsInv, TypeOK, ApprovalTypeOK
<1>7. ReceiverInv' /\ PendingOnlyWhileWaiting'
  BY <1>6 DEF CallsInv, ReceiverInv, PendingOnlyWhileWaiting
<1> QED BY <1>4, <1>5, <1>7

(* A call that is denied or done leaves the next one to be settled.        *)
LEMMA SettledStep ==
  ASSUME CallsInv, EngineDenied \/ EngineToolDone
  PROVE  RoundInv' /\ ReceiverInv' /\ OnlyApprovedCallsRun' /\ PendingOnlyWhileWaiting'
<1> USE DEF EngineDenied, EngineToolDone, TakeAnswer, Running, callVars, approvalVars
<1>1. todo # <<>> /\ todo' = Tail(todo)
  BY DEF CallsInv, EngineInv
<1>2. RoundInv'
  BY <1>1, HeadAndTail DEF CallsInv, RoundInv, Fresh
<1>3. rx'["engine"] = "idle"
  BY WaitersAssumption DEF CallsInv, TypeOK, ApprovalTypeOK, ReceiverInv
<1>4. ReceiverInv' /\ PendingOnlyWhileWaiting'
  BY <1>3 DEF CallsInv, ReceiverInv, PendingOnlyWhileWaiting
<1>5. OnlyApprovedCallsRun'
  BY DEF CallsInv, OnlyApprovedCallsRun
<1> QED BY <1>2, <1>4, <1>5

(* An answer reaches the call it names while that call waits, and no other *)
(* one: an early, a late or a second answer changes nothing.               *)
LEMMA AnswerStep ==
  ASSUME CallsInv, HandleAnswer
  PROVE  RoundInv' /\ ReceiverInv' /\ OnlyApprovedCallsRun' /\ PendingOnlyWhileWaiting'
<1> USE DEF runVars
<1>1. PICK id \in CallIds, a \in Answers : ResolveCall(id, a)
  BY Taken DEF HandleAnswer, CallsInv, Answers
<1>2. phase \in {"loop", "running"} /\ UNCHANGED <<phase, eng, todo, known>>
  BY DEF HandleAnswer
<1> USE DEF ResolveCall, Resolve
<1>3. CASE pending[id] = None
  <2>1. pending' = pending /\ rx' = rx /\ answered' = answered
    BY <1>1, <1>3 DEF Settle, CallsInv, TypeOK, ApprovalTypeOK
  <2> QED BY <1>1, <1>2, <2>1, NoCallStep DEF callVars
<1>4. CASE pending[id] # None
  <2>1. eng = "wait" /\ id = Head(todo) /\ rx["engine"] = "waiting"
    BY <1>2, <1>4 DEF CallsInv, PendingOnlyWhileWaiting
  <2>2. answered[id] = None /\ started[id] = None
    BY <1>2, <2>1, NoneAssumption DEF CallsInv, ReceiverInv, Answers
  <2>3. pending[id].tx = "engine"
    BY <1>4, WaitersAssumption DEF CallsInv, TypeOK, ApprovalTypeOK, Entries
  <2>4. rx'["engine"] = a
    BY <1>1, <1>4, <2>1, <2>3, WaitersAssumption DEF Settle, CallsInv, TypeOK, ApprovalTypeOK
  <2>5. \A c \in CallIds : answered'[c] = IF c = id THEN a ELSE answered[c]
    BY <1>1, <1>4 DEF CallsInv, TypeOK
  <2>6. \A c \in CallIds : pending'[c] = None
    BY <1>1, <1>2, <2>1 DEF CallsInv, PendingOnlyWhileWaiting, TypeOK, ApprovalTypeOK
  <2>7. PendingOnlyWhileWaiting'
    BY <1>2, <2>4, <2>6 DEF PendingOnlyWhileWaiting, Answers
  <2>8. ReceiverInv'
    BY <1>1, <1>2, <2>1, <2>2, <2>4, <2>5 DEF ReceiverInv
  <2>9. OnlyApprovedCallsRun'
    BY <1>1, <2>2, <2>5, StartsAssumption DEF CallsInv, OnlyApprovedCallsRun, Starts
  <2>10. RoundInv'
    BY <1>1, <1>2, <2>1, <2>5, HeadAndTail DEF CallsInv, EngineInv, RoundInv, Fresh, TypeOK
  <2> QED BY <2>7, <2>8, <2>9, <2>10
<1> QED BY <1>3, <1>4

(* Every step of the session keeps what is known of calls.                 *)
LEMMA CallsStep ==
  ASSUME CallsInv, [Next]_vars
  PROVE  RoundInv' /\ ReceiverInv' /\ OnlyApprovedCallsRun' /\ PendingOnlyWhileWaiting'
<1> USE DEF clientVars, runVars, approvalVars, callVars
<1>1. CASE Client
  BY <1>1, NoCallStep DEF Client, Send, AnswerRequest, CloseStdin
<1>2. CASE Engine
  <2>1. ASSUME NEW ok \in BOOLEAN, EngineSlash(ok) \/ EngineLastTurn(ok)
        PROVE  /\ UNCHANGED <<known, callVars, pending, rx>>
               /\ phase \notin {"cleanup", "exited"} /\ eng # "wait" /\ eng' # "wait"
               /\ todo' = <<>>
    BY <2>1 DEF EngineSlash, EngineLastTurn, FinishRun, Running
  <2>2. CASE EngineStart \/ EngineRoundDone
    BY <2>2, NoCallStep DEF CallsInv, EngineInv, EngineStart, EngineRoundDone, Running
  <2> QED
    BY <1>2, <2>1, <2>2, NoCallStep, ToolTurnStep, CallRequestStep, AutoRunStep, ApprovedStep,
       SettledStep DEF Engine
<1>3. CASE Host
  <2>1. CASE HandlePing \/ HandleSetModeIdle \/ HandleSetModeInFlight \/ HandleSetConfigIdle
             \/ HandleSetConfigInFlight \/ HandleIgnored \/ PreAddMcp
    BY <2>1, NoCallStep
       DEF HandlePing, HandleSetModeIdle, HandleSetModeInFlight, SetMode, HandleSetConfigIdle,
           HandleSetConfigInFlight, HandleIgnored, PreAddMcp
  <2>2. CASE HandleMessage \/ HandleStopIdle \/ PreStop \/ PreEnds \/ LoopEof \/ Cleanup
    BY <2>2, NoCallStep
       DEF CallsInv, EngineInv, HandleMessage, HandleStopIdle, PreStop, PreEnds, LoopEof, Cleanup
  <2>3. CASE HandleStopInFlight
    <3>1. RoundInv' /\ ReceiverInv' /\ PendingOnlyWhileWaiting'
      BY <2>3 DEF HandleStopInFlight, Abandon, CallsInv, RoundInv, Fresh, ReceiverInv,
                  PendingOnlyWhileWaiting
    <3>2. OnlyApprovedCallsRun'
      BY <2>3 DEF HandleStopInFlight, CallsInv, OnlyApprovedCallsRun
    <3> QED BY <3>1, <3>2
  <2> QED BY <1>3, <2>1, <2>2, <2>3, AnswerStep DEF Host
<1>4. CASE UNCHANGED vars
  BY <1>4, NoCallStep DEF vars
<1> QED BY <1>1, <1>2, <1>3, <1>4 DEF Next

(* The session starts with no call, no entry and an idle receiver.         *)
LEMMA CallsInit == Init => CallsInv
<1> SUFFICES ASSUME Init PROVE CallsInv
  OBVIOUS
<1> USE DEF Init, ApprovalInit
<1>1. ApprovalTypeOK
  BY InitInv DEF ApprovalInv
<1>2. TypeOK
  <2>1. inbox \in Seq(Commands \cup ClientAnswer) /\ todo \in Seq(CallIds)
    OBVIOUS
  <2>2. streams \in [MsgIds -> [taken : Nat, start : Nat, end : Nat]]
    OBVIOUS
  <2>3. config \in [Fields -> Values] /\ advertised \in Values \X SessionModes
    BY DEF Values, SessionModes
  <2>4. sent \in 0..MaxCommands
    BY MaxCommandsAssumption
  <2>5. /\ answered \in [CallIds -> Answers \cup {None}]
        /\ started \in [CallIds -> Starts \cup {None}]
    OBVIOUS
  <2>6. /\ stdin \in {"open", "closed"} /\ phase \in {"pre", "loop", "running", "cleanup", "exited"}
        /\ cur \in MsgIds \cup {None} /\ eng \in EngineStates /\ known \subseteq CallIds
        /\ pendingConfig \in Updates \cup {None} /\ modeChanged \in BOOLEAN
        /\ managers \subseteq Servers /\ stopHooks \in BOOLEAN /\ requested \subseteq CallIds
        /\ pings \in Nat /\ pongs \in Nat
    BY DEF EngineStates
  <2> HIDE DEF Init
  <2> QED BY <1>1, <2>1, <2>2, <2>3, <2>4, <2>5, <2>6 DEF TypeOK
<1>3. EngineInv /\ RoundInv /\ WaitsAsked
  BY DEF EngineInv, RoundInv, WaitsAsked, Fresh
<1>4. ReceiverInv /\ PendingOnlyWhileWaiting
  BY WaitersAssumption DEF ReceiverInv, PendingOnlyWhileWaiting
<1>5. OnlyApprovedCallsRun
  BY StartsAssumption, NoneAssumption DEF OnlyApprovedCallsRun, Starts, Answers
<1> QED BY <1>1, <1>2, <1>3, <1>4, <1>5 DEF CallsInv

(* The inductive invariant holds throughout a session, for any calls,      *)
(* messages, updates and commands.                                         *)
THEOREM CallsInvariant == Spec => []CallsInv
<1>1. CallsInv /\ [Next]_vars => CallsInv'
  <2> SUFFICES ASSUME CallsInv, [Next]_vars PROVE CallsInv'
    OBVIOUS
  <2>1. TypeOK' /\ EngineInv' /\ WaitsAsked'
    BY SessionTypeStep, EngineInvStep, WaitsAskedStep DEF CallsInv
  <2> QED BY <2>1, CallsStep DEF CallsInv
<1> QED BY CallsInit, <1>1, PTL DEF Spec

(* The state of a session is always of its types.                          *)
THEOREM SessionTypeCorrect == Spec => []TypeOK
BY CallsInvariant, PTL DEF CallsInv

(* No call the client was asked about ever runs without the client's own   *)
(* approval of it, whatever answers arrive early, late or twice, whatever  *)
(* the provider calls and however the session's mode changes.              *)
THEOREM NoCallWithoutApproval == Spec => []OnlyApprovedCallsRun
BY CallsInvariant, PTL DEF CallsInv

(* The manager never keeps an entry for a call the engine does not wait    *)
(* for, and the engine never waits for a call without one.                 *)
THEOREM NoEntryLeftBehind == Spec => []PendingOnlyWhileWaiting
BY CallsInvariant, PTL DEF CallsInv

(* A session uses the approval manager only through its operations.        *)
LEMMA SessionUsesManager == Spec => ApprovalSpec
<1>1. Init => ApprovalInit
  BY DEF Init
<1>2. CallsInv /\ [Next]_vars => [ApprovalNext]_approvalVars
  BY ApprovalStep DEF CallsInv
<1> QED BY CallsInvariant, <1>1, <1>2, PTL DEF Spec, ApprovalSpec

(* The engine of a session never waits for an answer that cannot reach it. *)
THEOREM SessionWaitersReachable == Spec => []WaiterHasOneSender
BY SessionUsesManager, WaitersReachable, PTL

-----------------------------------------------------------------------------
(***************************************************************************)
(* The session as its user sees it.  What CallAuthority calls the standing *)
(* of a call is spread over the engine's receiver, the place of the engine *)
(* in its round and what was said of the call; each step moves at most one *)
(* call, along one of the abstract transitions.                            *)
(***************************************************************************)
LEMMA OneCallMoves ==
  ASSUME NEW id \in CallIds, NEW from, NEW to,
         CallStanding(id) = from, CallStanding(id)' = to,
         \A c \in CallIds \ {id} : CallStanding(c)' = CallStanding(c)
  PROVE  Authority!Turns(id, from, to)
BY DEF Authority!Turns, CallStandings

LEMMA NoCallMoves ==
  ASSUME \A c \in CallIds : CallStanding(c)' = CallStanding(c)
  PROVE  UNCHANGED CallStandings
BY DEF CallStandings

(* A step that says nothing of a call, away from the wait for an answer or *)
(* within it.                                                              *)
LEMMA SilentStep ==
  ASSUME UNCHANGED callVars,
         \/ eng # "wait" /\ eng' # "wait"
         \/ UNCHANGED <<eng, todo, rx>>
  PROVE  UNCHANGED CallStandings
<1>1. ASSUME NEW c \in CallIds PROVE CallStanding(c)' = CallStanding(c)
  BY DEF CallStanding, callVars
<1> QED BY <1>1, NoCallMoves

(* No question is open while the engine does not wait.                     *)
LEMMA NothingOpen ==
  ASSUME eng # "wait"
  PROVE  Authority!Open = {}
BY DEF Authority!Open, CallStandings, CallStanding

LEMMA AskStep ==
  ASSUME CallsInv, EngineRequest
  PROVE  Authority!AuthorityNext
<1> DEFINE id == Head(todo)
<1> USE DEF EngineRequest, RequestApproval, Running
<1>1. id \in CallIds /\ id = todo[1] /\ Fresh(id)
  BY HeadAndTail DEF CallsInv, RoundInv
<1>2. rx'["engine"] = "waiting"
  BY <1>1, WaitersAssumption, SettleType DEF CallsInv, TypeOK, RxStates
<1>3. CallStanding(id) = "new"
  BY <1>1 DEF CallStanding, Fresh
<1>4. CallStanding(id)' = "asked"
  BY <1>1, <1>2 DEF CallStanding, Fresh
<1>5. ASSUME NEW c \in CallIds \ {id} PROVE CallStanding(c)' = CallStanding(c)
  BY <1>5 DEF CallStanding
<1>6. Authority!Turns(id, "new", "asked")
  BY <1>1, <1>3, <1>4, <1>5, OneCallMoves
<1> QED BY <1>1, <1>6, NothingOpen DEF Authority!AuthorityNext, Authority!Ask

LEMMA RunUnaskedStep ==
  ASSUME CallsInv, EngineAutoRun
  PROVE  Authority!AuthorityNext
<1> DEFINE id == Head(todo)
<1> USE DEF EngineAutoRun, Running
<1>1. id \in CallIds /\ id = todo[1] /\ Fresh(id)
  BY HeadAndTail DEF CallsInv, RoundInv
<1>2. \A c \in CallIds : started'[c] = IF c = id THEN "policy" ELSE started[c]
  BY DEF CallsInv, TypeOK
<1>3. CallStanding(id) = "new"
  BY <1>1 DEF CallStanding, Fresh
<1>4. CallStanding(id)' = "run"
  BY <1>1, <1>2, StartsAssumption DEF CallStanding, Starts
<1>5. ASSUME NEW c \in CallIds \ {id} PROVE CallStanding(c)' = CallStanding(c)
  BY <1>2, <1>5 DEF CallStanding
<1>6. Authority!Turns(id, "new", "run")
  BY <1>1, <1>3, <1>4, <1>5, OneCallMoves
<1> QED BY <1>1, <1>6, NothingOpen DEF Authority!AuthorityNext, Authority!RunUnasked

LEMMA RunStep ==
  ASSUME CallsInv, EngineApproved
  PROVE  [Authority!AuthorityNext]_CallStandings
<1> DEFINE id == Head(todo)
<1> USE DEF EngineApproved, Running
<1>1. id \in CallIds
  BY HeadAndTail DEF CallsInv, EngineInv
<1>2. \A c \in CallIds : started'[c] = IF c = id THEN "client" ELSE started[c]
  BY DEF CallsInv, TypeOK
<1>3. started[id] = None
  BY DEF CallsInv, ReceiverInv
<1>4. id \in requested
  BY <1>1 DEF CallsInv, WaitsAsked
<1>5. CallStanding(id) = "granted"
  BY <1>3, <1>4 DEF CallStanding
<1>6. CallStanding(id)' = "run"
  BY <1>1, <1>2, StartsAssumption DEF CallStanding, Starts
<1>7. ASSUME NEW c \in CallIds \ {id} PROVE CallStanding(c)' = CallStanding(c)
  BY <1>2, <1>7 DEF CallStanding
<1>8. Authority!Turns(id, "granted", "run")
  BY <1>1, <1>5, <1>6, <1>7, OneCallMoves
<1> QED BY <1>1, <1>8 DEF Authority!AuthorityNext, Authority!Run

(* The engine takes a refusal: the call was refused when it arrived.       *)
LEMMA TakeRefusalStep ==
  ASSUME CallsInv, EngineDenied
  PROVE  UNCHANGED CallStandings
<1> USE DEF EngineDenied, Running, callVars
<1>1. answered[Head(todo)] = "denied"
  BY DEF CallsInv, ReceiverInv
<1>2. ASSUME NEW c \in CallIds PROVE CallStanding(c)' = CallStanding(c)
  BY <1>1 DEF CallStanding
<1> QED BY <1>2, NoCallMoves

LEMMA SettleStanding ==
  ASSUME CallsInv, HandleAnswer
  PROVE  [Authority!AuthorityNext]_CallStandings
<1>1. PICK id \in CallIds, a \in Answers : ResolveCall(id, a)
  BY Taken DEF HandleAnswer, CallsInv, Answers
<1>2. phase \in {"loop", "running"} /\ UNCHANGED <<eng, todo, requested, started>>
  BY <1>1 DEF HandleAnswer, runVars, ResolveCall
<1> USE DEF ResolveCall, Resolve
<1>3. CASE pending[id] = None
  BY <1>1, <1>2, <1>3, SilentStep DEF Settle, callVars
<1>4. CASE pending[id] # None
  <2>1. eng = "wait" /\ id = Head(todo) /\ rx["engine"] = "waiting" /\ started[id] = None
    BY <1>2, <1>4 DEF CallsInv, PendingOnlyWhileWaiting, ReceiverInv
  <2>2. pending[id].tx = "engine"
    BY <1>4, WaitersAssumption DEF CallsInv, TypeOK, ApprovalTypeOK, Entries
  <2>3. rx'["engine"] = a
    BY <1>1, <1>4, <2>1, <2>2, WaitersAssumption DEF Settle, CallsInv, TypeOK, ApprovalTypeOK
  <2>4. \A c \in CallIds \ {id} : answered'[c] = answered[c]
    BY <1>1, <1>4 DEF CallsInv, TypeOK
  <2>5. id \in requested
    BY <2>1 DEF CallsInv, WaitsAsked
  <2>6. CallStanding(id) = "asked"
    BY <2>1, <2>5 DEF CallStanding
  <2>7. CallStanding(id)' = IF a = "approved" THEN "granted" ELSE "refused"
    BY <1>2, <2>1, <2>3, <2>5 DEF CallStanding, Answers
  <2>8. ASSUME NEW c \in CallIds \ {id} PROVE CallStanding(c)' = CallStanding(c)
    BY <1>2, <2>1, <2>4, <2>8 DEF CallStanding
  <2>9. Authority!Turns(id, "asked", IF a = "approved" THEN "granted" ELSE "refused")
    BY <2>6, <2>7, <2>8, OneCallMoves
  <2> QED BY <2>9 DEF Authority!AuthorityNext, Authority!Grant, Authority!Refuse
<1> QED BY <1>3, <1>4

(* A stop in flight withdraws the question that is open, answered or not;  *)
(* a refusal the engine has not taken yet stays one.                       *)
LEMMA StopStanding ==
  ASSUME CallsInv, HandleStopInFlight
  PROVE  [Authority!AuthorityNext]_CallStandings
<1> USE DEF HandleStopInFlight
<1>1. CASE eng # "wait"
  BY <1>1, SilentStep
<1>2. CASE eng = "wait"
  <2>1. PICK id \in CallIds : id = Head(todo) /\ id \in requested
    BY <1>2, HeadAndTail DEF CallsInv, EngineInv, WaitsAsked
  <2>2. /\ started[id] = None
        /\ \/ rx["engine"] = "waiting" /\ answered[id] = None
           \/ rx["engine"] \in Answers /\ answered[id] = rx["engine"]
    BY <1>2, <2>1 DEF CallsInv, EngineInv, ReceiverInv
  <2>3. eng' = "off" /\ UNCHANGED callVars
    OBVIOUS
  <2>4. ASSUME NEW c \in CallIds \ {id} PROVE CallStanding(c)' = CallStanding(c)
    BY <2>1, <2>3, <2>4 DEF CallStanding, callVars
  <2>5. CASE rx["engine"] = "denied"
    <3>1. CallStanding(id)' = CallStanding(id)
      BY <1>2, <2>1, <2>2, <2>3, <2>5 DEF CallStanding, callVars
    <3> QED BY <2>4, <3>1, NoCallMoves
  <2>6. CASE rx["engine"] # "denied"
    <3>1. answered[id] # "denied"
      BY <2>2, <2>6, NoneAssumption DEF Answers
    <3>2. CallStanding(id) \in {"asked", "granted"} /\ CallStanding(id)' = "withdrawn"
      BY <1>2, <2>1, <2>2, <2>3, <2>6, <3>1 DEF CallStanding, callVars, Answers
    <3>3. Authority!Turns(id, CallStanding(id), "withdrawn")
      BY <2>1, <2>4, <3>2, OneCallMoves
    <3> QED BY <2>1, <3>2, <3>3 DEF Authority!AuthorityNext, Authority!Withdraw
  <2> QED BY <2>5, <2>6
<1> QED BY <1>1, <1>2

LEMMA AuthorityStep ==
  ASSUME CallsInv, [Next]_vars
  PROVE  [Authority!AuthorityNext]_CallStandings
<1> USE DEF runVars, approvalVars
<1>1. CASE Client
  BY <1>1, SilentStep DEF Client, Send, AnswerRequest, CloseStdin
<1>2. CASE Engine
  <2>1. ASSUME NEW ok \in BOOLEAN, EngineSlash(ok) \/ EngineLastTurn(ok)
        PROVE  UNCHANGED CallStandings
    BY <2>1, SilentStep DEF EngineSlash, EngineLastTurn, FinishRun, Running
  <2>2. ASSUME NEW round \in Rounds, EngineToolTurn(round) PROVE UNCHANGED CallStandings
    BY <2>2, SilentStep DEF EngineToolTurn, Running
  <2>3. CASE EngineStart \/ EngineRoundDone \/ EngineToolDone
    BY <2>3, SilentStep DEF EngineStart, EngineRoundDone, EngineToolDone, Running
  <2> QED
    BY <1>2, <2>1, <2>2, <2>3, AskStep, RunUnaskedStep, RunStep, TakeRefusalStep DEF Engine
<1>3. CASE Host
  <2>1. CASE HandlePing \/ HandleSetModeIdle \/ HandleSetModeInFlight \/ HandleSetConfigIdle
             \/ HandleSetConfigInFlight \/ HandleIgnored \/ HandleStopIdle \/ PreAddMcp
             \/ PreStop \/ PreEnds \/ LoopEof \/ Cleanup
    BY <2>1, SilentStep
       DEF HandlePing, HandleSetModeIdle, HandleSetModeInFlight, SetMode, HandleSetConfigIdle,
           HandleSetConfigInFlight, HandleIgnored, HandleStopIdle, PreAddMcp, PreStop, PreEnds,
           LoopEof, Cleanup
  <2>2. CASE HandleMessage
    BY <2>2, SilentStep DEF CallsInv, EngineInv, HandleMessage
  <2> QED BY <1>3, <2>1, <2>2, SettleStanding, StopStanding DEF Host
<1>4. CASE UNCHANGED vars
  BY <1>4, SilentStep DEF vars
<1> QED BY <1>1, <1>2, <1>3, <1>4 DEF Next

(* What comes of the calls of a session is what would come of them if the  *)
(* user were asked in person, whatever is queued, sent twice, early or     *)
(* late, and whenever the session is stopped.                              *)
THEOREM SessionImplementsAuthority == Spec => ImplementsAuthority
<1>1. Init => Authority!AuthorityInit
  <2> SUFFICES ASSUME Init PROVE CallStandings = [c \in CallIds |-> "new"]
    BY DEF Authority!AuthorityInit
  <2>1. ASSUME NEW c \in CallIds PROVE CallStanding(c) = "new"
    BY DEF Init, CallStanding
  <2> QED BY <2>1 DEF CallStandings
<1>2. CallsInv /\ [Next]_vars => [Authority!AuthorityNext]_CallStandings
  BY AuthorityStep
<1> QED
  BY CallsInvariant, <1>1, <1>2, PTL DEF Spec, ImplementsAuthority, Authority!AuthoritySpec

-----------------------------------------------------------------------------
(***************************************************************************)
(* The client.                                                             *)
(***************************************************************************)
(***************************************************************************)
(* A message that is being handled has one end to come, and it has a start *)
(* to come as long as the engine has not called the provider.              *)
(***************************************************************************)
StreamsInv ==
  /\ phase \in {"pre", "loop"} => cur = None
  /\ phase = "running" => cur \in MsgIds
  /\ Running("start") => streams[cur].start < streams[cur].taken
  /\ EveryStreamEndsOnce

(* A step that leaves messages alone, or ends the session.                 *)
LEMMA NoStreamStep ==
  ASSUME StreamsInv, UNCHANGED streams,
         \/ phase' \in {"cleanup", "exited"}
         \/ UNCHANGED <<phase, cur>> /\ eng' # "start"
         \/ UNCHANGED <<phase, cur, eng>>
         \/ phase = "pre" /\ phase' = "loop" /\ UNCHANGED cur
  PROVE  StreamsInv'
BY DEF StreamsInv, EveryStreamEndsOnce, Running

(* What an event does to the counts of its message, and to no other.       *)
LEMMA StreamCounts ==
  ASSUME TypeOK, NEW m \in MsgIds
  PROVE  /\ streams[m].taken \in Nat /\ streams[m].start \in Nat /\ streams[m].end \in Nat
         /\ streams' = [streams EXCEPT ![m].taken = @ + 1] =>
              /\ streams'[m].taken = streams[m].taken + 1
              /\ streams'[m].start = streams[m].start /\ streams'[m].end = streams[m].end
              /\ \A n \in MsgIds \ {m} : streams'[n] = streams[n]
         /\ streams' = [streams EXCEPT ![m].start = @ + 1] =>
              /\ streams'[m].start = streams[m].start + 1
              /\ streams'[m].taken = streams[m].taken /\ streams'[m].end = streams[m].end
              /\ \A n \in MsgIds \ {m} : streams'[n] = streams[n]
         /\ streams' = [streams EXCEPT ![m].end = @ + 1] =>
              /\ streams'[m].end = streams[m].end + 1
              /\ streams'[m].taken = streams[m].taken /\ streams'[m].start = streams[m].start
              /\ \A n \in MsgIds \ {m} : streams'[n] = streams[n]
<1>1. /\ streams[m] \in [taken : Nat, start : Nat, end : Nat]
      /\ m \in DOMAIN streams /\ \A n \in MsgIds : n \in DOMAIN streams
  BY DEF TypeOK
<1>2. streams[m].taken \in Nat /\ streams[m].start \in Nat /\ streams[m].end \in Nat
  BY <1>1
<1>3. ASSUME streams' = [streams EXCEPT ![m].taken = @ + 1]
      PROVE  /\ streams'[m].taken = streams[m].taken + 1
             /\ streams'[m].start = streams[m].start /\ streams'[m].end = streams[m].end
             /\ \A n \in MsgIds \ {m} : streams'[n] = streams[n]
  BY <1>1, <1>3
<1>4. ASSUME streams' = [streams EXCEPT ![m].start = @ + 1]
      PROVE  /\ streams'[m].start = streams[m].start + 1
             /\ streams'[m].taken = streams[m].taken /\ streams'[m].end = streams[m].end
             /\ \A n \in MsgIds \ {m} : streams'[n] = streams[n]
  BY <1>1, <1>4
<1>5. ASSUME streams' = [streams EXCEPT ![m].end = @ + 1]
      PROVE  /\ streams'[m].end = streams[m].end + 1
             /\ streams'[m].taken = streams[m].taken /\ streams'[m].start = streams[m].start
             /\ \A n \in MsgIds \ {m} : streams'[n] = streams[n]
  BY <1>1, <1>5
<1> QED BY <1>2, <1>3, <1>4, <1>5

(* A message that ends had its end to come; no message is open after it.   *)
LEMMA EndStep ==
  ASSUME TypeOK, StreamsInv, phase = "running", NEW ok, FinishRun(ok)
  PROVE  StreamsInv'
<1>1. cur \in MsgIds /\ streams' = [streams EXCEPT ![cur].end = @ + 1]
  BY DEF StreamsInv, FinishRun
<1>2. phase' = "loop" /\ cur' = None
  BY DEF FinishRun
<1>3. ASSUME NEW m \in MsgIds
      PROVE  streams'[m].end = streams'[m].taken /\ streams'[m].start <= streams'[m].taken
  <2>1. /\ streams[m].end = streams[m].taken - (IF m = cur THEN 1 ELSE 0)
        /\ streams[m].start <= streams[m].taken
    BY DEF StreamsInv, EveryStreamEndsOnce
  <2>2. streams[m].taken \in Nat /\ streams[m].start \in Nat /\ streams[m].end \in Nat
    BY StreamCounts
  <2>3. CASE m = cur
    <3>1. /\ streams'[m].end = streams[m].end + 1 /\ streams'[m].taken = streams[m].taken
          /\ streams'[m].start = streams[m].start
      BY <1>1, <2>3, StreamCounts
    <3> QED BY <2>1, <2>2, <2>3, <3>1
  <2>4. CASE m # cur
    <3>1. streams'[m] = streams[m]
      BY <1>1, <2>4, StreamCounts
    <3> QED BY <2>1, <2>2, <2>4, <3>1
  <2> QED BY <2>3, <2>4
<1>4. ASSUME NEW m \in MsgIds
      PROVE  /\ streams'[m].end = streams'[m].taken - (IF m = cur' THEN 1 ELSE 0)
             /\ streams'[m].start <= streams'[m].taken
  <2>1. m # cur'
    BY <1>2, MsgIdsAssumption
  <2>2. streams[m] \in [taken : Nat, start : Nat, end : Nat] /\ cur \in MsgIds
    BY <1>1, StreamCounts DEF TypeOK
  <2>3. streams'[m].taken = streams[m].taken
    BY <1>1, <2>2 DEF TypeOK
  <2>4. streams'[m].taken \in Nat
    BY <2>2, <2>3
  <2> QED BY <1>3, <2>1, <2>4
<1> QED BY <1>2, <1>4 DEF StreamsInv, EveryStreamEndsOnce, Running

(* The engine announces the start of a message that has none yet.          *)
LEMMA StartStep ==
  ASSUME TypeOK, StreamsInv, EngineStart
  PROVE  StreamsInv'
<1> USE DEF EngineStart, Running, runVars
<1>1. cur \in MsgIds /\ streams[cur].start < streams[cur].taken
  BY DEF StreamsInv
<1>2. ASSUME NEW m \in MsgIds
      PROVE  /\ streams'[m].end = streams'[m].taken - (IF m = cur' THEN 1 ELSE 0)
             /\ streams'[m].start <= streams'[m].taken
  <2>1. /\ streams[m].end = streams[m].taken - (IF m = cur THEN 1 ELSE 0)
        /\ streams[m].start <= streams[m].taken
    BY DEF StreamsInv, EveryStreamEndsOnce
  <2>2. CASE m = cur
    <3>1. /\ streams'[m].start = streams[m].start + 1 /\ streams'[m].taken = streams[m].taken
          /\ streams'[m].end = streams[m].end
          /\ streams[m].taken \in Nat /\ streams[m].start \in Nat
      BY <1>1, <2>2, StreamCounts
    <3> QED BY <1>1, <2>1, <2>2, <3>1
  <2>3. CASE m # cur
    <3>1. streams'[m] = streams[m]
      BY <1>1, <2>3, StreamCounts
    <3> QED BY <2>1, <2>3, <3>1
  <2> QED BY <2>2, <2>3
<1> QED BY <1>1, <1>2 DEF StreamsInv, EveryStreamEndsOnce

(* A message is taken up when no other is open.                            *)
LEMMA MessageStep ==
  ASSUME TypeOK, StreamsInv, HandleMessage
  PROVE  StreamsInv'
<1>1. PICK m \in MsgIds : /\ cur' = m
                          /\ streams' = [streams EXCEPT ![m].taken = @ + 1]
  BY Taken DEF HandleMessage
<1>2. phase = "loop" /\ cur = None /\ phase' = "running"
  BY DEF HandleMessage, StreamsInv
<1>3. ASSUME NEW n \in MsgIds
      PROVE  /\ streams'[n].end = streams'[n].taken - (IF n = cur' THEN 1 ELSE 0)
             /\ streams'[n].start <= streams'[n].taken
             /\ n = m => streams'[n].start < streams'[n].taken
  <2>1. /\ streams[n].end = streams[n].taken /\ streams[n].start <= streams[n].taken
        /\ streams[n].taken \in Nat /\ streams[n].start \in Nat /\ streams[n].end \in Nat
    BY <1>2, MsgIdsAssumption, StreamCounts DEF StreamsInv, EveryStreamEndsOnce
  <2>2. CASE n = m
    <3>1. /\ streams'[m].taken = streams[m].taken + 1 /\ streams'[m].end = streams[m].end
          /\ streams'[m].start = streams[m].start
      BY <1>1, StreamCounts
    <3> QED BY <1>1, <2>1, <2>2, <3>1
  <2>3. CASE n # m
    <3>1. streams'[n] = streams[n]
      BY <1>1, <2>3, StreamCounts
    <3> QED BY <1>1, <2>1, <2>3, <3>1
  <2> QED BY <2>2, <2>3
<1> QED BY <1>1, <1>2, <1>3 DEF StreamsInv, EveryStreamEndsOnce, Running

LEMMA StreamsStep ==
  ASSUME TypeOK, StreamsInv, [Next]_vars
  PROVE  StreamsInv'
<1> USE DEF runVars, clientVars
<1>1. CASE Client
  BY <1>1, NoStreamStep DEF Client, Send, AnswerRequest, CloseStdin
<1>2. CASE Engine
  <2>1. ASSUME NEW ok \in BOOLEAN, EngineSlash(ok) \/ EngineLastTurn(ok) PROVE StreamsInv'
    BY <2>1, EndStep DEF EngineSlash, EngineLastTurn, Running
  <2>2. ASSUME NEW round \in Rounds, EngineToolTurn(round) PROVE StreamsInv'
    BY <2>2, NoStreamStep DEF EngineToolTurn
  <2>3. CASE EngineRoundDone \/ EngineRequest \/ EngineAutoRun \/ EngineApproved
             \/ EngineDenied \/ EngineToolDone
    BY <2>3, NoStreamStep DEF EngineRoundDone, EngineRequest, EngineAutoRun, EngineApproved,
                              EngineDenied, EngineToolDone
  <2> QED BY <1>2, <2>1, <2>2, <2>3, StartStep DEF Engine
<1>3. CASE Host
  <2>1. CASE HandleAnswer \/ HandlePing \/ HandleSetModeIdle \/ HandleSetModeInFlight
             \/ HandleSetConfigIdle \/ HandleSetConfigInFlight \/ HandleIgnored \/ PreAddMcp
    BY <2>1, NoStreamStep
       DEF HandleAnswer, HandlePing, HandleSetModeIdle, HandleSetModeInFlight,
           HandleSetConfigIdle, HandleSetConfigInFlight, HandleIgnored, PreAddMcp
  <2>2. CASE HandleStopIdle \/ HandleStopInFlight \/ PreStop \/ PreEnds \/ LoopEof \/ Cleanup
    BY <2>2, NoStreamStep
       DEF HandleStopIdle, HandleStopInFlight, PreStop, PreEnds, LoopEof, Cleanup
  <2> QED BY <1>3, <2>1, <2>2, MessageStep DEF Host
<1>4. CASE UNCHANGED vars
  BY <1>4, NoStreamStep DEF vars
<1> QED BY <1>1, <1>2, <1>3, <1>4 DEF Next

(* Every message taken up has exactly one end, whatever answers it, stops  *)
(* it or arrives while it runs.                                            *)
THEOREM OneEndForEachMessage == Spec => []EveryStreamEndsOnce
<1>1. Init => StreamsInv
  BY MsgIdsAssumption DEF Init, StreamsInv, EveryStreamEndsOnce, Running
<1>2. TypeOK /\ StreamsInv /\ [Next]_vars => StreamsInv'
  BY StreamsStep
<1>3. StreamsInv => EveryStreamEndsOnce
  BY DEF StreamsInv
<1> QED BY SessionTypeCorrect, <1>1, <1>2, <1>3, PTL DEF Spec

-----------------------------------------------------------------------------
(***************************************************************************)
(* What was announced is in force between messages; while one runs, only a *)
(* change of mode that is still to be announced can make it stale, and no  *)
(* queued change outlives the run it waited for.                           *)
(***************************************************************************)
SettingsInv ==
  /\ phase \in {"pre", "loop"} => pendingConfig = None /\ ~modeChanged
  /\ phase \in {"pre", "loop", "running"} /\ ~modeChanged =>
       advertised = Capabilities(config, sessionMode)

LEMMA NoSettingStep ==
  ASSUME SettingsInv, UNCHANGED <<configVars, sessionMode>>,
         \/ UNCHANGED phase
         \/ phase \in {"pre", "loop", "running"} /\ phase' = "running"
         \/ phase' \in {"cleanup", "exited"}
         \/ phase = "pre" /\ phase' = "loop"
  PROVE  SettingsInv'
BY DEF SettingsInv, configVars, Capabilities

(* What the end of a run applies is announced with it.                     *)
LEMMA QueuedStep ==
  ASSUME SettingsInv, phase = "running", ApplyQueued, UNCHANGED sessionMode
  PROVE  SettingsInv'
BY DEF SettingsInv, ApplyQueued, Capabilities

LEMMA SettingsStep ==
  ASSUME SettingsInv, [Next]_vars
  PROVE  SettingsInv'
<1> USE DEF approvalVars
<1>1. CASE Client
  BY <1>1, NoSettingStep DEF Client, Send, AnswerRequest, CloseStdin
<1>2. CASE Engine
  <2>1. ASSUME NEW ok \in BOOLEAN, EngineSlash(ok) \/ EngineLastTurn(ok) PROVE SettingsInv'
    BY <2>1, QueuedStep DEF EngineSlash, EngineLastTurn, FinishRun, Running
  <2>2. ASSUME NEW round \in Rounds, EngineToolTurn(round) PROVE SettingsInv'
    BY <2>2, NoSettingStep DEF EngineToolTurn
  <2>3. CASE EngineStart \/ EngineRoundDone \/ EngineRequest \/ EngineAutoRun
             \/ EngineApproved \/ EngineDenied \/ EngineToolDone
    BY <2>3, NoSettingStep
       DEF EngineStart, EngineRoundDone, EngineRequest, EngineAutoRun, EngineApproved,
           EngineDenied, EngineToolDone, RequestApproval, TakeAnswer
  <2> QED BY <1>2, <2>1, <2>2, <2>3 DEF Engine
<1>3. CASE Host
  <2>1. CASE HandleAnswer
    BY <2>1, NoSettingStep DEF HandleAnswer, ResolveCall, Resolve
  <2>2. CASE HandlePing \/ HandleMessage \/ HandleIgnored \/ PreAddMcp \/ HandleStopIdle
             \/ PreStop \/ PreEnds \/ LoopEof \/ Cleanup
    BY <2>2, NoSettingStep
       DEF HandlePing, HandleMessage, HandleIgnored, PreAddMcp, HandleStopIdle, PreStop,
           PreEnds, LoopEof, Cleanup
  <2>3. CASE HandleSetModeIdle \/ HandleSetConfigIdle
    BY <2>3 DEF SettingsInv, HandleSetModeIdle, HandleSetConfigIdle, Capabilities
  <2>4. CASE HandleSetModeInFlight \/ HandleSetConfigInFlight
    BY <2>4 DEF SettingsInv, HandleSetModeInFlight, HandleSetConfigInFlight, Capabilities
  <2>5. CASE HandleStopInFlight
    BY <2>5, QueuedStep DEF HandleStopInFlight, Abandon
  <2> QED BY <1>3, <2>1, <2>2, <2>3, <2>4, <2>5 DEF Host
<1>4. CASE UNCHANGED vars
  BY <1>4, NoSettingStep DEF vars
<1> QED BY <1>1, <1>2, <1>3, <1>4 DEF Next

(* No step within a run touches the configuration.                         *)
LEMMA ConfigStep ==
  ASSUME [Next]_vars, phase = "running", phase' = "running"
  PROVE  config' = config
<1> USE DEF configVars
<1>1. CASE Client
  BY <1>1 DEF Client, Send, AnswerRequest, CloseStdin
<1>2. CASE Engine
  BY <1>2 DEF Engine, EngineSlash, EngineLastTurn, FinishRun, EngineStart, EngineToolTurn,
              EngineRoundDone, EngineRequest, EngineAutoRun, EngineApproved, EngineDenied,
              EngineToolDone
<1>3. CASE Host
  BY <1>3 DEF Host, HandleAnswer, HandlePing, HandleSetModeIdle, HandleSetModeInFlight,
              HandleSetConfigIdle, HandleSetConfigInFlight, HandleMessage, HandleIgnored,
              HandleStopIdle, HandleStopInFlight, PreAddMcp, PreStop, PreEnds, LoopEof, Cleanup
<1>4. CASE UNCHANGED vars
  BY <1>4 DEF vars
<1> QED BY <1>1, <1>2, <1>3, <1>4 DEF Next

(* Whatever is set between messages or while one runs, in whatever order,  *)
(* the client was told what holds between messages, and a running message  *)
(* keeps the configuration it started with.                                *)
THEOREM SettingsAnnounced == Spec => SettingsAsAnnounced
<1>1. Init => SettingsInv
  BY DEF Init, ApprovalInit, SettingsInv, Capabilities, Fields
<1>2. SettingsInv /\ [Next]_vars => SettingsInv'
  BY SettingsStep
<1>3. SettingsInv => CapabilitiesAnnounced
  BY DEF SettingsInv, CapabilitiesAnnounced
<1>4. [Next]_vars => [phase = "running" /\ phase' = "running" => config' = config]_vars
  BY ConfigStep
<1> QED
  BY <1>1, <1>2, <1>3, <1>4, PTL DEF Spec, SettingsAsAnnounced, ConfigStableInFlight
=============================================================================
