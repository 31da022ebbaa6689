------------------------------ MODULE Approval ------------------------------
(***************************************************************************)
(* The approval manager of the JSON stream protocol                        *)
(* (crates/tjuae-protocol/src/approval.rs): a map from call ids to the     *)
(* sending half of a oneshot channel, the categories the client approved   *)
(* for the session, and the session's approval mode.                       *)
(*                                                                         *)
(* A waiter is the task that holds the receiving half.  Dropping a sender  *)
(* without sending (an overwritten or a removed map entry) closes the      *)
(* receiver; the engine takes a closed receiver for a client that left.    *)
(***************************************************************************)
CONSTANTS
  CallIds,     \* tool call ids, chosen by the model provider
  Waiters,     \* tasks that may await an approval
  None         \* no entry

VARIABLES
  pending,      \* call id -> [tx, category] or None
  autoApproved, \* categories approved with scope "always"
  sessionMode,  \* SessionMode
  rx            \* waiter -> state of the receiver it holds

approvalVars == <<pending, autoApproved, sessionMode, rx>>

Categories == {"info", "edit", "exec", "mcp"}
SessionModes == {"default", "auto_edit", "yolo"}
Scopes == {"once", "always"}
Answers == {"approved", "denied"}
RxStates == {"idle", "waiting", "closed", "dropped"} \cup Answers
Entries == [tx : Waiters, category : Categories]

ASSUME NoneAssumption == None \notin Entries \cup Answers

ApprovalTypeOK ==
  /\ pending \in [CallIds -> Entries \cup {None}]
  /\ autoApproved \subseteq Categories
  /\ sessionMode \in SessionModes
  /\ rx \in [Waiters -> RxStates]

ApprovalInit ==
  /\ pending = [id \in CallIds |-> None]
  /\ autoApproved = {}
  /\ sessionMode = "default"
  /\ rx = [w \in Waiters |-> "idle"]

(* What is_auto_approved answers under a mode and a set of "always"        *)
(* categories.                                                             *)
IsAutoApproved(category) ==
  \/ sessionMode = "yolo"
  \/ sessionMode = "auto_edit" /\ category \in {"info", "edit"}
  \/ category \in autoApproved

(* The receiver states after the entry under id leaves the map with its    *)
(* sender used for `answer`, or dropped unused ("closed").  Sending to a   *)
(* receiver that is gone does nothing.                                     *)
Settle(id, answer) ==
  IF pending[id] = None \/ rx[pending[id].tx] = "dropped"
  THEN rx
  ELSE [rx EXCEPT ![pending[id].tx] = answer]

RequestApproval(w, id, category) ==
  /\ rx[w] = "idle"
  /\ pending' = [pending EXCEPT ![id] = [tx |-> w, category |-> category]]
  /\ rx' = [Settle(id, "closed") EXCEPT ![w] = "waiting"]
  /\ UNCHANGED <<autoApproved, sessionMode>>

Approve(id, scope) ==
  /\ pending' = [pending EXCEPT ![id] = None]
  /\ rx' = Settle(id, "approved")
  /\ autoApproved' = IF pending[id] # None /\ scope = "always"
                     THEN autoApproved \cup {pending[id].category}
                     ELSE autoApproved
  /\ UNCHANGED sessionMode

ResolveKept(id, answer) == \* mutant: the answer is sent but the entry stays
  /\ rx' = Settle(id, answer)
  /\ UNCHANGED <<pending, autoApproved, sessionMode>>

ResolveUnsent(id, answer) == \* mutant: the entry leaves the map and nobody is told
  /\ pending' = [pending EXCEPT ![id] = None]
  /\ UNCHANGED <<rx, autoApproved, sessionMode>>

Resolve(id, answer) ==
  /\ pending' = [pending EXCEPT ![id] = None]
  /\ rx' = Settle(id, answer)
  /\ UNCHANGED <<autoApproved, sessionMode>>

SetMode(mode) ==
  /\ sessionMode' = mode
  /\ UNCHANGED <<pending, autoApproved, rx>>

DropPending(id) ==
  /\ pending' = [pending EXCEPT ![id] = None]
  /\ rx' = Settle(id, "closed")
  /\ UNCHANGED <<autoApproved, sessionMode>>

AddAutoApprove(category) ==
  /\ autoApproved' = autoApproved \cup {category}
  /\ UNCHANGED <<pending, sessionMode, rx>>

(* The awaiting task takes what its receiver holds.                        *)
TakeAnswer(w) ==
  /\ rx[w] \in Answers \cup {"closed"}
  /\ rx' = [rx EXCEPT ![w] = "idle"]
  /\ UNCHANGED <<pending, autoApproved, sessionMode>>

(* The awaiting task is cancelled: its receiver is gone for good, and the   *)
(* entry it left in the map stays.                                         *)
Abandon(w) ==
  /\ rx' = [rx EXCEPT ![w] = "dropped"]
  /\ UNCHANGED <<pending, autoApproved, sessionMode>>

ApprovalNext ==
  \/ \E w \in Waiters, id \in CallIds, c \in Categories : RequestApproval(w, id, c)
  \/ \E id \in CallIds, s \in Scopes : Approve(id, s)
  \/ \E id \in CallIds, a \in Answers : Resolve(id, a)
  \/ \E m \in SessionModes : SetMode(m)
  \/ \E id \in CallIds : DropPending(id)
  \/ \E c \in Categories : AddAutoApprove(c)
  \/ \E w \in Waiters : TakeAnswer(w) \/ Abandon(w)

ApprovalSpec == ApprovalInit /\ [][ApprovalNext]_approvalVars

-----------------------------------------------------------------------------
(* The entries that hold the sender of waiter w.                           *)
HeldBy(w) == {id \in CallIds : pending[id] # None /\ pending[id].tx = w}

(* Every task that still waits is reachable: exactly one map entry holds    *)
(* its sender, whichever way ids were reused, answered or dropped, and no   *)
(* entry is left behind by a task that got its answer.  A waiter without an *)
(* entry would sleep forever at the `rx.await` of orchestration.rs.         *)
WaiterHasOneSender ==
  \A w \in Waiters :
    /\ rx[w] = "waiting" => \E id \in CallIds : HeldBy(w) = {id}
    /\ rx[w] \in {"idle", "closed"} \cup Answers => HeldBy(w) = {}
=============================================================================
