---------------------------- MODULE CallAuthority ----------------------------
(***************************************************************************)
(* What a session promises the user whose tools it runs, without its       *)
(* tables, channels and queues: every call has one standing, a question is *)
(* asked once and alone, it gets one answer, and a refusal or an end that  *)
(* came before the call ran is final.  JsonStream implements this module.  *)
(***************************************************************************)
CONSTANT Calls

VARIABLE standing \* call -> where it stands with the user

Standings == {"new", "asked", "granted", "refused", "run", "withdrawn"}

(* The question that is open, or answered and not yet acted upon.          *)
Open == {c \in Calls : standing[c] \in {"asked", "granted"}}

Turns(c, from, to) ==
  /\ standing[c] = from
  /\ standing' = [standing EXCEPT ![c] = to]

Ask(c)       == Open = {} /\ Turns(c, "new", "asked")
Grant(c)     == Turns(c, "asked", "granted")
Refuse(c)    == Turns(c, "asked", "refused")
Run(c)       == Turns(c, "granted", "run")
RunUnasked(c) == Open = {} /\ Turns(c, "new", "run") \* the policy in force lets it

(* The session ends before the call ran.                                   *)
Withdraw(c) == \E from \in {"asked", "granted"} : Turns(c, from, "withdrawn")

AuthorityInit == standing = [c \in Calls |-> "new"]

AuthorityNext ==
  \E c \in Calls : Ask(c) \/ Grant(c) \/ Refuse(c) \/ Run(c) \/ RunUnasked(c) \/ Withdraw(c)

AuthoritySpec == AuthorityInit /\ [][AuthorityNext]_standing
=============================================================================
