----------------------------- MODULE OAuthLogin -----------------------------
(***************************************************************************)
(* `auth login` and `auth logout`: the device authorization of             *)
(* OAuthManager (tjuae-config, auth.rs), its polling loop against a server *)
(* that the user answers in a browser, and the saved credentials file.     *)
(* OAuthManager::get_token and refresh have no caller and are left out.    *)
(*                                                                         *)
(* The client sets no timeout: a request takes any of Waits, or hangs,     *)
(* and a pause may oversleep by any of them.                               *)
(***************************************************************************)
EXTENDS Integers

CONSTANTS
  Interval,   \* seconds between two polls, at least five in the code
  SlowDown,   \* seconds added once when the server asks to slow down
  ExpiresIn,  \* seconds the device code is valid
  Waits       \* seconds a request takes or a pause lasts too long

ASSUME LoginTimes ==
  {Interval, SlowDown, ExpiresIn} \subseteq Nat \ {0} /\ Waits \subseteq Nat

VARIABLES
  login,        \* "none", "requesting", "waiting", "asking", "granted", "failed"
  now,          \* seconds since the device code was issued
  grant,        \* what the user did at the server: "pending", "approved", "denied"
  credentials,  \* is there an auth.json?
  polls         \* polls sent since the device code was issued

loginVars == <<login, now, grant, credentials, polls>>

LoginRuns == login \in {"requesting", "waiting", "asking"}

LoginInit ==
  login = "none" /\ now = 0 /\ grant = "pending" /\ credentials \in BOOLEAN
  /\ polls = 0

\* A login without a configured client id never reaches the server.
BeginLogin(clientId) ==
  /\ ~LoginRuns
  /\ login' = IF clientId THEN "requesting" ELSE "failed"
  /\ now' = 0 /\ grant' = "pending" /\ polls' = 0
  /\ UNCHANGED credentials

\* The server issues a device code, whose life begins here, or refuses.  The
\* request may also hang: nothing makes this step happen.
DeviceCode ==
  /\ login = "requesting"
  /\ login' \in {"waiting", "failed"}
  /\ UNCHANGED <<now, grant, credentials, polls>>

UserAnswers ==
  /\ LoginRuns /\ grant = "pending"
  /\ grant' \in {"approved", "denied"}
  /\ UNCHANGED <<login, now, credentials, polls>>

Poll(limit) ==
  /\ login = "waiting"
  /\ IF now > limit THEN login' = "failed" /\ UNCHANGED <<now, polls>>
     ELSE /\ login' = "asking" /\ polls' = polls + 1
          /\ \E late \in Waits : now' = now + Interval + late
  /\ UNCHANGED <<grant, credentials>>

PauseBeforeLatePoll == Poll(ExpiresIn + Interval)

\* The deadline is tested before the pause, so one poll may follow it.
PauseBeforePoll == Poll(ExpiresIn)

\* "unexpected" is also a request that failed.
ServerAnswers ==
  {"unexpected", "expired_token"} \cup
  (CASE grant = "approved" -> {"token"}
     [] grant = "denied"   -> {"access_denied"}
     [] OTHER -> {"authorization_pending", "slow_down"})

\* The answer to a poll, if it comes at all.  Saving a token may fail, with or
\* without a file.
PollAnswer(answer) ==
  /\ login = "asking" /\ answer \in ServerAnswers
  /\ login' \in CASE answer = "token" -> {"granted", "failed"}
                  [] answer \in {"authorization_pending", "slow_down"} -> {"waiting"}
                  [] OTHER -> {"failed"}
  /\ \E late \in Waits :
       now' = now + late + (IF answer = "slow_down" THEN SlowDown ELSE 0)
  /\ credentials' \in (IF login' = "granted" THEN {TRUE}
                       ELSE {credentials, credentials \/ answer = "token"})
  /\ UNCHANGED <<grant, polls>>

Logout ==
  /\ ~LoginRuns /\ credentials
  /\ credentials' = FALSE
  /\ UNCHANGED <<login, now, grant, polls>>

LoginStep ==
  DeviceCode \/ PauseBeforePoll \/ \E a \in ServerAnswers : PollAnswer(a)

LoginTypeOK ==
  /\ login \in {"none", "requesting", "waiting", "asking", "granted", "failed"}
  /\ now \in Nat /\ polls \in Nat
  /\ grant \in {"pending", "approved", "denied"}
  /\ credentials \in BOOLEAN
  /\ polls * Interval <= now /\ (polls - 1) * Interval <= ExpiresIn
=============================================================================
