--------------------------- MODULE SessionRegister ---------------------------
(***************************************************************************)
(* What SessionManager (crates/tjuae-agent/src/session.rs) promises the    *)
(* engines that use it: every session is one atomic register.  A call      *)
(* takes effect at one moment between its start and its answer, a failed   *)
(* call changes nothing, create never replaces a session, and a session is *)
(* removed only after a listing, in which MaxSessions others were at least *)
(* as new: by the time it is removed the others may have changed.          *)
(*                                                                         *)
(* The promise holds for a session until it is "shared": see SessionStore, *)
(* which implements this module and says when that happens.                *)
(***************************************************************************)
EXTENDS Integers, FiniteSets

CONSTANTS
  Clients,     \* the engines that hold a SessionManager
  Sessions,    \* session ids
  Values,      \* what a session file can hold, records with a field born
  MaxSessions  \* config.session.max_sessions

Marked(m)  == [born |-> 0, ver |-> 0, by |-> m]
NoSession  == Marked("no session")   \* nothing is stored
Unreadable == Marked("unreadable")   \* a file that does not parse

Stored  == Values \cup {NoSession, Unreadable}
NoCall  == [kind |-> "none"]
Calls   == [kind : {"create", "save", "load"}, s : Sessions, v : Values \cup {NoSession}]

VARIABLES
  store,   \* what a load of each session would find
  asked,   \* the call of each client that has not taken effect
  mine,    \* the session each client was last told is stored, or NoCall
  legacy,  \* the sessions of the old file layout, which nobody writes
  shared,  \* sessions without the promise
  doomed   \* sessions some listing found too old to keep

rvars == <<store, asked, mine, legacy, shared, doomed>>

RegisterInit ==
  /\ legacy \in [Sessions -> Values \cup {NoSession}]
  /\ store \in [Sessions -> Values \cup {NoSession}]
  /\ \A s \in Sessions : store[s] = NoSession => legacy[s] = NoSession
  /\ asked = [c \in Clients |-> NoCall]
  /\ mine = [c \in Clients |-> NoCall]
  /\ shared = {} /\ doomed = {}

(* The new value of one session: w, or anything when it is shared.         *)
Becomes(s, w) ==
  /\ store' = [store EXCEPT ![s] = store'[s]]
  /\ store'[s] \in IF s \in shared' THEN Stored ELSE {w}

Ask(c) ==
  /\ asked[c] = NoCall
  /\ asked'[c] \in Calls /\ asked' = [asked EXCEPT ![c] = asked'[c]]
  /\ UNCHANGED <<store, mine>>

Reply(c, v) ==
  /\ asked' = [asked EXCEPT ![c] = NoCall]
  /\ mine' = [mine EXCEPT ![c] = [s |-> asked[c].s, v |-> v]]

Create(c) ==
  /\ asked[c].kind = "create"
  /\ store[asked[c].s] = NoSession \/ asked[c].s \in shared'
  /\ Becomes(asked[c].s, asked[c].v) /\ Reply(c, asked[c].v)

Save(c) ==
  /\ asked[c].kind = "save"
  /\ Becomes(asked[c].s, asked[c].v) /\ Reply(c, asked[c].v)

Load(c) ==
  /\ asked[c].kind = "load"
  /\ LET s == asked[c].s
     IN \/ store[s] \in Values /\ Becomes(s, store[s]) /\ Reply(c, store[s])
        \/ s \in shared' /\ Becomes(s, store[s]) /\ \E v \in Values : Reply(c, v)

(* A load fails only when there is nothing to read, or when a session of   *)
(* the old layout could not be written in the new one.                     *)
Refuse(c) ==
  /\ asked[c] # NoCall
  /\ LET s == asked[c].s
     IN /\ asked[c].kind = "load" /\ s \notin shared' => store[s] \in {NoSession, legacy[s]}
        /\ Becomes(s, store[s])
  /\ asked' = [asked EXCEPT ![c] = NoCall] /\ UNCHANGED mine

(* As many others as are kept are at least as new.                         *)
TooOld(s) ==
  /\ store[s] \in Values
  /\ Cardinality({ t \in Sessions \ {s} : store[t] \in Values /\ store[t].born >= store[s].born })
       >= MaxSessions

Evict(s) ==
  /\ s \in doomed
  /\ Becomes(s, legacy[s])
  /\ UNCHANGED <<asked, mine>>

(* A listing, or the end of a cleanup.                                     *)
Consider == UNCHANGED <<store, asked, mine>>

(* The process of some clients ends: their calls have no effect any more,  *)
(* and what they were told is forgotten.                                   *)
Crash(dead) ==
  /\ asked' = [c \in Clients |-> IF c \in dead THEN NoCall ELSE asked[c]]
  /\ mine' = [c \in Clients |-> IF c \in dead THEN NoCall ELSE mine[c]]
  /\ store' \in [Sessions -> Stored]
  /\ \A s \in Sessions \ shared' : store'[s] = store[s]

Disturb(s) ==
  /\ s \in shared' /\ Becomes(s, store[s])
  /\ UNCHANGED <<asked, mine>>

(* After it took effect a call still failed: a directory that was to be    *)
(* removed, or the renamed file, was another process's as well.            *)
FailsLate(c) ==
  /\ shared' # {} /\ \E w \in {NoCall} \cup [s : Sessions, v : Values] : mine' = [mine EXCEPT ![c] = w]
  /\ UNCHANGED <<store, asked>>

RegisterNext ==
  /\ shared \subseteq shared' /\ legacy' = legacy
  /\ \A s \in doomed' \ doomed : TooOld(s)
  /\ \/ \E c \in Clients :
          Ask(c) \/ Create(c) \/ Save(c) \/ Load(c) \/ Refuse(c) \/ FailsLate(c)
     \/ \E s \in Sessions : Evict(s) \/ Disturb(s)
     \/ \E dead \in SUBSET Clients : Crash(dead)
     \/ Consider

RegisterSpec == RegisterInit /\ [][RegisterNext]_rvars
=============================================================================
