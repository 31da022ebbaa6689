---------------------------- MODULE SessionStore ----------------------------
(***************************************************************************)
(* The session files (crates/tjuae-agent/src/session.rs): create, save,    *)
(* load and the removal of old sessions, one step for every access to the  *)
(* file system.  The lock of a session belongs to a process (session_locks *)
(* is a static), so engines of one process exclude each other and engines  *)
(* of two processes do not: all they share is the directory, in which the  *)
(* temporary file of a session has one fixed name.                         *)
(*                                                                         *)
(* A file that was opened stays the same file when it is renamed or        *)
(* removed: "handle" follows the open temporary file of each client.       *)
(***************************************************************************)
EXTENDS Integers, FiniteSets

CONSTANTS
  Clients, Sessions, MaxSessions,
  Processes,
  MaxClock,    \* bound: sessions created
  MaxVersion   \* bound: saves of one client on top of what it loaded

ASSUME LimitsAssumption == MaxSessions \in Nat /\ MaxClock \in Nat /\ MaxVersion \in Nat

ASSUME SessionsAssumption == IsFiniteSet(Sessions)

(* No client is named as a file without a session is, or as a free lock.   *)
ASSUME NamesAssumption ==
  Clients \cap {"no session", "unreadable", "empty", "failed", "free"} = {}

Values == [born : 0..MaxClock, ver : 0..MaxVersion, by : Clients \cup {"old"}]
Mark(m) == [born |-> 0, ver |-> 0, by |-> m]   \* what is no session, in the shape of one
NoFile == Mark("no session")
Torn   == Mark("unreadable")   \* part of two writes
Empty  == Mark("empty")        \* truncated, nothing written
Failed == Mark("failed")
Old    == [born |-> 0, ver |-> 0, by |-> "old"]   \* a session of an earlier time
NoOp   == [kind |-> "none"]
Free   == "free"

VARIABLES
  process,  \* the process each client runs in
  windows,  \* the build: rename does not replace an existing file
  dir,      \* the session's directory exists
  state,    \* state.json
  tmp,      \* state.json.tmp
  legacy,   \* the file of the old layout
  clock,
  locks,    \* per process and session: the client that holds it, or Free
  pc, op,   \* the step and the call of each client
  handle,   \* where its open file is now: "none", "tmp", "state" or "gone"
  victims,  \* what cleanup_old has still to remove
  mine,     \* the session each client works on, [s, v] or NoOp
  \* an observer, used by the properties only
  shared    \* sessions whose critical sections in two processes overlapped

files == <<dir, state, tmp>>
fixed == <<process, windows, legacy>>
vars  == <<fixed, files, clock, locks, pc, op, handle, victims, mine, shared>>

Steps == {"idle", "latest", "want", "held", "dirs", "open", "write", "replace", "rename",
          "list", "wantVictim", "removeFiles", "removeDir"}
Calls == [kind : {"create", "save", "load"}, s : Sessions, v : Values \cup {NoFile}]

Init ==
  /\ process \in [Clients -> Processes] /\ windows \in BOOLEAN
  /\ legacy \in [Sessions -> {NoFile, Old}] /\ state \in [Sessions -> {NoFile, Old}]
  /\ dir = [s \in Sessions |-> state[s] # NoFile]
  /\ tmp = [s \in Sessions |-> NoFile]
  /\ clock \in 0..MaxClock
  /\ locks = [p \in Processes |-> [s \in Sessions |-> Free]]
  /\ pc = [c \in Clients |-> "idle"] /\ op = [c \in Clients |-> NoOp]
  /\ handle = [c \in Clients |-> "none"] /\ victims = [c \in Clients |-> {}]
  /\ mine = [c \in Clients |-> NoOp]
  /\ shared = {}

At(c, step)  == pc[c] = step
Goto(c, step) == pc' = [pc EXCEPT ![c] = step]

(* read_session_file_if_valid, and the list of the new layout              *)
Valid(file) == file \in Values
Current == { s \in Sessions : Valid(state[s]) }

Exists(s) == state[s] # NoFile \/ legacy[s] # NoFile

-----------------------------------------------------------------------------
(* The lock of a session                                                   *)

(* Inside the critical section of s.                                       *)
Holds(c, s) == locks[process[c]][s] = c

Lock(c, s) ==
  /\ locks[process[c]][s] = Free
  /\ locks' = [locks EXCEPT ![process[c]][s] = c]
  /\ shared' = IF \E d \in Clients : Holds(d, s) THEN shared \cup {s} ELSE shared

Unlock(c, s) == locks' = [locks EXCEPT ![process[c]][s] = Free]

(* The call ends under the lock with an answer.                            *)
Return(c, a) ==
  /\ Unlock(c, op[c].s) /\ Goto(c, "idle")
  /\ op' = [op EXCEPT ![c] = NoOp]
  /\ mine' = IF a \in Values THEN [mine EXCEPT ![c] = [s |-> op[c].s, v |-> a]] ELSE mine
  /\ handle' = [handle EXCEPT ![c] = "none"]

Fail(c) == Return(c, Failed)

-----------------------------------------------------------------------------
(* Calls                                                                   *)

Begin(c, call) ==
  /\ Goto(c, "want") /\ op' = [op EXCEPT ![c] = call]
  /\ UNCHANGED <<fixed, files, locks, handle, victims, mine, shared>>

(* create: the time is taken before the lock.  A generated id is one that  *)
(* did not exist when it was looked for, a given id may exist.             *)
CreateStart(c, s) ==
  /\ At(c, "idle") /\ mine[c] = NoOp /\ clock < MaxClock
  /\ clock' = clock + 1
  /\ Begin(c, [kind |-> "create", s |-> s, v |-> [born |-> clock + 1, ver |-> 0, by |-> c]])

SaveStart(c) ==
  /\ At(c, "idle") /\ mine[c] # NoOp /\ mine[c].v.ver < MaxVersion
  /\ UNCHANGED clock
  /\ Begin(c, [kind |-> "save", s |-> mine[c].s,
               v |-> [mine[c].v EXCEPT !.ver = @ + 1, !.by = c]])

LoadStart(c, s) ==
  /\ At(c, "idle") /\ mine[c] = NoOp /\ UNCHANGED clock
  /\ Begin(c, [kind |-> "load", s |-> s, v |-> NoFile])

(* load("latest"): list() takes no lock; the session it names is loaded    *)
(* afterwards.                                                             *)
Listed(s) == IF Valid(state[s]) THEN state[s] ELSE legacy[s]

LatestStart(c) ==
  /\ At(c, "idle") /\ mine[c] = NoOp
  /\ LET listed == { s \in Sessions : Valid(Listed(s)) }
     IN \E s \in listed :
          /\ \A t \in listed : Listed(t).born <= Listed(s).born
          /\ Begin(c, [kind |-> "load", s |-> s, v |-> NoFile])
  /\ UNCHANGED clock

Acquire(c) ==
  /\ At(c, "want") /\ Lock(c, op[c].s)
  /\ Goto(c, IF op[c].kind = "save" THEN "dirs" ELSE "held")
  /\ UNCHANGED <<fixed, files, clock, op, handle, victims, mine>>

CheckOverwriting(c) == \* mutant: create does not look for the session
  /\ At(c, "held") /\ op[c].kind = "create" /\ Goto(c, "dirs")
  /\ UNCHANGED <<fixed, files, clock, locks, op, handle, victims, mine, shared>>

CheckUnlocking(c) == \* mutant: the early return keeps the lock
  /\ At(c, "held") /\ op[c].kind = "create"
  /\ IF Exists(op[c].s)
       THEN /\ Goto(c, "idle") /\ op' = [op EXCEPT ![c] = NoOp]
            /\ UNCHANGED <<locks, mine, handle>>
       ELSE Goto(c, "dirs") /\ UNCHANGED <<locks, op, mine, handle>>
  /\ UNCHANGED <<fixed, files, clock, victims, shared>>

CheckNew(c) ==
  /\ At(c, "held") /\ op[c].kind = "create"
  /\ IF Exists(op[c].s)
       THEN Fail(c)
       ELSE Goto(c, "dirs") /\ UNCHANGED <<locks, op, mine, handle>>
  /\ UNCHANGED <<fixed, files, clock, victims, shared>>

(* A session of the old layout is written in the new one first.            *)
ReadState(c) ==
  /\ At(c, "held") /\ op[c].kind = "load"
  /\ LET s == op[c].s
     IN CASE state[s] # NoFile ->
               /\ Return(c, IF Valid(state[s]) THEN state[s] ELSE Failed)
          [] state[s] = NoFile /\ legacy[s] # NoFile ->
               /\ op' = [op EXCEPT ![c].v = legacy[s]] /\ Goto(c, "dirs")
               /\ UNCHANGED <<locks, mine, handle>>
          [] OTHER -> Fail(c)
  /\ UNCHANGED <<fixed, files, clock, victims, shared>>

-----------------------------------------------------------------------------
(* save_unlocked and write_atomic                                          *)

MakeDirs(c) ==
  /\ At(c, "dirs") /\ dir' = [dir EXCEPT ![op[c].s] = TRUE] /\ Goto(c, "open")
  /\ UNCHANGED <<fixed, state, tmp, clock, locks, op, handle, victims, mine, shared>>

OpenTmpInPlace(c) == \* mutant: the state file itself is written
  /\ At(c, "open") /\ dir[op[c].s]
  /\ state' = [state EXCEPT ![op[c].s] = Empty]
  /\ handle' = [handle EXCEPT ![c] = "state"] /\ Goto(c, "write")
  /\ UNCHANGED <<fixed, dir, tmp, clock, locks, op, victims, mine, shared>>

OpenTmp(c) ==
  /\ At(c, "open")
  /\ IF dir[op[c].s]
       THEN /\ tmp' = [tmp EXCEPT ![op[c].s] = Empty]
            /\ handle' = [handle EXCEPT ![c] = "tmp"] /\ Goto(c, "write")
            /\ UNCHANGED <<locks, op, mine>>
       ELSE Fail(c) /\ UNCHANGED tmp
  /\ UNCHANGED <<fixed, dir, state, clock, victims, shared>>

(* A write into a file somebody else wrote since it was opened may leave   *)
(* the end of the longer text behind the shorter one.                      *)
Written(file, v) == IF file = Empty THEN {v} ELSE {v, Torn}

WriteTmp(c) ==
  LET s == op[c].s  v == op[c].v
  IN /\ At(c, "write")
     /\ CASE handle[c] = "tmp" ->
               (\E w \in Written(tmp[s], v) : tmp' = [tmp EXCEPT ![s] = w]) /\ UNCHANGED state
          [] handle[c] = "state" ->
               (\E w \in Written(state[s], v) : state' = [state EXCEPT ![s] = w]) /\ UNCHANGED tmp
          [] OTHER -> UNCHANGED <<state, tmp>>
     /\ handle' = [handle EXCEPT ![c] = "none"]
     /\ Goto(c, IF windows THEN "replace" ELSE "rename")
     /\ UNCHANGED <<fixed, dir, clock, locks, op, victims, mine, shared>>

WriteFails(c) == \* no space: the temporary file stays as it is
  /\ At(c, "write") /\ Fail(c)
  /\ UNCHANGED <<fixed, files, clock, victims, shared>>

Moved(s, d) ==
  IF op[d] # NoOp /\ op[d].s = s /\ handle[d] \in {"tmp", "state"}
  THEN IF handle[d] = "tmp" THEN "state" ELSE "gone"
  ELSE handle[d]

RemoveTarget(c) == \* cfg(windows)
  LET s == op[c].s
  IN /\ At(c, "replace") /\ Goto(c, "rename")
     /\ state' = [state EXCEPT ![s] = NoFile]
     /\ handle' = [d \in Clients |->
                     IF op[d] # NoOp /\ op[d].s = s /\ handle[d] = "state" THEN "gone" ELSE handle[d]]
     /\ UNCHANGED <<fixed, dir, tmp, clock, locks, op, victims, mine, shared>>

(* The last step of save_unlocked: a save and a migrating load return, a   *)
(* create goes on to the cleanup without the lock.                         *)
Rename(c) ==
  LET s == op[c].s
  IN /\ At(c, "rename")
     /\ IF tmp[s] = NoFile
          THEN Fail(c) /\ UNCHANGED <<state, tmp>>
          ELSE /\ state' = [state EXCEPT ![s] = tmp[s]]
               /\ tmp' = [tmp EXCEPT ![s] = NoFile]
               /\ handle' = [d \in Clients |-> Moved(s, d)]
               /\ Unlock(c, s)
               /\ IF op[c].kind = "create"
                    THEN Goto(c, "list") /\ UNCHANGED <<op, mine>>
                    ELSE /\ Goto(c, "idle") /\ op' = [op EXCEPT ![c] = NoOp]
                         /\ mine' = [mine EXCEPT ![c] = [s |-> s, v |-> op[c].v]]
     /\ UNCHANGED <<fixed, dir, clock, victims, shared>>

-----------------------------------------------------------------------------
(* cleanup_old, after a create and without its lock                        *)

OldestNewest(victim) == \* mutant: sorted the other way round
  /\ victim \subseteq Current
  /\ Cardinality(victim) = Cardinality(Current) - MaxSessions
  /\ \A s \in victim, t \in Current \ victim : state[s].born >= state[t].born

(* The oldest beyond MaxSessions, of what is readable now.                 *)
Oldest(victim) ==
  /\ victim \subseteq Current
  /\ Cardinality(victim) = Cardinality(Current) - MaxSessions
  /\ \A s \in victim, t \in Current \ victim : state[s].born <= state[t].born

EndCreate(c, a) ==
  /\ Goto(c, "idle") /\ op' = [op EXCEPT ![c] = NoOp]
  /\ victims' = [victims EXCEPT ![c] = {}]
  /\ mine' = IF a = Failed THEN mine ELSE [mine EXCEPT ![c] = [s |-> op[c].s, v |-> op[c].v]]

ListOld(c) ==
  /\ At(c, "list")
  /\ IF Cardinality(Current) <= MaxSessions
       THEN EndCreate(c, op[c].v)
       ELSE /\ \E victim \in SUBSET Current :
                 Oldest(victim) /\ victims' = [victims EXCEPT ![c] = victim]
            /\ Goto(c, "wantVictim") /\ UNCHANGED <<op, mine>>
  /\ UNCHANGED <<fixed, files, clock, locks, handle, shared>>

(* The victims are taken in the order of their age; only their number and  *)
(* their locks matter to what follows.                                     *)
LockVictim(c, s) ==
  /\ At(c, "wantVictim") /\ s \in victims[c] /\ Lock(c, s)
  /\ Goto(c, "removeFiles")
  /\ UNCHANGED <<fixed, files, clock, op, handle, victims, mine>>

RemoveFiles(c, s) ==
  /\ At(c, "removeFiles") /\ s \in victims[c] /\ Holds(c, s)
  /\ state' = [state EXCEPT ![s] = NoFile] /\ tmp' = [tmp EXCEPT ![s] = NoFile]
  /\ handle' = [d \in Clients |->
                  IF op[d] # NoOp /\ op[d].s = s /\ handle[d] # "none" THEN "gone" ELSE handle[d]]
  /\ Goto(c, "removeDir")
  /\ UNCHANGED <<fixed, dir, clock, locks, op, victims, mine, shared>>

(* A file another process created since is not removed: the directory is   *)
(* not empty and create fails.                                             *)
RemoveDir(c, s) ==
  /\ At(c, "removeDir") /\ s \in victims[c] /\ Holds(c, s)
  /\ Unlock(c, s)
  /\ IF state[s] # NoFile \/ tmp[s] # NoFile
       THEN EndCreate(c, Failed) /\ UNCHANGED dir
       ELSE /\ dir' = [dir EXCEPT ![s] = FALSE]
            /\ IF victims[c] = {s}
                 THEN EndCreate(c, op[c].v)
                 ELSE /\ victims' = [victims EXCEPT ![c] = @ \ {s}]
                      /\ Goto(c, "wantVictim") /\ UNCHANGED <<op, mine>>
  /\ UNCHANGED <<fixed, state, tmp, clock, handle, shared>>

-----------------------------------------------------------------------------
(* The process ends, at any moment.                                        *)

InGap(c) == windows /\ At(c, "rename")
GapOf(group) == { op[c].s : c \in {d \in group : InGap(d)} }
Gap == GapOf(Clients)

(* What was written stays, also an unfinished temporary file.  On Windows  *)
(* the session is gone when the target was removed and not yet replaced.   *)
Crash(p) ==
  LET dead == { c \in Clients : process[c] = p }
      Cleared(f, x) == [c \in Clients |-> IF c \in dead THEN x ELSE f[c]]
  IN /\ \E c \in dead : ~At(c, "idle") \/ mine[c] # NoOp
     /\ pc' = Cleared(pc, "idle") /\ op' = Cleared(op, NoOp)
     /\ handle' = Cleared(handle, "none") /\ victims' = Cleared(victims, {})
     /\ mine' = Cleared(mine, NoOp)
     /\ locks' = [locks EXCEPT ![p] = [s \in Sessions |-> Free]]
     /\ shared' = shared \cup { s \in GapOf(dead) : state[s] = NoFile }
     /\ UNCHANGED <<fixed, files, clock>>

Call(c) ==
  \/ SaveStart(c) \/ LatestStart(c)
  \/ \E s \in Sessions : CreateStart(c, s) \/ LoadStart(c, s)

Step(c) ==
  \/ Acquire(c) \/ CheckNew(c) \/ ReadState(c)
  \/ MakeDirs(c) \/ OpenTmp(c) \/ WriteTmp(c) \/ WriteFails(c) \/ RemoveTarget(c) \/ Rename(c)
  \/ ListOld(c)
  \/ \E s \in Sessions : LockVictim(c, s) \/ RemoveFiles(c, s) \/ RemoveDir(c, s)

Next ==
  \/ \E c \in Clients : Call(c) \/ Step(c)
  \/ \E p \in Processes : Crash(p)

Spec == Init /\ [][Next]_vars

-----------------------------------------------------------------------------
(* Types, and the discipline of the locks, without which a later call      *)
(* would wait for ever: a lock is held only by a call that is inside the   *)
(* critical section of that session, and such a call holds it.             *)
Inside(c) ==
  CASE pc[c] \in {"held", "dirs", "open", "write", "replace", "rename"} -> {op[c].s}
    [] pc[c] \in {"removeFiles", "removeDir"} -> {s \in victims[c] : Holds(c, s)}
    [] OTHER -> {}

TypeOK ==
  /\ process \in [Clients -> Processes] /\ windows \in BOOLEAN
  /\ dir \in [Sessions -> BOOLEAN]
  /\ state \in [Sessions -> Values \cup {NoFile, Torn, Empty}]
  /\ tmp \in [Sessions -> Values \cup {NoFile, Torn, Empty}]
  /\ pc \in [Clients -> Steps] /\ op \in [Clients -> Calls \cup {NoOp}]
  /\ handle \in [Clients -> {"none", "tmp", "state", "gone"}]
  /\ victims \in [Clients -> SUBSET Sessions]
  /\ \A c \in Clients, s \in Sessions : Holds(c, s) <=> s \in Inside(c)
  /\ \A c \in Clients : pc[c] \in {"removeFiles", "removeDir"} => Cardinality(Inside(c)) = 1
  /\ \A s \in Sessions : ~dir[s] => state[s] = NoFile /\ tmp[s] = NoFile

(* The refinement mapping: a call is pending until its rename (for Windows *)
(* until the old file is removed), or until its answer was read.           *)
Asked(c) ==
  IF pc[c] \in {"want", "held", "dirs", "open", "write", "replace", "rename"} /\ ~InGap(c)
  THEN IF op[c].kind = "load" THEN [op[c] EXCEPT !.v = NoFile] ELSE op[c]
  ELSE NoOp

(* What took effect is the client's, though the call has not returned.     *)
Done(c) == InGap(c) \/ pc[c] \in {"list", "wantVictim", "removeFiles", "removeDir"}

Visible(s) ==
  IF state[s] = NoFile
  THEN IF s \in Gap /\ Valid(tmp[s]) THEN tmp[s] ELSE legacy[s]
  ELSE IF Valid(state[s]) THEN state[s] ELSE Torn

Contents == [s \in Sessions |-> Visible(s)]
Pending  == [c \in Clients |-> Asked(c)]
Told     == [c \in Clients |-> IF Done(c) THEN [s |-> op[c].s, v |-> op[c].v] ELSE mine[c]]
Doomed   == UNION { victims[c] : c \in Clients }

Register == INSTANCE SessionRegister WITH
  store <- Contents, asked <- Pending, mine <- Told, doomed <- Doomed

(* While no two processes were in their critical sections for a session at *)
(* once, and no Windows process died in between the removal and the        *)
(* rename, the session is an atomic register: see SessionRegister.         *)
ImplementsRegister == Register!RegisterSpec
=============================================================================
