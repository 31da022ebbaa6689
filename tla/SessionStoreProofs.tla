------------------------- MODULE SessionStoreProofs -------------------------
(***************************************************************************)
(* Three theorems about the session files: the locks are released whatever *)
(* happens (LocksAreReleased), engines of one process never lose the       *)
(* promise of SessionRegister (OneProcessKeepsThePromise), and             *)
(* SessionStore implements SessionRegister (SessionsAreRegisters).         *)
(*                                                                         *)
(* The refinement needs to know what is in the files of a session while    *)
(* one client alone is in its critical section: AtWork says it for every   *)
(* step of save_unlocked and cleanup_old.                                  *)
(***************************************************************************)
EXTENDS SessionStore, FiniteSetTheorems, TLAPS

Writing  == {"dirs", "open", "write", "replace", "rename"}
Critical == {"held"} \cup Writing
Removing == {"removeFiles", "removeDir"}
Outside  == {"idle", "want", "list", "wantVictim"}

TypesInv ==
  /\ process \in [Clients -> Processes] /\ windows \in BOOLEAN
  /\ legacy \in [Sessions -> Values \cup {NoFile}]
  /\ dir \in [Sessions -> BOOLEAN]
  /\ state \in [Sessions -> Values \cup {NoFile, Torn, Empty}]
  /\ tmp \in [Sessions -> Values \cup {NoFile, Torn, Empty}]
  /\ clock \in 0..MaxClock
  /\ locks \in [Processes -> [Sessions -> Clients \cup {Free}]]
  /\ pc \in [Clients -> Steps] /\ op \in [Clients -> Calls \cup {NoOp}]
  /\ handle \in [Clients -> {"none", "tmp", "state", "gone"}]
  /\ victims \in [Clients -> SUBSET Sessions]
  /\ mine \in [Clients -> [s : Sessions, v : Values] \cup {NoOp}]
  /\ shared \subseteq Sessions

(* A call from its start to its answer; only a call that writes has an     *)
(* open file.                                                              *)
Called(c) ==
  /\ pc[c] # "idle" => op[c] \in Calls
  /\ pc[c] \notin {"idle", "want", "held"} => op[c].v \in Values
  /\ pc[c] # "idle" /\ op[c].kind \in {"create", "save"} => op[c].v \in Values
  /\ pc[c] = "replace" => windows
  /\ handle[c] # "none" => pc[c] = "write"
  /\ handle[c] = "tmp" => tmp[op[c].s] # NoFile
  /\ handle[c] = "state" => state[op[c].s] # NoFile

CallInv == \A c \in Clients : Called(c)

(* A lock belongs to a client of its process, and is held exactly inside;  *)
(* a cleanup is inside one of its victims.                                 *)
LockInv ==
  /\ \A p \in Processes, s \in Sessions, c \in Clients : locks[p][s] = c => process[c] = p
  /\ \A c \in Clients, s \in Sessions : Holds(c, s) <=> s \in Inside(c)
  /\ \A c \in Clients : pc[c] \in Removing => \E s \in victims[c] : Inside(c) = {s}

(* A file that is there is in a directory that is there.                   *)
DirInv == \A s \in Sessions : ~dir[s] => state[s] = NoFile /\ tmp[s] = NoFile

(* What the files of s are while c is inside, alone.                       *)
AtWork(c, s) ==
  /\ pc[c] = "write" => handle[c] = "tmp" /\ tmp[s] = Empty
  /\ pc[c] \in {"replace", "rename"} => tmp[s] = op[c].v
  /\ InGap(c) => state[s] = NoFile
  /\ pc[c] = "removeDir" => state[s] = NoFile /\ tmp[s] = NoFile
  /\ pc[c] \in Writing /\ op[c].kind = "create" => state[s] = NoFile /\ legacy[s] = NoFile
  /\ pc[c] \in Writing /\ op[c].kind = "load" => state[s] = NoFile /\ op[c].v = legacy[s]

(* A session of which no two clients were inside at once.                  *)
Alone(s) ==
  /\ state[s] \in Values \cup {NoFile}
  /\ \A c, d \in Clients : Holds(c, s) /\ Holds(d, s) => c = d
  /\ \A c \in Clients : Holds(c, s) => AtWork(c, s)

AloneInv == \A s \in Sessions \ shared : Alone(s)

SessionInv == TypesInv /\ CallInv /\ LockInv /\ DirInv /\ AloneInv

-----------------------------------------------------------------------------
LEMMA NamesApart ==
  /\ \A c \in Clients : c # Free
  /\ NoFile \notin Values /\ Torn \notin Values /\ Empty \notin Values /\ Failed \notin Values
  /\ NoFile # Torn /\ NoFile # Empty /\ Empty # Torn
  /\ NoOp \notin Calls
BY NamesAssumption DEF Free, NoFile, Torn, Empty, Failed, Mark, Values, NoOp, Calls

LEMMA TypesInit == Init => TypesInv
<1> SUFFICES ASSUME Init PROVE TypesInv
  OBVIOUS
<1> USE DEF Init
<1>1. Old \in Values
  BY LimitsAssumption DEF Old, Values
<1>. QED
  BY <1>1 DEF TypesInv, Steps

LEMMA TypesStep ==
  ASSUME TypesInv, CallInv, Next
  PROVE  TypesInv'
<1> USE DEF TypesInv, fixed, files, At, Goto, Steps
<1>1. ASSUME NEW c \in Clients, SaveStart(c) PROVE TypesInv'
  <2>1. [mine[c].v EXCEPT !.ver = @ + 1, !.by = c] \in Values /\ mine[c].s \in Sessions
    <3>1. mine[c] \in [s : Sessions, v : Values] /\ mine[c].v.ver < MaxVersion
      BY <1>1 DEF SaveStart
    <3>2. mine[c].v \in Values /\ mine[c].s \in Sessions
      BY <3>1
    <3>3. mine[c].v.ver + 1 \in 0..MaxVersion
      BY <3>1, <3>2, LimitsAssumption DEF Values
    <3>. QED  BY <3>2, <3>3 DEF Values
  <2>2. op'[c] \in Calls
    BY <2>1, <1>1 DEF SaveStart, Begin, Calls
  <2>. QED  BY <2>2, <1>1 DEF SaveStart, Begin
<1>2. ASSUME NEW c \in Clients, LatestStart(c) PROVE TypesInv'
  BY <1>2 DEF LatestStart, Begin, Calls
<1>3. ASSUME NEW c \in Clients, NEW s \in Sessions, CreateStart(c, s) PROVE TypesInv'
  <2>1. [born |-> clock + 1, ver |-> 0, by |-> c] \in Values /\ clock + 1 \in 0..MaxClock
    BY <1>3, LimitsAssumption DEF CreateStart, Values
  <2>2. op'[c] \in Calls
    BY <2>1, <1>3 DEF CreateStart, Begin, Calls
  <2>. QED  BY <2>1, <2>2, <1>3 DEF CreateStart, Begin
<1>4. ASSUME NEW c \in Clients, NEW s \in Sessions, LoadStart(c, s) PROVE TypesInv'
  BY <1>4 DEF LoadStart, Begin, Calls
<1>5. ASSUME NEW c \in Clients, Acquire(c) PROVE TypesInv'
  BY <1>5 DEF Acquire, Lock, CallInv, Called, Calls
<1>r. ASSUME NEW c \in Clients, NEW a, Return(c, a), pc[c] # "idle", UNCHANGED <<fixed, clock, victims, shared>>
      PROVE  /\ locks' \in [Processes -> [Sessions -> Clients \cup {Free}]]
             /\ pc' \in [Clients -> Steps] /\ op' \in [Clients -> Calls \cup {NoOp}]
             /\ handle' \in [Clients -> {"none", "tmp", "state", "gone"}]
             /\ mine' \in [Clients -> [s : Sessions, v : Values] \cup {NoOp}]
  BY <1>r DEF Return, Unlock, CallInv, Called, Calls
<1>6. ASSUME NEW c \in Clients, CheckNew(c) PROVE TypesInv'
  <2>1. CASE Exists(op[c].s)
    BY <2>1, <1>6, <1>r DEF CheckNew, Fail
  <2>2. CASE ~Exists(op[c].s)
    BY <2>2, <1>6 DEF CheckNew
  <2>. QED  BY <2>1, <2>2
<1>7. ASSUME NEW c \in Clients, ReadState(c) PROVE TypesInv'
  <2>0. op[c] \in Calls
    BY <1>7 DEF ReadState, CallInv, Called
  <2>1. CASE state[op[c].s] = NoFile /\ legacy[op[c].s] # NoFile
    <3>1. op' = [op EXCEPT ![c].v = legacy[op[c].s]] /\ pc' = [pc EXCEPT ![c] = "dirs"]
      BY <2>1, <1>7 DEF ReadState
    <3>2. legacy[op[c].s] \in Values
      BY <2>0, <2>1 DEF Calls
    <3>3. [op[c] EXCEPT !.v = legacy[op[c].s]] \in Calls
      BY <2>0, <3>2 DEF Calls
    <3>4. op' \in [Clients -> Calls \cup {NoOp}]
      BY <3>1, <3>3
    <3>. QED  BY <3>1, <3>4, <2>1, <1>7 DEF ReadState
  <2>2. CASE ~(state[op[c].s] = NoFile /\ legacy[op[c].s] # NoFile)
    <3>1. \E a : Return(c, a)
      BY <2>2, <1>7 DEF ReadState, Fail
    <3>. QED  BY <3>1, <1>7, <1>r DEF ReadState
  <2>. QED  BY <2>1, <2>2
<1>8. ASSUME NEW c \in Clients, MakeDirs(c) PROVE TypesInv'
  BY <1>8 DEF MakeDirs
<1>9. ASSUME NEW c \in Clients, OpenTmp(c) PROVE TypesInv'
  <2>1. CASE dir[op[c].s]
    BY <2>1, <1>9 DEF OpenTmp
  <2>2. CASE ~dir[op[c].s]
    BY <2>2, <1>9, <1>r DEF OpenTmp, Fail
  <2>. QED  BY <2>1, <2>2
<1>10. ASSUME NEW c \in Clients, WriteTmp(c) PROVE TypesInv'
  <2>1. op[c].v \in Values
    BY <1>10 DEF WriteTmp, CallInv, Called
  <2>. QED  BY <2>1, <1>10 DEF WriteTmp, Written
<1>11. ASSUME NEW c \in Clients, WriteFails(c) PROVE TypesInv'
  BY <1>11, <1>r DEF WriteFails, Fail
<1>12. ASSUME NEW c \in Clients, RemoveTarget(c) PROVE TypesInv'
  BY <1>12 DEF RemoveTarget
<1>13. ASSUME NEW c \in Clients, Rename(c) PROVE TypesInv'
  <2>0. op[c] \in Calls /\ op[c].v \in Values
    BY <1>13 DEF Rename, CallInv, Called
  <2>1. CASE tmp[op[c].s] = NoFile
    BY <2>1, <1>13, <1>r DEF Rename, Fail
  <2>2. CASE tmp[op[c].s] # NoFile
    <3>1. handle' \in [Clients -> {"none", "tmp", "state", "gone"}]
      BY <2>2, <1>13 DEF Rename, Moved
    <3>2. locks' \in [Processes -> [Sessions -> Clients \cup {Free}]]
      <4>1. locks' = [locks EXCEPT ![process[c]][op[c].s] = Free]
        BY <2>2, <1>13 DEF Rename, Unlock
      <4>. QED  BY <4>1
    <3>3. /\ pc' \in [Clients -> Steps] /\ op' \in [Clients -> Calls \cup {NoOp}]
          /\ mine' \in [Clients -> [s : Sessions, v : Values] \cup {NoOp}]
      <4>1. CASE op[c].kind = "create"
        BY <4>1, <2>0, <2>2, <1>13 DEF Rename, Calls
      <4>2. CASE op[c].kind # "create"
        <5>1. pc' = [pc EXCEPT ![c] = "idle"] /\ op' = [op EXCEPT ![c] = NoOp]
              /\ mine' = [mine EXCEPT ![c] = [s |-> op[c].s, v |-> op[c].v]]
          BY <4>2, <2>2, <1>13 DEF Rename
        <5>2. op[c].s \in Sessions
          BY <2>0 DEF Calls
        <5>. QED  BY <5>1, <5>2, <2>0
      <4>. QED  BY <4>1, <4>2
    <3>4. /\ state' \in [Sessions -> Values \cup {NoFile, Torn, Empty}]
          /\ tmp' \in [Sessions -> Values \cup {NoFile, Torn, Empty}]
      <4>1. op[c].s \in Sessions /\ NoFile \in Values \cup {NoFile, Torn, Empty}
        BY <2>0 DEF Calls
      <4>2. /\ state' = [state EXCEPT ![op[c].s] = tmp[op[c].s]]
            /\ tmp' = [tmp EXCEPT ![op[c].s] = NoFile]
        BY <2>2, <1>13 DEF Rename
      <4>. QED  BY <4>1, <4>2
    <3>. QED  BY <3>1, <3>2, <3>3, <3>4, <1>13 DEF Rename
  <2>. QED  BY <2>1, <2>2
<1>e. ASSUME NEW c \in Clients, NEW a, EndCreate(c, a), pc[c] \notin {"idle", "want", "held"},
             a = Failed \/ a \in Values
      PROVE  /\ pc' \in [Clients -> Steps] /\ op' \in [Clients -> Calls \cup {NoOp}]
             /\ victims' \in [Clients -> SUBSET Sessions]
             /\ mine' \in [Clients -> [s : Sessions, v : Values] \cup {NoOp}]
  BY <1>e DEF EndCreate, CallInv, Called, Calls
<1>14. ASSUME NEW c \in Clients, ListOld(c) PROVE TypesInv'
  <2>0. op[c].v \in Values
    BY <1>14 DEF ListOld, CallInv, Called
  <2>1. CASE Cardinality(Current) <= MaxSessions
    BY <2>0, <2>1, <1>14, <1>e DEF ListOld
  <2>2. CASE ~(Cardinality(Current) <= MaxSessions)
    <3>1. /\ \E victim \in SUBSET Current : victims' = [victims EXCEPT ![c] = victim]
          /\ pc' = [pc EXCEPT ![c] = "wantVictim"]
          /\ UNCHANGED <<fixed, files, clock, locks, handle, shared, op, mine>>
      BY <2>2, <1>14 DEF ListOld, Goto
    <3>2. Current \subseteq Sessions
      BY DEF Current
    <3>3. victims' \in [Clients -> SUBSET Sessions]
      BY <3>1, <3>2
    <3>4. pc' \in [Clients -> Steps]
      BY <3>1 DEF Steps
    <3>. QED  BY <3>1, <3>3, <3>4
  <2>. QED  BY <2>1, <2>2
<1>15. ASSUME NEW c \in Clients, NEW s \in Sessions, LockVictim(c, s) PROVE TypesInv'
  BY <1>15 DEF LockVictim, Lock
<1>16. ASSUME NEW c \in Clients, NEW s \in Sessions, RemoveFiles(c, s) PROVE TypesInv'
  BY <1>16 DEF RemoveFiles
<1>17. ASSUME NEW c \in Clients, NEW s \in Sessions, RemoveDir(c, s) PROVE TypesInv'
  <2>0. op[c].v \in Values
    BY <1>17 DEF RemoveDir, CallInv, Called
  <2>1. locks' \in [Processes -> [Sessions -> Clients \cup {Free}]] /\ dir' \in [Sessions -> BOOLEAN]
    BY <1>17 DEF RemoveDir, Unlock
  <2>2. CASE \E a : EndCreate(c, a) /\ (a = Failed \/ a \in Values)
    BY <2>1, <2>2, <1>17, <1>e DEF RemoveDir
  <2>3. CASE ~\E a : EndCreate(c, a) /\ (a = Failed \/ a \in Values)
    <3>1. victims' = [victims EXCEPT ![c] = @ \ {s}] /\ pc' = [pc EXCEPT ![c] = "wantVictim"]
          /\ UNCHANGED <<op, mine>>
      BY <2>0, <2>3, <1>17 DEF RemoveDir
    <3>. QED  BY <2>1, <3>1, <1>17 DEF RemoveDir
  <2>. QED  BY <2>2, <2>3
<1>18. ASSUME NEW p \in Processes, Crash(p) PROVE TypesInv'
  <2>1. op' \in [Clients -> Calls \cup {NoOp}]
    BY <1>18 DEF Crash
  <2>2. GapOf({c \in Clients : process[c] = p}) \subseteq Sessions
    BY DEF GapOf, InGap, CallInv, Called, Calls
  <2>3. shared' \subseteq Sessions
    BY <2>2, <1>18 DEF Crash
  <2>4. locks' \in [Processes -> [Sessions -> Clients \cup {Free}]]
    BY <1>18 DEF Crash
  <2>. QED  BY <2>1, <2>3, <2>4, <1>18 DEF Crash
<1>. QED
  BY <1>1, <1>2, <1>3, <1>4, <1>5, <1>6, <1>7, <1>8, <1>9, <1>10, <1>11, <1>12, <1>13, <1>14,
     <1>15, <1>16, <1>17, <1>18 DEF Next, Call, Step

(* A call that returns under the lock has an open file no more.            *)
LEMMA CallReturns ==
  ASSUME TypesInv, CallInv, NEW c \in Clients, NEW a, Return(c, a), UNCHANGED <<windows, state, tmp>>
  PROVE  CallInv'
<1> SUFFICES ASSUME NEW d \in Clients PROVE Called(d)'
  BY DEF CallInv
<1>1. CASE d = c
  BY <1>1 DEF TypesInv, Return, Goto, Called
<1>2. CASE d # c
  BY <1>2 DEF TypesInv, Return, Goto, CallInv, Called
<1>. QED  BY <1>1, <1>2

(* A step of c that opens, writes and moves no file.                       *)
LEMMA CallGoesOn ==
  ASSUME TypesInv, CallInv, NEW c \in Clients, pc[c] # "write",
         UNCHANGED <<windows, state, tmp, handle>>,
         \A d \in Clients \ {c} : pc'[d] = pc[d] /\ op'[d] = op[d],
         pc'[c] # "idle" => op'[c] \in Calls,
         pc'[c] \notin {"idle", "want", "held"} => op'[c].v \in Values,
         pc'[c] # "idle" /\ op'[c].kind \in {"create", "save"} => op'[c].v \in Values,
         pc'[c] # "replace"
  PROVE  CallInv'
<1> SUFFICES ASSUME NEW d \in Clients PROVE Called(d)'
  BY DEF CallInv
<1>1. CASE d = c
  BY <1>1 DEF CallInv, Called
<1>2. CASE d # c
  BY <1>2 DEF CallInv, Called
<1>. QED  BY <1>1, <1>2

LEMMA CallBegins ==
  ASSUME TypesInv, CallInv, NEW c \in Clients, NEW call \in Calls, Begin(c, call), pc[c] = "idle",
         call.kind \in {"create", "save"} => call.v \in Values
  PROVE  CallInv'
<1>1. pc' = [pc EXCEPT ![c] = "want"] /\ op' = [op EXCEPT ![c] = call]
      /\ UNCHANGED <<windows, state, tmp, handle>>
  BY DEF Begin, Goto, fixed, files
<1>2. pc'[c] = "want" /\ op'[c] = call /\ \A d \in Clients \ {c} : pc'[d] = pc[d] /\ op'[d] = op[d]
  BY <1>1 DEF TypesInv
<1>. QED  BY <1>1, <1>2, CallGoesOn

LEMMA CallStep ==
  ASSUME TypesInv, CallInv, Next
  PROVE  CallInv'
<1> USE DEF fixed, files, At, Goto
<1>1. ASSUME NEW c \in Clients, SaveStart(c) PROVE CallInv'
  <2>1. mine[c] \in [s : Sessions, v : Values] /\ mine[c].v.ver < MaxVersion
    BY <1>1 DEF SaveStart, TypesInv
  <2>2. mine[c].v.ver + 1 \in 0..MaxVersion
    BY <2>1, LimitsAssumption DEF Values
  <2>3. [mine[c].v EXCEPT !.ver = @ + 1, !.by = c] \in Values /\ mine[c].s \in Sessions
    BY <2>1, <2>2 DEF Values
  <2>4. [kind |-> "save", s |-> mine[c].s, v |-> [mine[c].v EXCEPT !.ver = @ + 1, !.by = c]] \in Calls
    BY <2>3 DEF Calls
  <2>. QED  BY <1>1, <2>3, <2>4, CallBegins DEF SaveStart
<1>2. ASSUME NEW c \in Clients, LatestStart(c) PROVE CallInv'
  <2>1. \A s \in Sessions : [kind |-> "load", s |-> s, v |-> NoFile] \in Calls
    BY DEF Calls
  <2>. QED  BY <1>2, <2>1, CallBegins DEF LatestStart
<1>3. ASSUME NEW c \in Clients, NEW s \in Sessions, CreateStart(c, s) PROVE CallInv'
  <2>1. [born |-> clock + 1, ver |-> 0, by |-> c] \in Values
    BY <1>3, LimitsAssumption DEF CreateStart, Values, TypesInv
  <2>2. [kind |-> "create", s |-> s, v |-> [born |-> clock + 1, ver |-> 0, by |-> c]] \in Calls
    BY <2>1 DEF Calls
  <2>. QED  BY <1>3, <2>1, <2>2, CallBegins DEF CreateStart
<1>4. ASSUME NEW c \in Clients, NEW s \in Sessions, LoadStart(c, s) PROVE CallInv'
  <2>1. [kind |-> "load", s |-> s, v |-> NoFile] \in Calls
    BY DEF Calls
  <2>. QED  BY <1>4, <2>1, CallBegins DEF LoadStart
<1>5. ASSUME NEW c \in Clients, Acquire(c) PROVE CallInv'
  <2>1. op[c] \in Calls /\ (op[c].kind \in {"create", "save"} => op[c].v \in Values)
    BY <1>5 DEF Acquire, CallInv, Called
  <2>. QED  BY <1>5, <2>1, CallGoesOn DEF Acquire, TypesInv
<1>6. ASSUME NEW c \in Clients, CheckNew(c) PROVE CallInv'
  <2>1. CASE Exists(op[c].s)
    BY <2>1, <1>6, CallReturns DEF CheckNew, Fail
  <2>2. CASE ~Exists(op[c].s)
    <3>1. op[c] \in Calls /\ op[c].v \in Values
      BY <1>6 DEF CheckNew, CallInv, Called
    <3>. QED  BY <3>1, <2>2, <1>6, CallGoesOn DEF CheckNew, TypesInv
  <2>. QED  BY <2>1, <2>2
<1>7. ASSUME NEW c \in Clients, ReadState(c) PROVE CallInv'
  <2>0. op[c] \in Calls
    BY <1>7 DEF ReadState, CallInv, Called
  <2>1. CASE state[op[c].s] = NoFile /\ legacy[op[c].s] # NoFile
    <3>1. op' = [op EXCEPT ![c].v = legacy[op[c].s]] /\ pc' = [pc EXCEPT ![c] = "dirs"]
          /\ UNCHANGED <<windows, state, tmp, handle>> /\ pc[c] = "held"
      BY <2>1, <1>7 DEF ReadState
    <3>2. legacy[op[c].s] \in Values
      BY <2>0, <2>1 DEF Calls, TypesInv
    <3>3. /\ op'[c] \in Calls /\ op'[c].v \in Values /\ pc'[c] = "dirs"
          /\ \A d \in Clients \ {c} : pc'[d] = pc[d] /\ op'[d] = op[d]
      BY <2>0, <3>1, <3>2 DEF Calls, TypesInv
    <3>. QED  BY <3>1, <3>3, CallGoesOn
  <2>2. CASE ~(state[op[c].s] = NoFile /\ legacy[op[c].s] # NoFile)
    <3>1. \E a : Return(c, a)
      BY <2>2, <1>7 DEF ReadState, Fail
    <3>. QED  BY <3>1, <1>7, CallReturns DEF ReadState
  <2>. QED  BY <2>1, <2>2
<1>8. ASSUME NEW c \in Clients, MakeDirs(c) PROVE CallInv'
  <2>1. op[c] \in Calls /\ op[c].v \in Values
    BY <1>8 DEF MakeDirs, CallInv, Called
  <2>. QED  BY <1>8, <2>1, CallGoesOn DEF MakeDirs, TypesInv
<1>9. ASSUME NEW c \in Clients, OpenTmp(c) PROVE CallInv'
  <2>1. CASE dir[op[c].s]
    <3>1. op[c] \in Calls /\ op[c].v \in Values /\ op[c].s \in Sessions
      BY <1>9 DEF OpenTmp, CallInv, Called, Calls
    <3>2. /\ tmp' = [tmp EXCEPT ![op[c].s] = Empty] /\ handle' = [handle EXCEPT ![c] = "tmp"]
          /\ pc' = [pc EXCEPT ![c] = "write"] /\ UNCHANGED <<op, state, windows>>
      BY <2>1, <1>9 DEF OpenTmp
    <3>3. \A s \in Sessions : tmp'[s] = NoFile => tmp[s] = NoFile
      BY <3>2, NamesApart DEF TypesInv
    <3> SUFFICES ASSUME NEW d \in Clients PROVE Called(d)'
      BY DEF CallInv
    <3>4. CASE d = c
      <4>1. pc'[c] = "write" /\ handle'[c] = "tmp" /\ op'[c] = op[c] /\ tmp'[op[c].s] = Empty
        BY <3>1, <3>2 DEF TypesInv
      <4>. QED  BY <3>1, <3>4, <4>1, NamesApart DEF Called
    <3>5. CASE d # c
      <4>1. pc'[d] = pc[d] /\ handle'[d] = handle[d]
        BY <3>2, <3>5 DEF TypesInv
      <4>2. handle[d] # "none" => op[d] \in Calls /\ op[d].s \in Sessions
        BY DEF CallInv, Called, Calls
      <4>. QED  BY <3>2, <3>3, <4>1, <4>2 DEF CallInv, Called
    <3>. QED  BY <3>4, <3>5
  <2>2. CASE ~dir[op[c].s]
    BY <2>2, <1>9, CallReturns DEF OpenTmp, Fail
  <2>. QED  BY <2>1, <2>2
<1>10. ASSUME NEW c \in Clients, WriteTmp(c) PROVE CallInv'
  <2>1. op[c] \in Calls /\ op[c].v \in Values
    BY <1>10 DEF WriteTmp, CallInv, Called
  <2>2. /\ handle' = [handle EXCEPT ![c] = "none"] /\ UNCHANGED <<op, windows>>
        /\ pc' = [pc EXCEPT ![c] = IF windows THEN "replace" ELSE "rename"]
    BY <1>10 DEF WriteTmp
  <2>3. ASSUME NEW s \in Sessions PROVE (tmp'[s] = NoFile => tmp[s] = NoFile) /\ (state'[s] = NoFile => state[s] = NoFile)
    BY <1>10, <2>1, NamesApart DEF WriteTmp, Written, TypesInv
  <2> SUFFICES ASSUME NEW d \in Clients PROVE Called(d)'
    BY DEF CallInv
  <2>4. CASE d = c
    BY <2>1, <2>2, <2>4 DEF TypesInv, Called
  <2>5. CASE d # c
    BY <2>2, <2>3, <2>5 DEF TypesInv, CallInv, Called, Calls
  <2>. QED  BY <2>4, <2>5
<1>11. ASSUME NEW c \in Clients, WriteFails(c) PROVE CallInv'
  BY <1>11, CallReturns DEF WriteFails, Fail
<1>12. ASSUME NEW c \in Clients, RemoveTarget(c) PROVE CallInv'
  <2>1. op[c] \in Calls /\ op[c].v \in Values
    BY <1>12 DEF RemoveTarget, CallInv, Called
  <2> SUFFICES ASSUME NEW d \in Clients PROVE Called(d)'
    BY DEF CallInv
  <2>2. /\ UNCHANGED <<op, windows, tmp>> /\ pc' = [pc EXCEPT ![c] = "rename"]
        /\ state' = [state EXCEPT ![op[c].s] = NoFile] /\ pc[c] = "replace"
        /\ handle'[d] = IF op[d] # NoOp /\ op[d].s = op[c].s /\ handle[d] = "state" THEN "gone" ELSE handle[d]
    BY <1>12 DEF RemoveTarget
  <2>3. handle'[d] = "state" => handle[d] = "state" /\ op[d] \in Calls /\ op[d].s # op[c].s
    BY <2>2, NamesApart DEF CallInv, Called
  <2>4. CASE d = c
    BY <2>1, <2>2, <2>3, <2>4 DEF TypesInv, CallInv, Called
  <2>5. CASE d # c
    BY <2>2, <2>3, <2>5 DEF TypesInv, CallInv, Called, Calls
  <2>. QED  BY <2>4, <2>5
<1>13. ASSUME NEW c \in Clients, Rename(c) PROVE CallInv'
  <2>0. op[c] \in Calls /\ op[c].v \in Values
    BY <1>13 DEF Rename, CallInv, Called
  <2>1. CASE tmp[op[c].s] = NoFile
    BY <2>1, <1>13, CallReturns DEF Rename, Fail
  <2>2. CASE tmp[op[c].s] # NoFile
    <3> SUFFICES ASSUME NEW d \in Clients PROVE Called(d)'
      BY DEF CallInv
    <3>1. /\ state' = [state EXCEPT ![op[c].s] = tmp[op[c].s]] /\ UNCHANGED windows
          /\ tmp' = [tmp EXCEPT ![op[c].s] = NoFile] /\ handle'[d] = Moved(op[c].s, d) /\ pc[c] = "rename"
      BY <2>2, <1>13 DEF Rename
    <3>2. CASE d = c
      <4>1. handle[c] = "none" /\ handle'[c] = "none"
        BY <3>1, <3>2 DEF CallInv, Called, Moved
      <4>2. \/ pc'[c] = "list" /\ UNCHANGED op
            \/ pc'[c] = "idle"
        BY <2>2, <1>13 DEF Rename, TypesInv
      <4>. QED  BY <2>0, <3>1, <3>2, <4>1, <4>2 DEF Called
    <3>3. CASE d # c
      <4>1. pc'[d] = pc[d] /\ op'[d] = op[d]
        BY <3>3, <2>2, <1>13 DEF Rename, TypesInv
      <4>2. handle[d] # "none" => op[d] \in Calls /\ op[d].s \in Sessions /\ op[d] # NoOp
        BY NamesApart DEF CallInv, Called, Calls
      <4>3. CASE op[d].s = op[c].s /\ handle[d] # "none"
        BY <2>0, <2>2, <3>1, <4>1, <4>2, <4>3 DEF Moved, TypesInv, CallInv, Called
      <4>4. CASE op[d].s # op[c].s \/ handle[d] = "none"
        BY <2>0, <3>1, <4>1, <4>2, <4>4 DEF Moved, TypesInv, CallInv, Called
      <4>. QED  BY <4>3, <4>4
    <3>. QED  BY <3>2, <3>3
  <2>. QED  BY <2>1, <2>2
<1>14. ASSUME NEW c \in Clients, ListOld(c) PROVE CallInv'
  <2>1. op[c] \in Calls /\ op[c].v \in Values
    BY <1>14 DEF ListOld, CallInv, Called
  <2>2. /\ pc'[c] = "idle" \/ (pc'[c] = "wantVictim" /\ op'[c] = op[c])
        /\ \A d \in Clients \ {c} : pc'[d] = pc[d] /\ op'[d] = op[d]
    BY <1>14 DEF ListOld, EndCreate, TypesInv
  <2>. QED  BY <1>14, <2>1, <2>2, CallGoesOn DEF ListOld
<1>15. ASSUME NEW c \in Clients, NEW s \in Sessions, LockVictim(c, s) PROVE CallInv'
  <2>1. op[c] \in Calls /\ op[c].v \in Values
    BY <1>15 DEF LockVictim, CallInv, Called
  <2>. QED  BY <1>15, <2>1, CallGoesOn DEF LockVictim, TypesInv
<1>16. ASSUME NEW c \in Clients, NEW s \in Sessions, RemoveFiles(c, s) PROVE CallInv'
  <2>1. op[c] \in Calls /\ op[c].v \in Values /\ handle[c] = "none"
    BY <1>16 DEF RemoveFiles, CallInv, Called
  <2> SUFFICES ASSUME NEW d \in Clients PROVE Called(d)'
    BY DEF CallInv
  <2>2. /\ UNCHANGED <<op, windows>> /\ pc' = [pc EXCEPT ![c] = "removeDir"]
        /\ state' = [state EXCEPT ![s] = NoFile] /\ tmp' = [tmp EXCEPT ![s] = NoFile]
        /\ handle'[d] = IF op[d] # NoOp /\ op[d].s = s /\ handle[d] # "none" THEN "gone" ELSE handle[d]
    BY <1>16 DEF RemoveFiles
  <2>3. handle'[d] \in {"tmp", "state"} =>
          handle'[d] = handle[d] /\ op[d] \in Calls /\ op[d].s # s /\ op[d].s \in Sessions
    BY <2>2, NamesApart DEF CallInv, Called, Calls
  <2>4. CASE d = c
    BY <2>1, <2>2, <2>3, <2>4 DEF TypesInv, CallInv, Called
  <2>5. CASE d # c
    BY <2>2, <2>3, <2>5 DEF TypesInv, CallInv, Called
  <2>. QED  BY <2>4, <2>5
<1>17. ASSUME NEW c \in Clients, NEW s \in Sessions, RemoveDir(c, s) PROVE CallInv'
  <2>1. op[c] \in Calls /\ op[c].v \in Values
    BY <1>17 DEF RemoveDir, CallInv, Called
  <2>2. /\ pc'[c] = "idle" \/ (pc'[c] = "wantVictim" /\ op'[c] = op[c])
        /\ \A d \in Clients \ {c} : pc'[d] = pc[d] /\ op'[d] = op[d]
    BY <1>17 DEF RemoveDir, EndCreate, TypesInv
  <2>. QED  BY <1>17, <2>1, <2>2, CallGoesOn DEF RemoveDir
<1>18. ASSUME NEW p \in Processes, Crash(p) PROVE CallInv'
  <2> SUFFICES ASSUME NEW d \in Clients PROVE Called(d)'
    BY DEF CallInv
  <2>1. \/ pc'[d] = "idle" /\ handle'[d] = "none"
        \/ pc'[d] = pc[d] /\ handle'[d] = handle[d] /\ op'[d] = op[d]
    BY <1>18 DEF Crash
  <2>. QED  BY <2>1, <1>18 DEF Crash, CallInv, Called
<1>. QED
  BY <1>1, <1>2, <1>3, <1>4, <1>5, <1>6, <1>7, <1>8, <1>9, <1>10, <1>11, <1>12, <1>13, <1>14,
     <1>15, <1>16, <1>17, <1>18 DEF Next, Call, Step

(* What the other clients do is what they did.                             *)
Only(c) == \A d \in Clients \ {c} : pc'[d] = pc[d] /\ op'[d] = op[d] /\ victims'[d] = victims[d]

LEMMA LockKept ==
  ASSUME TypesInv, LockInv, NEW c \in Clients, UNCHANGED <<process, locks>>, Only(c),
         \/ pc[c] \in Outside /\ pc'[c] \in Outside
         \/ pc[c] \in Critical /\ pc'[c] \in Critical /\ op'[c].s = op[c].s
         \/ pc[c] \in Removing /\ pc'[c] \in Removing /\ victims'[c] = victims[c]
  PROVE  LockInv'
<1> USE DEF Outside, Critical, Writing, Removing
<1>1. ASSUME NEW d \in Clients PROVE Inside(d)' = Inside(d)
  <2>1. CASE d = c
    BY <2>1 DEF Inside, Holds
  <2>2. CASE d # c
    BY <2>2 DEF Inside, Holds, Only
  <2>. QED  BY <2>1, <2>2
<1>2. \A d \in Clients : pc'[d] \in Removing => pc[d] \in Removing /\ victims'[d] = victims[d]
  BY DEF Only
<1>. QED  BY <1>1, <1>2 DEF LockInv, Holds

LEMMA LockTaken ==
  ASSUME TypesInv, LockInv, NEW c \in Clients, NEW s \in Sessions, Lock(c, s), UNCHANGED <<process, victims>>,
         Only(c), pc[c] \in Outside,
         \/ pc'[c] \in Critical /\ op'[c].s = s
         \/ pc'[c] \in Removing /\ s \in victims[c]
  PROVE  LockInv'
<1> USE DEF Outside, Critical, Writing, Removing
<1>1. locks[process[c]][s] = Free /\ locks' = [locks EXCEPT ![process[c]][s] = c]
  BY DEF Lock
<1>2. \A p \in Processes, t \in Sessions :
        locks'[p][t] = IF p = process[c] /\ t = s THEN c ELSE locks[p][t]
  BY <1>1 DEF TypesInv
<1>3. ASSUME NEW t \in Sessions PROVE Holds(c, t)' <=> t = s
  <2>1. ~Holds(c, t)
    BY DEF LockInv, Inside
  <2>. QED  BY <1>2, <2>1 DEF Holds, TypesInv
<1>4. ASSUME NEW d \in Clients \ {c}, NEW t \in Sessions PROVE Holds(d, t)' <=> Holds(d, t)
  BY <1>1, <1>2, NamesApart DEF Holds, TypesInv
<1>5. Inside(c)' = {s}
  <2>1. CASE pc'[c] \in Critical
    BY <2>1 DEF Inside
  <2>2. CASE pc'[c] \in Removing /\ s \in victims[c]
    <3>1. victims'[c] \subseteq Sessions
      BY DEF TypesInv
    <3>2. Inside(c)' = { t \in victims'[c] : Holds(c, t)' }
      BY <2>2 DEF Inside
    <3>. QED  BY <3>1, <3>2, <2>2, <1>3
  <2>. QED  BY <2>1, <2>2
<1>6. ASSUME NEW d \in Clients \ {c} PROVE Inside(d)' = Inside(d)
  BY <1>4 DEF Only, Inside, TypesInv
<1>7. \A p \in Processes, t \in Sessions, d \in Clients : locks'[p][t] = d => process'[d] = p
  BY <1>2 DEF LockInv
<1>8. ASSUME NEW d \in Clients, NEW t \in Sessions PROVE Holds(d, t)' <=> t \in Inside(d)'
  BY <1>3, <1>4, <1>5, <1>6 DEF LockInv
<1>9. ASSUME NEW d \in Clients, pc'[d] \in Removing PROVE \E t \in victims'[d] : Inside(d)' = {t}
  <2>1. CASE d = c
    BY <1>5, <1>9, <2>1
  <2>2. CASE d # c
    BY <1>6, <1>9, <2>2 DEF Only, LockInv
  <2>. QED  BY <2>1, <2>2
<1>. QED  BY <1>7, <1>8, <1>9 DEF LockInv

LEMMA LockFreed ==
  ASSUME TypesInv, LockInv, NEW c \in Clients, NEW s \in Sessions, Inside(c) = {s}, Unlock(c, s),
         UNCHANGED process, Only(c), pc'[c] \in Outside
  PROVE  LockInv'
<1> USE DEF Outside, Critical, Writing, Removing
<1>1. Holds(c, s)
  BY DEF LockInv
<1>2. \A p \in Processes, t \in Sessions :
        locks'[p][t] = IF p = process[c] /\ t = s THEN Free ELSE locks[p][t]
  BY DEF TypesInv, Unlock
<1>3. ASSUME NEW t \in Sessions PROVE ~Holds(c, t)'
  <2>1. Holds(c, t) => t = s
    BY DEF LockInv
  <2>. QED  BY <1>2, <2>1, NamesApart DEF Holds, TypesInv
<1>4. ASSUME NEW d \in Clients \ {c}, NEW t \in Sessions PROVE Holds(d, t)' <=> Holds(d, t)
  BY <1>1, <1>2, NamesApart DEF Holds, TypesInv
<1>5. Inside(c)' = {}
  BY DEF Inside
<1>6. ASSUME NEW d \in Clients \ {c} PROVE Inside(d)' = Inside(d)
  BY <1>4 DEF Only, Inside, TypesInv
<1>7. \A p \in Processes, t \in Sessions, d \in Clients : locks'[p][t] = d => process'[d] = p
  BY <1>2, NamesApart DEF LockInv
<1>8. ASSUME NEW d \in Clients, NEW t \in Sessions PROVE Holds(d, t)' <=> t \in Inside(d)'
  BY <1>3, <1>4, <1>5, <1>6 DEF LockInv
<1>9. ASSUME NEW d \in Clients, pc'[d] \in Removing PROVE \E t \in victims'[d] : Inside(d)' = {t}
  <2>1. d # c
    BY <1>9
  <2>. QED  BY <1>6, <1>9, <2>1 DEF Only, LockInv
<1>. QED  BY <1>7, <1>8, <1>9 DEF LockInv

(* A call that returns under its lock.                                     *)
LEMMA LockReturned ==
  ASSUME TypesInv, CallInv, LockInv, NEW c \in Clients, NEW a, Return(c, a),
         UNCHANGED <<process, victims>>, pc[c] \in Critical
  PROVE  LockInv'
<1>1. op[c] \in Calls /\ op[c].s \in Sessions
  BY DEF CallInv, Called, Calls, Critical, Writing
<1>2. Inside(c) = {op[c].s}
  BY DEF Inside, Critical, Writing
<1>3. Unlock(c, op[c].s) /\ pc'[c] \in Outside /\ Only(c)
  BY DEF Return, Goto, TypesInv, Outside, Only
<1>. QED  BY <1>1, <1>2, <1>3, LockFreed

LEMMA LockStep ==
  ASSUME TypesInv, CallInv, LockInv, Next
  PROVE  LockInv'
<1> USE DEF fixed, files, At, Goto
<1>b. ASSUME NEW c \in Clients, NEW call, Begin(c, call), pc[c] = "idle"
      PROVE  LockInv'
  BY <1>b, LockKept DEF Begin, TypesInv, Only, Outside
<1>1. ASSUME NEW c \in Clients, SaveStart(c) PROVE LockInv'
  BY <1>1, <1>b DEF SaveStart
<1>2. ASSUME NEW c \in Clients, LatestStart(c) PROVE LockInv'
  BY <1>2, <1>b DEF LatestStart
<1>3. ASSUME NEW c \in Clients, NEW s \in Sessions, CreateStart(c, s) PROVE LockInv'
  BY <1>3, <1>b DEF CreateStart
<1>4. ASSUME NEW c \in Clients, NEW s \in Sessions, LoadStart(c, s) PROVE LockInv'
  BY <1>4, <1>b DEF LoadStart
<1>5. ASSUME NEW c \in Clients, Acquire(c) PROVE LockInv'
  <2>1. op[c].s \in Sessions
    BY <1>5 DEF Acquire, CallInv, Called, Calls
  <2>2. pc[c] = "want" /\ pc'[c] \in {"dirs", "held"} /\ Only(c)
    BY <1>5 DEF Acquire, TypesInv, Only
  <2>. QED  BY <1>5, <2>1, <2>2, LockTaken DEF Acquire, Outside, Critical, Writing
<1>6. ASSUME NEW c \in Clients, CheckNew(c) PROVE LockInv'
  <2>1. CASE Exists(op[c].s)
    BY <2>1, <1>6, LockReturned DEF CheckNew, Fail, Critical
  <2>2. CASE ~Exists(op[c].s)
    BY <2>2, <1>6, LockKept DEF CheckNew, TypesInv, Only, Critical, Writing
  <2>. QED  BY <2>1, <2>2
<1>7. ASSUME NEW c \in Clients, ReadState(c) PROVE LockInv'
  <2>1. CASE state[op[c].s] = NoFile /\ legacy[op[c].s] # NoFile
    <3>1. op' = [op EXCEPT ![c].v = legacy[op[c].s]] /\ pc' = [pc EXCEPT ![c] = "dirs"]
          /\ UNCHANGED <<process, locks, victims>> /\ pc[c] = "held" /\ op[c] \in Calls
      BY <2>1, <1>7 DEF ReadState, CallInv, Called
    <3>2. op'[c].s = op[c].s /\ pc'[c] = "dirs" /\ Only(c)
      BY <3>1 DEF TypesInv, Calls, Only
    <3>. QED  BY <3>1, <3>2, LockKept DEF Critical, Writing
  <2>2. CASE ~(state[op[c].s] = NoFile /\ legacy[op[c].s] # NoFile)
    <3>1. \E a : Return(c, a)
      BY <2>2, <1>7 DEF ReadState, Fail
    <3>. QED  BY <3>1, <1>7, LockReturned DEF ReadState, Critical
  <2>. QED  BY <2>1, <2>2
<1>8. ASSUME NEW c \in Clients, MakeDirs(c) PROVE LockInv'
  BY <1>8, LockKept DEF MakeDirs, TypesInv, Only, Critical, Writing
<1>9. ASSUME NEW c \in Clients, OpenTmp(c) PROVE LockInv'
  <2>1. CASE dir[op[c].s]
    BY <2>1, <1>9, LockKept DEF OpenTmp, TypesInv, Only, Critical, Writing
  <2>2. CASE ~dir[op[c].s]
    BY <2>2, <1>9, LockReturned DEF OpenTmp, Fail, Critical, Writing
  <2>. QED  BY <2>1, <2>2
<1>10. ASSUME NEW c \in Clients, WriteTmp(c) PROVE LockInv'
  <2>1. pc[c] = "write" /\ pc'[c] \in {"replace", "rename"} /\ Only(c) /\ UNCHANGED <<process, locks, op>>
    BY <1>10 DEF WriteTmp, TypesInv, Only
  <2>. QED  BY <2>1, LockKept DEF Critical, Writing
<1>11. ASSUME NEW c \in Clients, WriteFails(c) PROVE LockInv'
  BY <1>11, LockReturned DEF WriteFails, Fail, Critical, Writing
<1>12. ASSUME NEW c \in Clients, RemoveTarget(c) PROVE LockInv'
  BY <1>12, LockKept DEF RemoveTarget, TypesInv, Only, Critical, Writing
<1>13. ASSUME NEW c \in Clients, Rename(c) PROVE LockInv'
  <2>1. CASE tmp[op[c].s] = NoFile
    BY <2>1, <1>13, LockReturned DEF Rename, Fail, Critical, Writing
  <2>2. CASE tmp[op[c].s] # NoFile
    <3>1. pc[c] = "rename" /\ Unlock(c, op[c].s) /\ UNCHANGED <<process, victims>>
      BY <2>2, <1>13 DEF Rename
    <3>2. pc'[c] \in {"list", "idle"} /\ Only(c)
      BY <2>2, <1>13 DEF Rename, TypesInv, Only
    <3>3. op[c].s \in Sessions /\ Inside(c) = {op[c].s}
      BY <3>1 DEF CallInv, Called, Calls, Inside
    <3>. QED  BY <3>1, <3>2, <3>3, LockFreed DEF Outside
  <2>. QED  BY <2>1, <2>2
<1>14. ASSUME NEW c \in Clients, ListOld(c) PROVE LockInv'
  <2>1. pc[c] = "list" /\ pc'[c] \in {"idle", "wantVictim"} /\ Only(c) /\ UNCHANGED <<process, locks>>
    BY <1>14 DEF ListOld, EndCreate, TypesInv, Only
  <2>. QED  BY <2>1, LockKept DEF Outside
<1>15. ASSUME NEW c \in Clients, NEW s \in Sessions, LockVictim(c, s) PROVE LockInv'
  BY <1>15, LockTaken DEF LockVictim, TypesInv, Only, Outside, Removing
<1>16. ASSUME NEW c \in Clients, NEW s \in Sessions, RemoveFiles(c, s) PROVE LockInv'
  BY <1>16, LockKept DEF RemoveFiles, TypesInv, Only, Removing
<1>17. ASSUME NEW c \in Clients, NEW s \in Sessions, RemoveDir(c, s) PROVE LockInv'
  <2>1. Inside(c) = {s}
    BY <1>17 DEF RemoveDir, LockInv, Inside, Removing
  <2>2. pc'[c] \in {"idle", "wantVictim"} /\ Only(c) /\ Unlock(c, s) /\ UNCHANGED process
    BY <1>17 DEF RemoveDir, EndCreate, TypesInv, Only
  <2>. QED  BY <2>1, <2>2, LockFreed DEF Outside
<1>18. ASSUME NEW p \in Processes, Crash(p) PROVE LockInv'
  <2>1. \A q \in Processes, s \in Sessions : locks'[q][s] = IF q = p THEN Free ELSE locks[q][s]
    BY <1>18 DEF Crash, TypesInv
  <2>2. ASSUME NEW c \in Clients PROVE
          IF process[c] = p THEN pc'[c] = "idle"
          ELSE pc'[c] = pc[c] /\ op'[c] = op[c] /\ victims'[c] = victims[c]
    BY <1>18 DEF Crash
  <2>3. process' = process
    BY <1>18 DEF Crash
  <2>4. ASSUME NEW c \in Clients, NEW s \in Sessions
        PROVE  Holds(c, s)' <=> Holds(c, s) /\ process[c] # p
    BY <2>1, <2>3, NamesApart DEF Holds, TypesInv
  <2>5. ASSUME NEW c \in Clients, process[c] = p PROVE Inside(c)' = {}
    BY <2>2, <2>5 DEF Inside
  <2>6. ASSUME NEW c \in Clients, process[c] # p PROVE Inside(c)' = Inside(c)
    BY <2>2, <2>4, <2>6 DEF Inside, TypesInv
  <2>7. \A q \in Processes, s \in Sessions, c \in Clients : locks'[q][s] = c => process'[c] = q
    BY <2>1, <2>3, NamesApart DEF LockInv
  <2>8. ASSUME NEW c \in Clients, NEW s \in Sessions PROVE Holds(c, s)' <=> s \in Inside(c)'
    BY <2>4, <2>5, <2>6 DEF LockInv
  <2>9. ASSUME NEW c \in Clients, pc'[c] \in Removing PROVE \E s \in victims'[c] : Inside(c)' = {s}
    BY <2>2, <2>6, <2>9 DEF LockInv, Removing
  <2>. QED  BY <2>7, <2>8, <2>9 DEF LockInv
<1>. QED
  BY <1>1, <1>2, <1>3, <1>4, <1>5, <1>6, <1>7, <1>8, <1>9, <1>10, <1>11, <1>12, <1>13, <1>14,
     <1>15, <1>16, <1>17, <1>18 DEF Next, Call, Step

LEMMA DirStep ==
  ASSUME TypesInv, CallInv, DirInv, Next
  PROVE  DirInv'
<1> USE DEF fixed, files, At, Goto
<1>u. ASSUME UNCHANGED <<dir, state, tmp>> PROVE DirInv'
  BY <1>u DEF DirInv
<1>1. ASSUME NEW c \in Clients, Call(c) PROVE DirInv'
  BY <1>1, <1>u DEF Call, SaveStart, LatestStart, CreateStart, LoadStart, Begin
<1>2. ASSUME NEW c \in Clients, Acquire(c) \/ CheckNew(c) \/ ReadState(c) \/ WriteFails(c) \/ ListOld(c)
      PROVE  DirInv'
  BY <1>2, <1>u DEF Acquire, CheckNew, ReadState, WriteFails, ListOld
<1>3. ASSUME NEW c \in Clients, NEW s \in Sessions, LockVictim(c, s) PROVE DirInv'
  BY <1>3, <1>u DEF LockVictim
<1>4. ASSUME NEW p \in Processes, Crash(p) PROVE DirInv'
  BY <1>4, <1>u DEF Crash
<1>5. ASSUME NEW c \in Clients, MakeDirs(c) PROVE DirInv'
  BY <1>5 DEF MakeDirs, TypesInv, DirInv
<1>6. ASSUME NEW c \in Clients, OpenTmp(c) PROVE DirInv'
  BY <1>6, <1>u DEF OpenTmp, TypesInv, DirInv
<1>7. ASSUME NEW c \in Clients, WriteTmp(c) PROVE DirInv'
  <2>1. op[c].s \in Sessions /\ (handle[c] = "tmp" => tmp[op[c].s] # NoFile)
                             /\ (handle[c] = "state" => state[op[c].s] # NoFile)
    BY <1>7 DEF WriteTmp, CallInv, Called, Calls
  <2>. QED  BY <1>7, <2>1 DEF WriteTmp, TypesInv, DirInv
<1>8. ASSUME NEW c \in Clients, RemoveTarget(c) PROVE DirInv'
  BY <1>8 DEF RemoveTarget, TypesInv, DirInv
<1>9. ASSUME NEW c \in Clients, Rename(c) PROVE DirInv'
  <2>1. CASE tmp[op[c].s] = NoFile
    BY <1>9, <1>u, <2>1 DEF Rename
  <2>2. CASE tmp[op[c].s] # NoFile
    BY <1>9, <2>2 DEF Rename, TypesInv, DirInv
  <2>. QED  BY <2>1, <2>2
<1>10. ASSUME NEW c \in Clients, NEW s \in Sessions, RemoveFiles(c, s) PROVE DirInv'
  BY <1>10 DEF RemoveFiles, TypesInv, DirInv
<1>11. ASSUME NEW c \in Clients, NEW s \in Sessions, RemoveDir(c, s) PROVE DirInv'
  BY <1>11 DEF RemoveDir, TypesInv, DirInv
<1>. QED
  BY <1>1, <1>2, <1>3, <1>4, <1>5, <1>6, <1>7, <1>8, <1>9, <1>10, <1>11 DEF Next, Step

LEMMA OthersHold ==
  ASSUME TypesInv, NEW c \in Clients, UNCHANGED process,
         locks' = locks \/ \E s \in Sessions : Lock(c, s) \/ Unlock(c, s)
  PROVE  \A d \in Clients \ {c}, t \in Sessions : Holds(d, t)' => Holds(d, t)
<1> SUFFICES ASSUME NEW d \in Clients \ {c}, NEW t \in Sessions, Holds(d, t)' PROVE Holds(d, t)
  OBVIOUS
<1>1. CASE locks' = locks
  BY <1>1 DEF Holds
<1>2. ASSUME NEW s \in Sessions, Lock(c, s) \/ Unlock(c, s) PROVE Holds(d, t)
  BY <1>2, NamesApart DEF Holds, Lock, Unlock, TypesInv
<1>. QED  BY <1>1, <1>2

LEMMA AloneKept ==
  ASSUME NEW s \in Sessions, Alone(s), state'[s] = state[s], tmp'[s] = tmp[s],
         UNCHANGED <<legacy, windows>>,
         \A d \in Clients : Holds(d, s)' =>
           Holds(d, s) /\ pc'[d] = pc[d] /\ op'[d] = op[d] /\ handle'[d] = handle[d]
  PROVE  Alone(s)'
BY DEF Alone, AtWork, InGap, At

LEMMA AloneMine ==
  ASSUME NEW s \in Sessions, NEW c \in Clients, Alone(s), Holds(c, s),
         \A d \in Clients \ {c} : Holds(d, s)' => Holds(d, s),
         state'[s] \in Values \cup {NoFile}, Holds(c, s)' => AtWork(c, s)'
  PROVE  Alone(s)'
<1>1. \A d \in Clients : Holds(d, s)' => d = c
  BY DEF Alone
<1>2. (\A d \in Clients : Holds(d, s) => AtWork(d, s))'
  BY <1>1
<1>3. (\A d, e \in Clients : Holds(d, s) /\ Holds(e, s) => d = e)'
  BY <1>1
<1>. QED  BY <1>2, <1>3 DEF Alone, Values

(* A step of c that ends, or does not touch, a critical section.           *)
LEMMA AloneLeft ==
  ASSUME TypesInv, LockInv, LockInv', NEW c \in Clients, pc'[c] \in Outside,
         UNCHANGED <<process, windows, legacy, state, tmp>>,
         locks' = locks \/ \E s \in Sessions : Unlock(c, s),
         \A d \in Clients \ {c} : pc'[d] = pc[d] /\ op'[d] = op[d] /\ handle'[d] = handle[d]
  PROVE  \A s \in Sessions : Alone(s) => Alone(s)'
<1> SUFFICES ASSUME NEW s \in Sessions, Alone(s) PROVE Alone(s)'
  OBVIOUS
<1>1. ~Holds(c, s)'
  BY DEF LockInv, Inside, Outside
<1>2. \A d \in Clients \ {c} : Holds(d, s)' => Holds(d, s)
  BY OthersHold
<1>. QED  BY <1>1, <1>2, AloneKept

LEMMA AloneReturned ==
  ASSUME TypesInv, CallInv, LockInv, LockInv', NEW c \in Clients, NEW a, Return(c, a), pc[c] \in Critical,
         UNCHANGED <<process, windows, legacy, state, tmp>>
  PROVE  \A s \in Sessions : Alone(s) => Alone(s)'
<1>1. op[c].s \in Sessions
  BY DEF CallInv, Called, Calls, Critical, Writing
<1>2. pc'[c] \in Outside /\ Unlock(c, op[c].s)
      /\ \A d \in Clients \ {c} : pc'[d] = pc[d] /\ op'[d] = op[d] /\ handle'[d] = handle[d]
  BY DEF Return, Goto, TypesInv, Outside
<1>. QED  BY <1>1, <1>2, AloneLeft

(* A step of c that enters the critical section of s.                      *)
LEMMA AloneEntered ==
  ASSUME TypesInv, LockInv, LockInv', NEW c \in Clients, NEW s \in Sessions, Lock(c, s),
         UNCHANGED <<process, windows, legacy, state, tmp, op, handle>>,
         \A d \in Clients \ {c} : pc'[d] = pc[d],
         pc[c] \in Outside, pc'[c] \in {"dirs", "held", "removeFiles"},
         pc'[c] = "dirs" => op[c].kind = "save"
  PROVE  \A t \in Sessions \ shared' : Alone(t) => Alone(t)'
<1> SUFFICES ASSUME NEW t \in Sessions \ shared', Alone(t) PROVE Alone(t)'
  OBVIOUS
<1>1. \A d \in Clients \ {c} : Holds(d, t)' => Holds(d, t)
  BY OthersHold
<1>2. CASE t = s
  <2>1. \A d \in Clients : ~Holds(d, s)
    BY <1>2 DEF Lock
  <2>2. \A d \in Clients \ {c} : ~Holds(d, s)'
    BY <1>1, <1>2, <2>1
  <2>3. AtWork(c, s)'
    BY DEF AtWork, InGap, At, Writing
  <2>4. (\A d \in Clients : Holds(d, t) => AtWork(d, t))'
    BY <1>2, <2>2, <2>3
  <2>5. (\A d, e \in Clients : Holds(d, t) /\ Holds(e, t) => d = e)'
    BY <1>2, <2>2
  <2>. QED  BY <2>4, <2>5 DEF Alone, Values
<1>3. CASE t # s
  <2>1. ~Holds(c, t)
    BY DEF LockInv, Inside, Outside
  <2>2. ~Holds(c, t)'
    BY <1>3, <2>1 DEF Lock, Holds, TypesInv
  <2>. QED  BY <1>1, <2>2, AloneKept
<1>. QED  BY <1>2, <1>3

(* A step of c inside the critical section of s, at its files.             *)
LEMMA AloneInside ==
  ASSUME TypesInv, CallInv, LockInv, LockInv', NEW c \in Clients, NEW s \in Sessions, Inside(c) = {s},
         Inside(c)' \subseteq {s},
         UNCHANGED <<process, windows, legacy>>,
         locks' = locks \/ Unlock(c, s),
         \A d \in Clients \ {c} : pc'[d] = pc[d] /\ op'[d] = op[d],
         \A d \in Clients \ {c} : op[d].s # s \/ handle[d] = "none" => handle'[d] = handle[d],
         \A t \in Sessions \ {s} : state'[t] = state[t] /\ tmp'[t] = tmp[t],
         Alone(s) => state'[s] \in Values \cup {NoFile} /\ (Holds(c, s)' => AtWork(c, s)')
  PROVE  \A t \in Sessions : Alone(t) => Alone(t)'
<1>1. Holds(c, s)
  BY DEF LockInv
<1>2. \A d \in Clients \ {c}, t \in Sessions : Holds(d, t)' => Holds(d, t)
  BY OthersHold
<1> SUFFICES ASSUME NEW t \in Sessions, Alone(t) PROVE Alone(t)'
  OBVIOUS
<1>3. CASE t = s
  BY <1>1, <1>2, <1>3, AloneMine
<1>4. CASE t # s
  <2>1. ~Holds(c, t)'
    BY <1>4 DEF LockInv
  <2>2. ASSUME NEW d \in Clients \ {c}, Holds(d, t)
        PROVE  op[d].s # s \/ handle[d] = "none"
    <3>1. t \in Inside(d)
      BY <2>2 DEF LockInv
    <3>2. handle[d] # "none" => pc[d] = "write"
      BY DEF CallInv, Called
    <3>. QED  BY <1>4, <3>1, <3>2 DEF Inside
  <2>. QED  BY <1>2, <1>4, <2>1, <2>2, AloneKept
<1>. QED  BY <1>3, <1>4

LEMMA SharedGrows ==
  ASSUME Next PROVE shared \subseteq shared'
<1>1. ASSUME NEW c \in Clients, Call(c) PROVE shared \subseteq shared'
  BY <1>1 DEF Call, SaveStart, LatestStart, CreateStart, LoadStart, Begin
<1>2. ASSUME NEW c \in Clients, Acquire(c) PROVE shared \subseteq shared'
  BY <1>2 DEF Acquire, Lock
<1>3. ASSUME NEW c \in Clients, NEW s \in Sessions, LockVictim(c, s) PROVE shared \subseteq shared'
  BY <1>3 DEF LockVictim, Lock
<1>4. ASSUME NEW c \in Clients,
             CheckNew(c) \/ ReadState(c) \/ MakeDirs(c) \/ OpenTmp(c) \/ WriteTmp(c) \/ WriteFails(c)
             \/ RemoveTarget(c) \/ Rename(c) \/ ListOld(c)
      PROVE  shared' = shared
  BY <1>4 DEF CheckNew, ReadState, MakeDirs, OpenTmp, WriteTmp, WriteFails, RemoveTarget, Rename, ListOld
<1>5. ASSUME NEW c \in Clients, NEW s \in Sessions, RemoveFiles(c, s) \/ RemoveDir(c, s)
      PROVE  shared' = shared
  BY <1>5 DEF RemoveFiles, RemoveDir
<1>6. ASSUME NEW p \in Processes, Crash(p) PROVE shared \subseteq shared'
  BY <1>6 DEF Crash
<1>. QED
  BY <1>1, <1>2, <1>3, <1>4, <1>5, <1>6 DEF Next, Step

LEMMA AloneStep ==
  ASSUME TypesInv, CallInv, LockInv, LockInv', AloneInv, Next
  PROVE  AloneInv'
<1> USE DEF fixed, files, At, Goto
<1> DEFINE Stay == \A s \in Sessions \ shared' : Alone(s) => Alone(s)'
<1> SUFFICES Stay
  BY SharedGrows DEF AloneInv
<1>b. ASSUME NEW c \in Clients, NEW call, Begin(c, call) PROVE Stay
  <2>1. pc'[c] \in Outside /\ locks' = locks
        /\ \A d \in Clients \ {c} : pc'[d] = pc[d] /\ op'[d] = op[d] /\ handle'[d] = handle[d]
    BY <1>b DEF Begin, TypesInv, Outside
  <2>. QED  BY <1>b, <2>1, AloneLeft DEF Begin
<1>1. ASSUME NEW c \in Clients, Call(c) PROVE Stay
  BY <1>1, <1>b DEF Call, SaveStart, LatestStart, CreateStart, LoadStart
<1>c. ASSUME NEW c \in Clients, pc[c] \in Critical
      PROVE  Inside(c) = {op[c].s} /\ op[c].s \in Sessions /\ op[c] \in Calls
  BY <1>c DEF Inside, Critical, Writing, CallInv, Called, Calls
<1>2. ASSUME NEW c \in Clients, Acquire(c) PROVE Stay
  <2>1. op[c].s \in Sessions /\ pc[c] \in Outside
    BY <1>2 DEF Acquire, CallInv, Called, Calls, Outside
  <2>2. /\ pc' = [pc EXCEPT ![c] = IF op[c].kind = "save" THEN "dirs" ELSE "held"]
        /\ Lock(c, op[c].s) /\ UNCHANGED <<process, windows, legacy, state, tmp, op, handle>>
    BY <1>2 DEF Acquire
  <2>3. /\ \A d \in Clients \ {c} : pc'[d] = pc[d]
        /\ pc'[c] \in {"dirs", "held", "removeFiles"} /\ (pc'[c] = "dirs" => op[c].kind = "save")
    BY <2>2 DEF TypesInv
  <2>. QED  BY <2>1, <2>2, <2>3, AloneEntered
<1>3. ASSUME NEW c \in Clients, CheckNew(c) PROVE Stay
  <2>0. pc[c] \in Critical
    BY <1>3 DEF CheckNew, Critical
  <2>1. CASE Exists(op[c].s)
    BY <2>0, <2>1, <1>3, AloneReturned DEF CheckNew, Fail
  <2>2. CASE ~Exists(op[c].s)
    <3>1. /\ UNCHANGED <<process, windows, legacy, state, tmp, locks, op, handle>>
          /\ pc' = [pc EXCEPT ![c] = "dirs"] /\ op[c].kind = "create"
      BY <2>2, <1>3 DEF CheckNew
    <3>2. pc'[c] = "dirs" /\ \A d \in Clients \ {c} : pc'[d] = pc[d]
      BY <3>1 DEF TypesInv
    <3>3. Inside(c)' = {op[c].s}
      BY <3>1, <3>2 DEF Inside
    <3>4. AtWork(c, op[c].s)'
      BY <2>2, <3>1, <3>2 DEF AtWork, InGap, Exists
    <3>5. Alone(op[c].s) => state'[op[c].s] \in Values \cup {NoFile}
      BY <3>1 DEF Alone
    <3>. QED  BY <1>c, <2>0, <3>1, <3>2, <3>3, <3>4, <3>5, AloneInside
  <2>. QED  BY <2>1, <2>2
<1>4. ASSUME NEW c \in Clients, ReadState(c) PROVE Stay
  <2>0. pc[c] \in Critical /\ pc[c] = "held" /\ op[c].kind = "load"
    BY <1>4 DEF ReadState, Critical
  <2>1. CASE state[op[c].s] = NoFile /\ legacy[op[c].s] # NoFile
    <3>1. /\ UNCHANGED <<process, windows, legacy, state, tmp, locks, handle>>
          /\ op' = [op EXCEPT ![c].v = legacy[op[c].s]] /\ pc' = [pc EXCEPT ![c] = "dirs"]
      BY <2>1, <1>4 DEF ReadState
    <3>2. pc'[c] = "dirs" /\ \A d \in Clients \ {c} : pc'[d] = pc[d] /\ op'[d] = op[d]
      BY <3>1 DEF TypesInv
    <3>3. op'[c].s = op[c].s /\ op'[c].v = legacy[op[c].s] /\ op'[c].kind = "load"
      BY <1>c, <2>0, <3>1 DEF TypesInv, Calls
    <3>4. Inside(c)' = {op[c].s}
      BY <3>2, <3>3 DEF Inside
    <3>5. AtWork(c, op[c].s)'
      BY <2>1, <3>1, <3>2, <3>3 DEF AtWork, InGap
    <3>6. Alone(op[c].s) => state'[op[c].s] \in Values \cup {NoFile}
      BY <3>1 DEF Alone
    <3>. QED  BY <1>c, <2>0, <3>1, <3>2, <3>4, <3>5, <3>6, AloneInside
  <2>2. CASE ~(state[op[c].s] = NoFile /\ legacy[op[c].s] # NoFile)
    <3>1. \E a : Return(c, a)
      BY <2>2, <1>4 DEF ReadState, Fail
    <3>. QED  BY <2>0, <3>1, <1>4, AloneReturned DEF ReadState
  <2>. QED  BY <2>1, <2>2
<1>5. ASSUME NEW c \in Clients, MakeDirs(c) PROVE Stay
  <2>1. /\ UNCHANGED <<process, windows, legacy, state, tmp, locks, op, handle>>
        /\ pc' = [pc EXCEPT ![c] = "open"] /\ pc[c] = "dirs" /\ pc[c] \in Critical
    BY <1>5 DEF MakeDirs, Critical, Writing
  <2>2. pc'[c] = "open" /\ \A d \in Clients \ {c} : pc'[d] = pc[d]
    BY <2>1 DEF TypesInv
  <2>3. Inside(c)' = {op[c].s}
    BY <2>1, <2>2 DEF Inside
  <2>4. Alone(op[c].s) => AtWork(c, op[c].s)
    BY <1>c, <2>1 DEF Alone, LockInv
  <2>5. Alone(op[c].s) => state'[op[c].s] \in Values \cup {NoFile} /\ AtWork(c, op[c].s)'
    BY <2>1, <2>2, <2>4 DEF AtWork, InGap, Alone, Writing
  <2>. QED  BY <1>c, <2>1, <2>2, <2>3, <2>5, AloneInside
<1>6. ASSUME NEW c \in Clients, OpenTmp(c) PROVE Stay
  <2>0. pc[c] \in Critical /\ pc[c] = "open"
    BY <1>6 DEF OpenTmp, Critical, Writing
  <2>1. CASE dir[op[c].s]
    <3>1. /\ UNCHANGED <<process, windows, legacy, state, locks, op>>
          /\ pc' = [pc EXCEPT ![c] = "write"] /\ tmp' = [tmp EXCEPT ![op[c].s] = Empty]
          /\ handle' = [handle EXCEPT ![c] = "tmp"]
      BY <2>1, <1>6 DEF OpenTmp
    <3>2. /\ pc'[c] = "write" /\ handle'[c] = "tmp" /\ tmp'[op[c].s] = Empty
          /\ \A d \in Clients \ {c} : pc'[d] = pc[d] /\ handle'[d] = handle[d]
          /\ \A t \in Sessions \ {op[c].s} : tmp'[t] = tmp[t]
      BY <1>c, <2>0, <3>1 DEF TypesInv
    <3>3. Inside(c)' = {op[c].s}
      BY <3>1, <3>2 DEF Inside
    <3>4. Alone(op[c].s) => AtWork(c, op[c].s)
      BY <1>c, <2>0 DEF Alone, LockInv
    <3>5. Alone(op[c].s) => state'[op[c].s] \in Values \cup {NoFile} /\ AtWork(c, op[c].s)'
      BY <2>0, <3>1, <3>2, <3>4 DEF AtWork, InGap, Alone, Writing
    <3>. QED  BY <1>c, <2>0, <3>1, <3>2, <3>3, <3>5, AloneInside
  <2>2. CASE ~dir[op[c].s]
    BY <2>0, <2>2, <1>6, AloneReturned DEF OpenTmp, Fail
  <2>. QED  BY <2>1, <2>2
<1>7. ASSUME NEW c \in Clients, WriteTmp(c) PROVE Stay
  <2>1. /\ UNCHANGED <<process, windows, legacy, locks, op>> /\ pc[c] = "write" /\ pc[c] \in Critical
        /\ pc' = [pc EXCEPT ![c] = IF windows THEN "replace" ELSE "rename"]
        /\ handle' = [handle EXCEPT ![c] = "none"]
    BY <1>7 DEF WriteTmp, Critical, Writing
  <2>2. /\ pc'[c] \in {"replace", "rename"} /\ (windows => pc'[c] = "replace")
        /\ \A d \in Clients \ {c} : pc'[d] = pc[d] /\ handle'[d] = handle[d]
    BY <2>1 DEF TypesInv
  <2>3. Inside(c)' = {op[c].s}
    BY <2>1, <2>2 DEF Inside
  <2>4. \A t \in Sessions \ {op[c].s} : state'[t] = state[t] /\ tmp'[t] = tmp[t]
    BY <1>c, <2>1, <1>7 DEF WriteTmp, TypesInv
  <2>5. Alone(op[c].s) => AtWork(c, op[c].s)
    BY <1>c, <2>1 DEF Alone, LockInv
  <2>6. Alone(op[c].s) => tmp' = [tmp EXCEPT ![op[c].s] = op[c].v] /\ state' = state
    BY <2>1, <2>5, <1>7 DEF AtWork, WriteTmp, Written
  <2>7. Alone(op[c].s) => state'[op[c].s] \in Values \cup {NoFile} /\ AtWork(c, op[c].s)'
    <3> SUFFICES ASSUME Alone(op[c].s) PROVE state'[op[c].s] \in Values \cup {NoFile} /\ AtWork(c, op[c].s)'
      OBVIOUS
    <3>1. tmp'[op[c].s] = op[c].v
      BY <1>c, <2>1, <2>6 DEF TypesInv
    <3>. QED  BY <2>1, <2>2, <2>5, <2>6, <3>1 DEF AtWork, InGap, Alone, Writing
  <2>. QED  BY <1>c, <2>1, <2>2, <2>3, <2>4, <2>7, AloneInside
<1>8. ASSUME NEW c \in Clients, WriteFails(c) PROVE Stay
  BY <1>8, AloneReturned DEF WriteFails, Fail, Critical, Writing
<1>9. ASSUME NEW c \in Clients, RemoveTarget(c) PROVE Stay
  <2>1. /\ UNCHANGED <<process, windows, legacy, locks, op, tmp>> /\ pc[c] = "replace" /\ pc[c] \in Critical
        /\ pc' = [pc EXCEPT ![c] = "rename"] /\ state' = [state EXCEPT ![op[c].s] = NoFile]
    BY <1>9 DEF RemoveTarget, Critical, Writing
  <2>2. /\ pc'[c] = "rename" /\ state'[op[c].s] = NoFile
        /\ \A d \in Clients \ {c} : pc'[d] = pc[d]
        /\ \A t \in Sessions \ {op[c].s} : state'[t] = state[t]
    BY <1>c, <2>1 DEF TypesInv
  <2>3. Inside(c)' = {op[c].s}
    BY <2>1, <2>2 DEF Inside
  <2>4. Alone(op[c].s) => AtWork(c, op[c].s)
    BY <1>c, <2>1 DEF Alone, LockInv
  <2>5. Alone(op[c].s) => state'[op[c].s] \in Values \cup {NoFile} /\ AtWork(c, op[c].s)'
    BY <2>1, <2>2, <2>4 DEF AtWork, InGap, Alone, Writing
  <2>6. \A d \in Clients \ {c} : op[d].s # op[c].s \/ handle[d] = "none" => handle'[d] = handle[d]
    BY <1>9 DEF RemoveTarget
  <2>. QED  BY <1>c, <2>1, <2>2, <2>3, <2>5, <2>6, AloneInside
<1>10. ASSUME NEW c \in Clients, Rename(c) PROVE Stay
  <2>0. pc[c] \in Critical /\ pc[c] = "rename"
    BY <1>10 DEF Rename, Critical, Writing
  <2>1. CASE tmp[op[c].s] = NoFile
    BY <2>0, <2>1, <1>10, AloneReturned DEF Rename, Fail
  <2>2. CASE tmp[op[c].s] # NoFile
    <3>1. /\ UNCHANGED <<process, windows, legacy>> /\ Unlock(c, op[c].s)
          /\ state' = [state EXCEPT ![op[c].s] = tmp[op[c].s]] /\ tmp' = [tmp EXCEPT ![op[c].s] = NoFile]
      BY <2>2, <1>10 DEF Rename
    <3>2. /\ pc'[c] \in {"list", "idle"} /\ \A d \in Clients \ {c} : pc'[d] = pc[d] /\ op'[d] = op[d]
      BY <2>2, <1>10 DEF Rename, TypesInv
    <3>3. Inside(c)' = {}
      BY <3>2 DEF Inside
    <3>9. PICK s \in Sessions : s = op[c].s
      BY <1>c, <2>0
    <3>4. ~Holds(c, s)'
      <4>1. process[c] \in Processes /\ process' = process
        BY <3>1 DEF TypesInv
      <4>2. locks'[process[c]][s] = Free
        BY <3>1, <3>9, <4>1 DEF Unlock, TypesInv
      <4>3. locks'[process'[c]][s] # c
        BY <4>1, <4>2, NamesApart
      <4>. QED  BY <4>3 DEF Holds
    <3>5. Alone(op[c].s) => tmp[op[c].s] \in Values
      BY <1>c, <2>0 DEF Alone, LockInv, AtWork, CallInv, Called
    <3>6. Alone(op[c].s) => state'[op[c].s] \in Values \cup {NoFile}
      BY <1>c, <2>0, <3>1, <3>5 DEF TypesInv
    <3>7. \A t \in Sessions \ {op[c].s} : state'[t] = state[t] /\ tmp'[t] = tmp[t]
      BY <3>1, <1>c, <2>0 DEF TypesInv
    <3>8. \A d \in Clients \ {c} : op[d].s # op[c].s \/ handle[d] = "none" => handle'[d] = handle[d]
      BY <2>2, <1>10 DEF Rename, Moved
    <3>10. Inside(c) = {s} /\ Inside(c)' \subseteq {s} /\ Unlock(c, s) /\ ~Holds(c, s)'
      BY <1>c, <2>0, <3>1, <3>3, <3>4, <3>9
    <3>11. Alone(s) => state'[s] \in Values \cup {NoFile}
      BY <3>6, <3>9
    <3>. QED  BY <3>1, <3>2, <3>7, <3>8, <3>9, <3>10, <3>11, AloneInside
  <2>. QED  BY <2>1, <2>2
<1>11. ASSUME NEW c \in Clients, ListOld(c) PROVE Stay
  <2>1. /\ UNCHANGED <<process, windows, legacy, locks, state, tmp, handle>>
        /\ pc'[c] \in Outside /\ \A d \in Clients \ {c} : pc'[d] = pc[d] /\ op'[d] = op[d]
    BY <1>11 DEF ListOld, EndCreate, TypesInv, Outside
  <2>. QED  BY <2>1, AloneLeft
<1>12. ASSUME NEW c \in Clients, NEW s \in Sessions, LockVictim(c, s) PROVE Stay
  BY <1>12, AloneEntered DEF LockVictim, TypesInv, Outside
<1>13. ASSUME NEW c \in Clients, NEW s \in Sessions, RemoveFiles(c, s) PROVE Stay
  <2>1. /\ UNCHANGED <<process, windows, legacy, locks, op, victims>> /\ pc[c] = "removeFiles"
        /\ pc' = [pc EXCEPT ![c] = "removeDir"]
        /\ state' = [state EXCEPT ![s] = NoFile] /\ tmp' = [tmp EXCEPT ![s] = NoFile]
    BY <1>13 DEF RemoveFiles
  <2>2. /\ pc'[c] = "removeDir" /\ state'[s] = NoFile /\ tmp'[s] = NoFile
        /\ \A d \in Clients \ {c} : pc'[d] = pc[d]
        /\ \A t \in Sessions \ {s} : state'[t] = state[t] /\ tmp'[t] = tmp[t]
    BY <2>1 DEF TypesInv
  <2>3. Inside(c) = {s}
    BY <1>13 DEF RemoveFiles, LockInv, Inside, Removing
  <2>4. Inside(c)' = {s}
    BY <2>1, <2>2, <2>3 DEF Inside, Holds
  <2>5. AtWork(c, s)'
    BY <2>2 DEF AtWork, InGap, Writing
  <2>6. \A d \in Clients \ {c} : op[d].s # s \/ handle[d] = "none" => handle'[d] = handle[d]
    BY <1>13 DEF RemoveFiles
  <2>. QED  BY <2>1, <2>2, <2>3, <2>4, <2>5, <2>6, AloneInside
<1>14. ASSUME NEW c \in Clients, NEW s \in Sessions, RemoveDir(c, s) PROVE Stay
  <2>1. /\ UNCHANGED <<process, windows, legacy, state, tmp, handle>> /\ Unlock(c, s)
        /\ pc'[c] \in Outside /\ \A d \in Clients \ {c} : pc'[d] = pc[d] /\ op'[d] = op[d]
    BY <1>14 DEF RemoveDir, EndCreate, TypesInv, Outside
  <2>. QED  BY <2>1, AloneLeft
<1>15. ASSUME NEW p \in Processes, Crash(p) PROVE Stay
  <2>1. \A q \in Processes, s \in Sessions : locks'[q][s] = IF q = p THEN Free ELSE locks[q][s]
    BY <1>15 DEF Crash, TypesInv
  <2>2. ASSUME NEW c \in Clients, process[c] # p
        PROVE  pc'[c] = pc[c] /\ op'[c] = op[c] /\ handle'[c] = handle[c]
    BY <1>15, <2>2 DEF Crash
  <2>3. UNCHANGED <<process, windows, legacy, state, tmp>>
    BY <1>15 DEF Crash
  <2>4. ASSUME NEW c \in Clients, NEW s \in Sessions, Holds(c, s)'
        PROVE  Holds(c, s) /\ process[c] # p
    BY <2>1, <2>3, <2>4, NamesApart DEF Holds, TypesInv
  <2>. QED  BY <2>2, <2>3, <2>4, AloneKept
<1>. QED
  BY <1>1, <1>2, <1>3, <1>4, <1>5, <1>6, <1>7, <1>8, <1>9, <1>10, <1>11, <1>12, <1>13, <1>14,
     <1>15 DEF Next, Step

LEMMA SessionInit == Init => SessionInv
<1> SUFFICES ASSUME Init PROVE SessionInv
  OBVIOUS
<1>1. TypesInv
  BY TypesInit
<1>2. CallInv
  BY DEF Init, CallInv, Called
<1>3. LockInv
  <2>1. \A p \in Processes, s \in Sessions : locks[p][s] = Free
    BY DEF Init
  <2>2. \A c \in Clients : Inside(c) = {} /\ pc[c] = "idle"
    BY DEF Init, Inside
  <2>3. \A c \in Clients, s \in Sessions : ~Holds(c, s)
    BY <2>1, NamesApart DEF Init, Holds
  <2>. QED  BY <2>1, <2>2, <2>3, NamesApart DEF LockInv, Removing
<1>4. DirInv
  BY DEF Init, DirInv
<1>5. AloneInv
  <2>1. \A c \in Clients, s \in Sessions : ~Holds(c, s)
    BY <1>3 DEF Init, LockInv, Inside
  <2>2. Old \in Values
    BY LimitsAssumption DEF Old, Values
  <2>. QED  BY <2>1, <2>2 DEF Init, AloneInv, Alone
<1>. QED  BY <1>1, <1>2, <1>3, <1>4, <1>5 DEF SessionInv

LEMMA SessionStep ==
  ASSUME SessionInv, [Next]_vars
  PROVE  SessionInv'
<1>1. CASE Next
  BY <1>1, TypesStep, CallStep, LockStep, DirStep, AloneStep DEF SessionInv
<1>2. CASE UNCHANGED vars
  <2>1. /\ UNCHANGED <<process, windows, legacy, dir, state, tmp, clock, locks>>
        /\ UNCHANGED <<pc, op, handle, victims, mine, shared>>
    BY <1>2 DEF vars, fixed, files
  <2>2. TypesInv' /\ CallInv' /\ DirInv'
    BY <2>1 DEF SessionInv, TypesInv, CallInv, Called, DirInv
  <2>3. LockInv'
    BY <2>1 DEF SessionInv, LockInv, Holds, Inside
  <2>4. AloneInv'
    BY <2>1, AloneKept DEF SessionInv, AloneInv, Holds
  <2>. QED  BY <2>2, <2>3, <2>4 DEF SessionInv
<1>. QED  BY <1>1, <1>2

LEMMA SessionAlways == Spec => []SessionInv
BY SessionInit, SessionStep, PTL DEF Spec

(* session_locks: a lock is held exactly by the call that is in the        *)
(* critical section of its session, whatever fails and whichever process   *)
(* ends, so no call waits for a lock nobody will release; a cleanup holds  *)
(* one lock at a time, and a file is never without its directory.          *)
THEOREM LocksAreReleased == Spec => []TypeOK
<1>1. ASSUME SessionInv PROVE TypeOK
  <2>1. ASSUME NEW c \in Clients, pc[c] \in Removing PROVE Cardinality(Inside(c)) = 1
    <3>1. PICK s \in victims[c] : Inside(c) = {s}
      BY <1>1, <2>1 DEF SessionInv, LockInv
    <3>. QED  BY <3>1, FS_Singleton
  <2>. QED  BY <1>1, <2>1 DEF SessionInv, TypesInv, LockInv, DirInv, TypeOK, Removing
<1>. QED  BY <1>1, SessionAlways, PTL

LEMMA StepKeepsFixed ==
  ASSUME Next
  PROVE  UNCHANGED fixed
<1>1. ASSUME NEW c \in Clients, Call(c) PROVE UNCHANGED fixed
  BY <1>1 DEF Call, SaveStart, LatestStart, CreateStart, LoadStart, Begin
<1>2. ASSUME NEW c \in Clients, Step(c) PROVE UNCHANGED fixed
  <2>1. ASSUME NEW s \in Sessions, LockVictim(c, s) \/ RemoveFiles(c, s) \/ RemoveDir(c, s)
        PROVE  UNCHANGED fixed
    BY <2>1 DEF LockVictim, RemoveFiles, RemoveDir
  <2>2. ASSUME \/ Acquire(c) \/ CheckNew(c) \/ ReadState(c) \/ MakeDirs(c) \/ OpenTmp(c)
               \/ WriteTmp(c) \/ WriteFails(c) \/ RemoveTarget(c) \/ Rename(c) \/ ListOld(c)
        PROVE  UNCHANGED fixed
    BY <2>2 DEF Acquire, CheckNew, ReadState, MakeDirs, OpenTmp, WriteTmp, WriteFails,
                RemoveTarget, Rename, ListOld
  <2>. QED  BY <1>2, <2>1, <2>2 DEF Step
<1>3. ASSUME NEW p \in Processes, Crash(p) PROVE UNCHANGED fixed
  BY <1>3 DEF Crash
<1>. QED  BY <1>1, <1>2, <1>3 DEF Next

OneProcess == \A c, d \in Clients : process[c] = process[d]

(* Engines of one process never meet in a critical section, and outside    *)
(* Windows no crash takes a session with it: no session is ever without    *)
(* the promise of SessionRegister, which then holds of every session.      *)
THEOREM OneProcessKeepsThePromise == Spec => [](OneProcess /\ ~windows => shared = {})
<1> DEFINE Kept == OneProcess /\ ~windows => shared = {}
<1>1. Init => Kept
  BY DEF Init
<1>2. ASSUME SessionInv, Kept, [Next]_vars PROVE Kept'
  <2>1. process' = process /\ windows' = windows
    BY <1>2, StepKeepsFixed DEF vars, fixed
  <2> SUFFICES ASSUME OneProcess, ~windows, shared = {} PROVE shared' = {}
    BY <1>2, <2>1 DEF OneProcess
  <2>2. ASSUME NEW c \in Clients, NEW s \in Sessions, Lock(c, s) PROVE shared' = {}
    BY <2>2, NamesApart DEF Lock, Holds, OneProcess
  <2>3. CASE UNCHANGED vars
    BY <2>3 DEF vars
  <2>4. ASSUME NEW c \in Clients, Call(c) PROVE shared' = {}
    BY <2>4 DEF Call, SaveStart, LatestStart, CreateStart, LoadStart, Begin
  <2>5. ASSUME NEW c \in Clients, Acquire(c) PROVE shared' = {}
    <3>1. op[c].s \in Sessions
      BY <1>2, <2>5 DEF Acquire, At, SessionInv, CallInv, Called, Calls
    <3>. QED  BY <2>2, <2>5, <3>1 DEF Acquire
  <2>6. ASSUME NEW c \in Clients,
               \/ CheckNew(c) \/ ReadState(c) \/ MakeDirs(c) \/ OpenTmp(c) \/ WriteTmp(c)
               \/ WriteFails(c) \/ RemoveTarget(c) \/ Rename(c) \/ ListOld(c)
        PROVE  shared' = {}
    BY <2>6 DEF CheckNew, ReadState, MakeDirs, OpenTmp, WriteTmp, WriteFails, RemoveTarget, Rename, ListOld
  <2>7. ASSUME NEW c \in Clients, NEW s \in Sessions,
               LockVictim(c, s) \/ RemoveFiles(c, s) \/ RemoveDir(c, s)
        PROVE  shared' = {}
    BY <2>2, <2>7 DEF LockVictim, RemoveFiles, RemoveDir
  <2>8. ASSUME NEW p \in Processes, Crash(p) PROVE shared' = {}
    BY <2>8 DEF Crash, GapOf, InGap
  <2>. QED
    BY <1>2, <2>3, <2>4, <2>5, <2>6, <2>7, <2>8 DEF Next, Step
<1>. QED  BY <1>1, <1>2, SessionAlways, PTL DEF Spec

-----------------------------------------------------------------------------
(* The refinement of SessionRegister                                       *)

LEMMA VisibleStored ==
  ASSUME TypesInv, CallInv, NEW s \in Sessions
  PROVE  Visible(s) \in Values \cup {NoFile, Torn}
BY DEF TypesInv, Visible, Valid

(* What the register sees of a step of c.                                  *)
LEMMA OnlyMine ==
  ASSUME NEW c \in Clients, windows' = windows,
         \A d \in Clients \ {c} : pc'[d] = pc[d] /\ op'[d] = op[d] /\ mine'[d] = mine[d]
  PROVE  /\ Pending' = [Pending EXCEPT ![c] = Pending'[c]]
         /\ Told' = [Told EXCEPT ![c] = Told'[c]]
         /\ Pending[c] = Asked(c) /\ Pending'[c] = Asked(c)'
         /\ Told'[c] = (IF Done(c) THEN [s |-> op[c].s, v |-> op[c].v] ELSE mine[c])'
<1>1. ASSUME NEW d \in Clients \ {c} PROVE Asked(d)' = Asked(d) /\ Done(d)' = Done(d)
  BY DEF Asked, Done, InGap, At
<1>2. \A d \in Clients \ {c} : Pending'[d] = Pending[d]
  BY <1>1 DEF Pending
<1>3. \A d \in Clients \ {c} : Told'[d] = Told[d]
  BY <1>1 DEF Told
<1>4. Pending' = [d \in Clients |-> Pending'[d]] /\ Pending = [d \in Clients |-> Pending[d]]
  BY DEF Pending
<1>5. Told' = [d \in Clients |-> Told'[d]] /\ Told = [d \in Clients |-> Told[d]]
  BY DEF Told
<1>6. /\ Pending[c] = Asked(c) /\ Pending'[c] = Asked(c)'
      /\ Told'[c] = (IF Done(c) THEN [s |-> op[c].s, v |-> op[c].v] ELSE mine[c])'
  BY DEF Pending, Told
<1>7. Pending' = [Pending EXCEPT ![c] = Pending'[c]]
  BY <1>2, <1>4
<1>8. Told' = [Told EXCEPT ![c] = Told'[c]]
  BY <1>3, <1>5
<1>. QED  BY <1>6, <1>7, <1>8

LEMMA GapElsewhere ==
  ASSUME NEW c \in Clients, NEW t, windows' = windows,
         \A d \in Clients \ {c} : pc'[d] = pc[d] /\ op'[d] = op[d],
         InGap(c) => op[c].s # t, InGap(c)' => op'[c].s # t
  PROVE  t \in Gap' <=> t \in Gap
<1>1. \A d \in Clients \ {c} : InGap(d)' <=> InGap(d)
  BY DEF InGap, At
<1>2. t \in Gap <=> \E d \in Clients : InGap(d) /\ op[d].s = t
  BY DEF Gap, GapOf
<1>3. t \in Gap' <=> \E d \in Clients : InGap(d)' /\ op'[d].s = t
  BY DEF Gap, GapOf
<1>. QED  BY <1>1, <1>2, <1>3

LEMMA VisibleKept ==
  ASSUME NEW t \in Sessions, state'[t] = state[t], legacy' = legacy,
         tmp'[t] = tmp[t] \/ t \notin Gap, t \in Gap' <=> t \in Gap
  PROVE  Visible(t)' = Visible(t)
BY DEF Visible, Valid, Values

(* A step of c that moves no file across the Windows gap.                  *)
LEMMA ContentsKept ==
  ASSUME NEW c \in Clients, windows' = windows, legacy' = legacy, state' = state, tmp' = tmp,
         \A d \in Clients \ {c} : pc'[d] = pc[d] /\ op'[d] = op[d],
         ~InGap(c), ~InGap(c)'
  PROVE  Contents' = Contents
<1>1. ASSUME NEW t \in Sessions PROVE Visible(t)' = Visible(t)
  BY GapElsewhere, VisibleKept
<1>. QED  BY <1>1 DEF Contents

(* A step of c at the files of s.                                          *)
LEMMA ContentsElsewhere ==
  ASSUME NEW c \in Clients, NEW s \in Sessions, windows' = windows, legacy' = legacy,
         \A d \in Clients \ {c} : pc'[d] = pc[d] /\ op'[d] = op[d],
         \A t \in Sessions \ {s} : state'[t] = state[t] /\ tmp'[t] = tmp[t],
         InGap(c) => op[c].s = s, InGap(c)' => op'[c].s = s
  PROVE  Contents' = [Contents EXCEPT ![s] = Contents'[s]] /\ Contents'[s] = Visible(s)'
<1>1. ASSUME NEW t \in Sessions \ {s} PROVE Visible(t)' = Visible(t)
  <2>1. t \in Gap' <=> t \in Gap
    BY GapElsewhere
  <2>. QED  BY <2>1, VisibleKept
<1>2. \A t \in Sessions \ {s} : Contents'[t] = Contents[t]
  BY <1>1 DEF Contents
<1>3. Contents' = [t \in Sessions |-> Contents'[t]] /\ Contents = [t \in Sessions |-> Contents[t]]
  BY DEF Contents
<1>. QED  BY <1>2, <1>3 DEF Contents

(* Nobody is in the gap of a session one client works on alone, but it.    *)
LEMMA GapAlone ==
  ASSUME CallInv, LockInv, NEW c \in Clients, NEW s \in Sessions, Alone(s), Holds(c, s)
  PROVE  s \in Gap <=> InGap(c) /\ op[c].s = s
<1>1. ASSUME NEW d \in Clients, InGap(d), op[d].s = s PROVE d = c
  <2>1. Holds(d, s)
    BY <1>1 DEF InGap, At, Inside, LockInv
  <2>. QED  BY <2>1 DEF Alone
<1>. QED  BY <1>1 DEF Gap, GapOf

RegisterMove ==
  \/ \E c \in Clients : \/ Register!Ask(c) \/ Register!Create(c) \/ Register!Save(c)
                        \/ Register!Load(c) \/ Register!Refuse(c) \/ Register!FailsLate(c)
  \/ \E s \in Sessions : Register!Evict(s) \/ Register!Disturb(s)
  \/ \E dead \in SUBSET Clients : Register!Crash(dead)
  \/ Register!Consider

FromTo(s, w) ==
  /\ Contents' = [Contents EXCEPT ![s] = Contents'[s]]
  /\ Contents'[s] \in Values \cup {NoFile, Torn}
  /\ s \notin shared' => Contents'[s] = w

LEMMA Becoming ==
  ASSUME NEW s \in Sessions, NEW w, FromTo(s, w)
  PROVE  Register!Becomes(s, w)
BY DEF FromTo, Register!Becomes, Register!Stored, Register!NoSession, Register!Unreadable,
       Register!Marked, NoFile, Torn, Mark

Answered(c, s, v) ==
  /\ Pending' = [Pending EXCEPT ![c] = NoOp]
  /\ Told' = [Told EXCEPT ![c] = [s |-> s, v |-> v]]

LEMMA TakesEffect ==
  ASSUME NEW c \in Clients, NEW s \in Sessions, NEW v \in Values,
         Pending[c].s = s, Pending[c].kind \in {"create", "save", "load"},
         Pending[c].kind # "load" => Pending[c].v = v,
         FromTo(s, v), Answered(c, s, v),
         s \notin shared' /\ Pending[c].kind = "create" => Contents[s] = NoFile,
         s \notin shared' /\ Pending[c].kind = "load" => Contents[s] = v
  PROVE  RegisterMove
<1>1. Register!Becomes(s, v) /\ Register!Reply(c, v)
  BY Becoming DEF Answered, Register!Reply, Register!NoCall, NoOp
<1>2. CASE Pending[c].kind = "create"
  BY <1>1, <1>2 DEF RegisterMove, Register!Create, Register!NoSession, Register!Marked, NoFile, Mark
<1>3. CASE Pending[c].kind = "save"
  BY <1>1, <1>3 DEF RegisterMove, Register!Save
<1>4. CASE Pending[c].kind = "load" /\ s \notin shared'
  BY <1>1, <1>4 DEF RegisterMove, Register!Load
<1>5. CASE Pending[c].kind = "load" /\ s \in shared'
  <2>1. PICK w : w = Contents[s]
    OBVIOUS
  <2>2. Register!Becomes(s, w)
    BY <1>5, Becoming DEF FromTo
  <2>. QED  BY <1>1, <1>5, <2>1, <2>2 DEF RegisterMove, Register!Load
<1>. QED  BY <1>2, <1>3, <1>4, <1>5

LEMMA IsRefused ==
  ASSUME NEW c \in Clients, NEW s \in Sessions,
         Pending[c].s = s, Pending[c].kind \in {"create", "save", "load"},
         Contents' = Contents, Contents[s] \in Values \cup {NoFile, Torn},
         Pending' = [Pending EXCEPT ![c] = NoOp], Told' = Told,
         Pending[c].kind = "load" /\ s \notin shared' => Contents[s] \in {NoFile, legacy[s]}
  PROVE  RegisterMove
<1>1. PICK w : w = Contents[s]
  OBVIOUS
<1>2. FromTo(s, w)
  BY <1>1 DEF FromTo, Contents
<1>3. Register!Becomes(s, w)
  BY <1>2, Becoming
<1>4. Pending[c] # Register!NoCall
  BY DEF Register!NoCall
<1>5. NoFile = Register!NoSession /\ NoOp = Register!NoCall
  BY DEF NoFile, Mark, Register!NoSession, Register!Marked, NoOp, Register!NoCall
<1>6. Register!Refuse(c)
  BY <1>1, <1>3, <1>4, <1>5 DEF Register!Refuse
<1>. QED  BY <1>6 DEF RegisterMove

LEMMA IsDisturbed ==
  ASSUME NEW s \in Sessions, Pending' = Pending, Told' = Told,
         Contents' = [Contents EXCEPT ![s] = Contents'[s]],
         Contents'[s] \in Values \cup {NoFile, Torn},
         s \in shared' \/ Contents'[s] = Contents[s]
  PROVE  RegisterMove
<1>1. CASE s \in shared'
  <2>1. PICK w : w = Contents[s]
    OBVIOUS
  <2>2. Register!Becomes(s, w)
    BY <1>1, Becoming DEF FromTo
  <2>. QED  BY <1>1, <2>1, <2>2 DEF RegisterMove, Register!Disturb
<1>2. CASE Contents'[s] = Contents[s]
  <2>1. Contents' = Contents
    BY <1>2 DEF Contents
  <2>. QED  BY <2>1 DEF RegisterMove, Register!Consider
<1>. QED  BY <1>1, <1>2

LEMMA IsQuiet ==
  ASSUME Pending' = Pending, Told' = Told, Contents' = Contents
  PROVE  RegisterMove
BY DEF RegisterMove, Register!Consider

LEMMA ContentsStored ==
  ASSUME SessionInv
  PROVE  \A s \in Sessions : Contents[s] = Visible(s) /\ Contents[s] \in Values \cup {NoFile, Torn}
BY VisibleStored DEF SessionInv, Contents

(* The call of c as long as it has not taken effect.                       *)
LEMMA PendingCall ==
  ASSUME SessionInv, NEW c \in Clients, pc[c] \in {"want"} \cup Critical, ~InGap(c)
  PROVE  /\ op[c] \in Calls /\ op[c].s \in Sessions
         /\ Pending[c] = IF op[c].kind = "load" THEN [op[c] EXCEPT !.v = NoFile] ELSE op[c]
         /\ Pending[c].s = op[c].s /\ Pending[c].kind = op[c].kind
         /\ Pending[c].kind \in {"create", "save", "load"}
         /\ op[c].kind # "load" => Pending[c].v = op[c].v
         /\ Told[c] = mine[c]
<1>1. op[c] \in Calls /\ op[c].s \in Sessions
  BY DEF SessionInv, CallInv, Called, Calls, Critical, Writing
<1>2. Pending[c] = IF op[c].kind = "load" THEN [op[c] EXCEPT !.v = NoFile] ELSE op[c]
  BY DEF Pending, Asked, Critical, Writing
<1>3. ~Done(c)
  BY DEF Done, Critical, Writing
<1>4. Told[c] = mine[c]
  BY <1>3 DEF Told
<1>. QED  BY <1>1, <1>2, <1>4 DEF Calls

LEMMA RefusedMaps ==
  ASSUME SessionInv, Next, NEW c \in Clients, Return(c, Failed), pc[c] \in Critical, ~InGap(c),
         UNCHANGED <<state, tmp>>,
         op[c].kind = "load" /\ op[c].s \notin shared => Visible(op[c].s) \in {NoFile, legacy[op[c].s]}
  PROVE  RegisterMove
<1>1. windows' = windows /\ legacy' = legacy
  BY StepKeepsFixed DEF fixed
<1>2. pc'[c] = "idle" /\ mine' = mine
      /\ \A d \in Clients \ {c} : pc'[d] = pc[d] /\ op'[d] = op[d] /\ mine'[d] = mine[d]
  BY NamesApart DEF Return, Goto, SessionInv, TypesInv
<1>3. ~InGap(c)' /\ ~Done(c)' /\ Asked(c)' = NoOp
  BY <1>2 DEF InGap, At, Done, Asked
<1>4. Contents' = Contents
  BY <1>1, <1>2, <1>3, ContentsKept
<1>5. Pending' = [Pending EXCEPT ![c] = NoOp] /\ Told' = [Told EXCEPT ![c] = mine[c]]
  BY <1>1, <1>2, <1>3, OnlyMine
<1>6. Told' = Told
  BY <1>5, PendingCall DEF Told
<1>7. PICK s \in Sessions : s = op[c].s
  BY PendingCall
<1>8. Pending[c].kind = "load" /\ s \notin shared' => Contents[s] \in {NoFile, legacy[s]}
  BY <1>7, SharedGrows, PendingCall, ContentsStored
<1>. QED  BY <1>4, <1>5, <1>6, <1>7, <1>8, PendingCall, ContentsStored, IsRefused

(* A step of c that the register does not see.                             *)
LEMMA QuietMaps ==
  ASSUME SessionInv, Next, NEW c \in Clients, UNCHANGED <<state, tmp>>, ~InGap(c), ~InGap(c)',
         Asked(c)' = Asked(c), (IF Done(c) THEN [s |-> op[c].s, v |-> op[c].v] ELSE mine[c])' = Told[c],
         \A d \in Clients \ {c} : pc'[d] = pc[d] /\ op'[d] = op[d] /\ mine'[d] = mine[d]
  PROVE  RegisterMove
<1>1. windows' = windows /\ legacy' = legacy
  BY StepKeepsFixed DEF fixed
<1>2. Contents' = Contents
  BY <1>1, ContentsKept
<1>3. Pending' = [Pending EXCEPT ![c] = Pending[c]] /\ Told' = [Told EXCEPT ![c] = Told[c]]
  BY <1>1, OnlyMine
<1>4. Pending' = Pending /\ Told' = Told
  BY <1>3 DEF Pending, Told
<1>. QED  BY <1>2, <1>4, IsQuiet

LEMMA BeginMaps ==
  ASSUME SessionInv, SessionInv', Next, NEW c \in Clients, NEW call, Begin(c, call), pc[c] = "idle",
         call.kind = "load" => call.v = NoFile
  PROVE  RegisterMove
<1>1. windows' = windows /\ legacy' = legacy /\ UNCHANGED <<state, tmp, mine>>
  BY StepKeepsFixed DEF fixed, files, Begin
<1>2. /\ pc'[c] = "want" /\ op'[c] = call
      /\ \A d \in Clients \ {c} : pc'[d] = pc[d] /\ op'[d] = op[d] /\ mine'[d] = mine[d]
  BY DEF Begin, Goto, SessionInv, TypesInv
<1>3. call \in Calls
  BY <1>2 DEF SessionInv, CallInv, Called
<1>4. /\ ~InGap(c) /\ ~Done(c) /\ Asked(c) = NoOp
      /\ ~InGap(c)' /\ ~Done(c)' /\ Asked(c)' = IF call.kind = "load" THEN [call EXCEPT !.v = NoFile] ELSE call
  BY <1>2 DEF InGap, At, Done, Asked
<1>5. Asked(c)' \in Calls
  BY <1>3, <1>4 DEF Calls
<1>6. Contents' = Contents
  BY <1>1, <1>2, <1>4, ContentsKept
<1>7. /\ Pending[c] = NoOp /\ Pending'[c] \in Calls /\ Pending' = [Pending EXCEPT ![c] = Pending'[c]]
      /\ Told' = [Told EXCEPT ![c] = Told[c]]
  BY <1>1, <1>2, <1>4, <1>5, OnlyMine DEF Told
<1>8. Told' = Told
  BY <1>7 DEF Told
<1>9. NoOp = Register!NoCall /\ Calls = Register!Calls
  BY DEF NoOp, Register!NoCall, Calls, Register!Calls, NoFile, Mark, Register!NoSession, Register!Marked
<1>10. Register!Ask(c)
  BY <1>6, <1>7, <1>8, <1>9 DEF Register!Ask
<1>. QED  BY <1>10 DEF RegisterMove

(* A session without company, while c works on it.                         *)
LEMMA AtWorkAlone ==
  ASSUME SessionInv, NEW c \in Clients, NEW s \in Sessions, pc[c] \in Critical, op[c].s = s, s \notin shared
  PROVE  /\ Alone(s) /\ Holds(c, s) /\ AtWork(c, s)
         /\ s \in Gap <=> InGap(c)
         /\ pc[c] \in Writing /\ ~InGap(c) /\ op[c].kind = "create" => Visible(s) = NoFile
         /\ pc[c] \in Writing /\ ~InGap(c) /\ op[c].kind = "load" => Visible(s) = legacy[s] /\ Visible(s) = op[c].v
<1>1. s \in Inside(c)
  BY DEF Inside, Critical, Writing
<1>2. Alone(s) /\ Holds(c, s)
  BY <1>1 DEF SessionInv, LockInv, AloneInv
<1>3. AtWork(c, s)
  BY <1>2 DEF Alone
<1>4. s \in Gap <=> InGap(c)
  BY <1>2, GapAlone DEF SessionInv
<1>. QED  BY <1>2, <1>3, <1>4 DEF AtWork, Visible

LEMMA EffectMaps ==
  ASSUME SessionInv, SessionInv', Next, NEW c \in Clients, NEW s \in Sessions, pc[c] \in Writing, ~InGap(c),
         op[c].s = s, InGap(c)' => op'[c].s = s,
         \A d \in Clients \ {c} : pc'[d] = pc[d] /\ op'[d] = op[d] /\ mine'[d] = mine[d],
         \A t \in Sessions \ {s} : state'[t] = state[t] /\ tmp'[t] = tmp[t],
         Asked(c)' = NoOp,
         (IF Done(c) THEN [s |-> op[c].s, v |-> op[c].v] ELSE mine[c])' = [s |-> s, v |-> op[c].v],
         s \notin shared' => Visible(s)' = op[c].v
  PROVE  RegisterMove
<1>1. windows' = windows /\ legacy' = legacy
  BY StepKeepsFixed DEF fixed
<1>2. PICK v \in Values : v = op[c].v
  BY DEF SessionInv, CallInv, Called, Writing
<1>3. Contents' = [Contents EXCEPT ![s] = Contents'[s]] /\ Contents'[s] = Visible(s)'
  BY <1>1, ContentsElsewhere
<1>4. Contents'[s] \in Values \cup {NoFile, Torn}
  BY <1>3 DEF SessionInv, TypesInv, Visible, Valid
<1>5. FromTo(s, v)
  BY <1>2, <1>3, <1>4 DEF FromTo
<1>6. Answered(c, s, v)
  BY <1>1, <1>2, OnlyMine DEF Answered
<1>7. /\ Pending[c].s = s /\ Pending[c].kind \in {"create", "save", "load"} /\ Pending[c].kind = op[c].kind
      /\ Pending[c].kind # "load" => Pending[c].v = v
  BY <1>2, PendingCall DEF Critical
<1>8. /\ s \notin shared' /\ Pending[c].kind = "create" => Contents[s] = NoFile
      /\ s \notin shared' /\ Pending[c].kind = "load" => Contents[s] = v
  BY <1>2, <1>7, SharedGrows, AtWorkAlone, ContentsStored DEF Critical
<1>. QED  BY <1>5, <1>6, <1>7, <1>8, TakesEffect

(* A step of c at the files of s that the register does not see unless s   *)
(* is shared.                                                              *)
LEMMA DisturbanceMaps ==
  ASSUME SessionInv, SessionInv', Next, NEW c \in Clients, NEW s \in Sessions,
         InGap(c) => op[c].s = s, InGap(c)' => op'[c].s = s,
         \A d \in Clients \ {c} : pc'[d] = pc[d] /\ op'[d] = op[d] /\ mine'[d] = mine[d],
         \A t \in Sessions \ {s} : state'[t] = state[t] /\ tmp'[t] = tmp[t],
         Asked(c)' = Asked(c),
         (IF Done(c) THEN [s |-> op[c].s, v |-> op[c].v] ELSE mine[c])' = Told[c],
         s \notin shared' => Visible(s)' = Visible(s)
  PROVE  RegisterMove
<1>1. windows' = windows /\ legacy' = legacy
  BY StepKeepsFixed DEF fixed
<1>2. Contents' = [Contents EXCEPT ![s] = Contents'[s]] /\ Contents'[s] = Visible(s)'
  BY <1>1, ContentsElsewhere
<1>3. Contents'[s] \in Values \cup {NoFile, Torn}
  BY <1>2 DEF SessionInv, TypesInv, Visible, Valid
<1>4. Pending' = [Pending EXCEPT ![c] = Pending[c]] /\ Told' = [Told EXCEPT ![c] = Told[c]]
  BY <1>1, OnlyMine
<1>5. Pending' = Pending /\ Told' = Told
  BY <1>4 DEF Pending, Told
<1>. QED  BY <1>2, <1>3, <1>5, ContentsStored, IsDisturbed

(* An answer that comes after the effect was undone by another process.    *)
LEMMA LateFailureMaps ==
  ASSUME SessionInv, SessionInv', Next, NEW c \in Clients, shared' # {},
         Contents' = Contents, Asked(c)' = Asked(c), ~Done(c)',
         \A d \in Clients \ {c} : pc'[d] = pc[d] /\ op'[d] = op[d] /\ mine'[d] = mine[d]
  PROVE  RegisterMove
<1>1. windows' = windows
  BY StepKeepsFixed DEF fixed
<1>2. Pending' = [Pending EXCEPT ![c] = Pending[c]] /\ Told' = [Told EXCEPT ![c] = mine'[c]]
  <2>1. Pending' = [Pending EXCEPT ![c] = Pending'[c]] /\ Told' = [Told EXCEPT ![c] = Told'[c]]
    BY <1>1, OnlyMine
  <2>2. Pending'[c] = Asked(c)' /\ Pending[c] = Asked(c)
    BY <1>1, OnlyMine
  <2>3. Told'[c] = (IF Done(c) THEN [s |-> op[c].s, v |-> op[c].v] ELSE mine[c])'
    BY <1>1, OnlyMine
  <2>. QED  BY <2>1, <2>2, <2>3
<1>3. Pending' = Pending
  BY <1>2 DEF Pending
<1>4. mine'[c] \in {Register!NoCall} \cup [s : Sessions, v : Values]
  BY DEF SessionInv, TypesInv, NoOp, Register!NoCall
<1>5. Register!FailsLate(c)
  BY <1>2, <1>3, <1>4 DEF Register!FailsLate
<1>. QED  BY <1>5 DEF RegisterMove

LEMMA OpenTmpMaps ==
  ASSUME SessionInv, SessionInv', Next, NEW c \in Clients, OpenTmp(c)
  PROVE  RegisterMove
<1>0. pc[c] = "open" /\ pc[c] \in Writing /\ pc[c] \in Critical /\ ~InGap(c) /\ ~Done(c)
  BY DEF OpenTmp, At, Writing, Critical, InGap, Done
<1>1. PICK s \in Sessions : s = op[c].s
  BY <1>0, PendingCall
<1>2. CASE dir[s]
  <2>1. /\ UNCHANGED <<state, op, mine>> /\ tmp' = [tmp EXCEPT ![s] = Empty] /\ pc' = [pc EXCEPT ![c] = "write"]
    BY <1>1, <1>2 DEF OpenTmp, files, Goto
  <2>2. /\ pc'[c] = "write" /\ \A d \in Clients \ {c} : pc'[d] = pc[d] /\ op'[d] = op[d] /\ mine'[d] = mine[d]
        /\ \A t \in Sessions \ {s} : state'[t] = state[t] /\ tmp'[t] = tmp[t]
    BY <2>1 DEF SessionInv, TypesInv
  <2>3. ~InGap(c)' /\ ~Done(c)' /\ Asked(c)' = Asked(c) /\ mine'[c] = Told[c]
    BY <1>0, <2>1, <2>2 DEF InGap, At, Done, Asked, Told
  <2>4. windows' = windows /\ legacy' = legacy
    BY StepKeepsFixed DEF fixed
  <2>5. s \notin shared' => Visible(s)' = Visible(s)
    <3> SUFFICES ASSUME s \notin shared' PROVE Visible(s)' = Visible(s)
      OBVIOUS
    <3>1. s \notin Gap
      BY <1>0, <1>1, SharedGrows, AtWorkAlone
    <3>2. s \in Gap' <=> s \in Gap
      BY <1>0, <2>2, <2>3, <2>4, GapElsewhere
    <3>. QED  BY <2>1, <2>4, <3>1, <3>2, VisibleKept
  <2>. QED  BY <1>0, <2>2, <2>3, <2>5, DisturbanceMaps
<1>3. CASE ~dir[s]
  <2>1. Return(c, Failed) /\ UNCHANGED <<state, tmp>>
    BY <1>1, <1>3 DEF OpenTmp, Fail
  <2>2. op[c].kind = "load" /\ s \notin shared => Visible(s) \in {NoFile, legacy[s]}
    BY <1>0, <1>1, AtWorkAlone
  <2>. QED  BY <1>0, <1>1, <2>1, <2>2, RefusedMaps
<1>. QED  BY <1>2, <1>3

LEMMA WriteTmpMaps ==
  ASSUME SessionInv, SessionInv', Next, NEW c \in Clients, WriteTmp(c)
  PROVE  RegisterMove
<1>0. pc[c] = "write" /\ pc[c] \in Writing /\ pc[c] \in Critical /\ ~InGap(c) /\ ~Done(c)
  BY DEF WriteTmp, At, Writing, Critical, InGap, Done
<1>1. PICK s \in Sessions : s = op[c].s
  BY <1>0, PendingCall
<1>2. /\ UNCHANGED <<op, mine, windows, legacy>> /\ pc' = [pc EXCEPT ![c] = IF windows THEN "replace" ELSE "rename"]
  BY DEF WriteTmp, Goto, fixed
<1>3. /\ pc'[c] = (IF windows THEN "replace" ELSE "rename")
      /\ \A d \in Clients \ {c} : pc'[d] = pc[d] /\ op'[d] = op[d] /\ mine'[d] = mine[d]
  BY <1>2 DEF SessionInv, TypesInv
<1>4. \A t \in Sessions \ {s} : state'[t] = state[t] /\ tmp'[t] = tmp[t]
  BY <1>1 DEF WriteTmp, SessionInv, TypesInv
<1>5. ~InGap(c)' /\ ~Done(c)' /\ Asked(c)' = Asked(c) /\ mine'[c] = Told[c]
  BY <1>0, <1>2, <1>3 DEF InGap, At, Done, Asked, Told, SessionInv, TypesInv
<1>6. s \notin shared' => Visible(s)' = Visible(s)
  <2> SUFFICES ASSUME s \notin shared' PROVE Visible(s)' = Visible(s)
    OBVIOUS
  <2>1. s \notin Gap /\ AtWork(c, s)
    BY <1>0, <1>1, SharedGrows, AtWorkAlone
  <2>2. state' = state
    BY <1>0, <2>1 DEF AtWork, WriteTmp
  <2>3. s \in Gap' <=> s \in Gap
    BY <1>0, <1>2, <1>3, <1>5, GapElsewhere
  <2>. QED  BY <1>2, <2>1, <2>2, <2>3, VisibleKept
<1>. QED  BY <1>0, <1>3, <1>4, <1>5, <1>6, DisturbanceMaps

(* Windows: a call takes effect when the old file is removed, ...          *)
LEMMA RemoveTargetMaps ==
  ASSUME SessionInv, SessionInv', Next, NEW c \in Clients, RemoveTarget(c)
  PROVE  RegisterMove
<1>0. pc[c] = "replace" /\ pc[c] \in Writing /\ pc[c] \in Critical /\ ~InGap(c) /\ windows
  BY DEF RemoveTarget, At, Writing, Critical, InGap, SessionInv, CallInv, Called
<1>1. PICK s \in Sessions : s = op[c].s
  BY <1>0, PendingCall
<1>2. /\ UNCHANGED <<op, mine, windows, tmp>> /\ pc' = [pc EXCEPT ![c] = "rename"]
      /\ state' = [state EXCEPT ![s] = NoFile]
  BY <1>1 DEF RemoveTarget, Goto, fixed
<1>3. /\ pc'[c] = "rename" /\ state'[s] = NoFile
      /\ \A d \in Clients \ {c} : pc'[d] = pc[d] /\ op'[d] = op[d] /\ mine'[d] = mine[d]
      /\ \A t \in Sessions \ {s} : state'[t] = state[t] /\ tmp'[t] = tmp[t]
  BY <1>2 DEF SessionInv, TypesInv
<1>4. InGap(c)' /\ Done(c)' /\ Asked(c)' = NoOp
  BY <1>0, <1>2, <1>3 DEF InGap, At, Done, Asked
<1>5. s \notin shared' => Visible(s)' = op[c].v
  <2> SUFFICES ASSUME s \notin shared' PROVE Visible(s)' = op[c].v
    OBVIOUS
  <2>1. tmp[s] = op[c].v /\ op[c].v \in Values
    BY <1>0, <1>1, SharedGrows, AtWorkAlone DEF AtWork, SessionInv, CallInv, Called
  <2>2. s \in Gap'
    BY <1>1, <1>2, <1>4 DEF Gap, GapOf
  <2>3. Valid(tmp'[s])
    BY <1>2, <2>1 DEF Valid
  <2>. QED  BY <1>2, <1>3, <2>1, <2>2, <2>3 DEF Visible
<1>6. (IF Done(c) THEN [s |-> op[c].s, v |-> op[c].v] ELSE mine[c])' = [s |-> s, v |-> op[c].v]
  BY <1>1, <1>2, <1>4
<1>7. op'[c].s = s
  BY <1>1, <1>2
<1>. QED  BY <1>0, <1>1, <1>3, <1>4, <1>5, <1>6, <1>7, EffectMaps

(* ... elsewhere when the temporary file is renamed.                       *)
LEMMA RenameMaps ==
  ASSUME SessionInv, SessionInv', Next, NEW c \in Clients, Rename(c)
  PROVE  RegisterMove
<1>0. pc[c] = "rename" /\ pc[c] \in Writing /\ pc[c] \in Critical
  BY DEF Rename, At, Writing, Critical
<1>1. op[c] \in Calls /\ op[c].s \in Sessions /\ op[c].v \in Values
  BY <1>0 DEF SessionInv, CallInv, Called, Calls
<1>2. PICK s \in Sessions : s = op[c].s
  BY <1>1
<1>3. UNCHANGED <<windows, legacy, shared>>
  BY DEF Rename, fixed
<1>4. s \notin shared => AtWork(c, s) /\ tmp[s] = op[c].v /\ (s \in Gap <=> InGap(c))
  BY <1>0, <1>2, AtWorkAlone DEF AtWork
<1>5. CASE tmp[s] = NoFile
  <2>1. Return(c, Failed) /\ UNCHANGED <<state, tmp>>
    BY <1>2, <1>5 DEF Rename, Fail
  <2>2. s \in shared
    BY <1>1, <1>4, <1>5, NamesApart
  <2>3. CASE ~InGap(c)
    BY <1>0, <1>2, <2>1, <2>2, <2>3, RefusedMaps
  <2>4. CASE InGap(c)
    <3>1. pc'[c] = "idle" /\ mine' = mine
          /\ \A d \in Clients \ {c} : pc'[d] = pc[d] /\ op'[d] = op[d] /\ mine'[d] = mine[d]
      BY <2>1, NamesApart DEF Return, Goto, SessionInv, TypesInv
    <3>2. Asked(c)' = Asked(c) /\ ~Done(c)' /\ ~InGap(c)'
      BY <2>4, <3>1 DEF Asked, Done, InGap, At
    <3>3. Contents' = [Contents EXCEPT ![s] = Contents'[s]] /\ Contents'[s] = Visible(s)'
      BY <1>2, <1>3, <2>1, <3>1, <3>2, ContentsElsewhere
    <3>4. Visible(s)' = Visible(s)
      BY <1>3, <1>5, <2>1, NamesApart DEF Visible, Valid
    <3>5. Contents' = Contents
      BY <3>3, <3>4 DEF Contents
    <3>. QED  BY <1>3, <2>2, <3>1, <3>2, <3>5, LateFailureMaps
  <2>. QED  BY <2>3, <2>4
<1>6. CASE tmp[s] # NoFile
  <2>1. /\ state' = [state EXCEPT ![s] = tmp[s]] /\ tmp' = [tmp EXCEPT ![s] = NoFile]
        /\ IF op[c].kind = "create"
             THEN pc' = [pc EXCEPT ![c] = "list"] /\ UNCHANGED <<op, mine>>
             ELSE /\ pc' = [pc EXCEPT ![c] = "idle"] /\ op' = [op EXCEPT ![c] = NoOp]
                  /\ mine' = [mine EXCEPT ![c] = [s |-> s, v |-> op[c].v]]
    BY <1>2, <1>6 DEF Rename, Goto
  <2>2. /\ \A d \in Clients \ {c} : pc'[d] = pc[d] /\ op'[d] = op[d] /\ mine'[d] = mine[d]
        /\ \A t \in Sessions \ {s} : state'[t] = state[t] /\ tmp'[t] = tmp[t]
        /\ state'[s] = tmp[s]
    BY <2>1 DEF SessionInv, TypesInv
  <2>3. \/ pc'[c] = "list" /\ UNCHANGED op
        \/ pc'[c] = "idle" /\ mine'[c] = [s |-> s, v |-> op[c].v]
    BY <2>1 DEF SessionInv, TypesInv
  <2>4. ~InGap(c)' /\ Asked(c)' = NoOp
    BY <2>3 DEF InGap, At, Asked
  <2>5. (IF Done(c) THEN [s |-> op[c].s, v |-> op[c].v] ELSE mine[c])' = [s |-> s, v |-> op[c].v]
    BY <1>2, <2>3 DEF Done, InGap, At
  <2>6. s \notin shared' => Visible(s)' = op[c].v
    BY <1>1, <1>3, <1>4, <1>6, <2>2, NamesApart DEF Visible, Valid
  <2>7. CASE ~InGap(c)
    BY <1>0, <1>2, <2>2, <2>4, <2>5, <2>6, <2>7, EffectMaps
  <2>8. CASE InGap(c)
    <3>1. Done(c) /\ Asked(c) = NoOp /\ Told[c] = [s |-> s, v |-> op[c].v]
      BY <1>2, <2>8 DEF Done, Asked, Told
    <3>2. s \notin shared' => Visible(s) = op[c].v
      BY <1>1, <1>3, <1>4, <2>8 DEF AtWork, Visible, Valid
    <3>. QED  BY <1>2, <2>2, <2>4, <2>5, <2>6, <3>1, <3>2, DisturbanceMaps
  <2>. QED  BY <2>7, <2>8
<1>. QED  BY <1>5, <1>6

(* cleanup_old: what is left over of a listing are as many sessions as are *)
(* kept, each at least as new as what is removed.                          *)
LEMMA OldestAreTooOld ==
  ASSUME SessionInv, NEW victim, Oldest(victim), NEW s \in victim
  PROVE  Register!TooOld(s)
<1> DEFINE kept == { t \in Sessions \ {s} : Contents[t] \in Values /\ Contents[t].born >= Contents[s].born }
<1>1. Current \subseteq Sessions /\ victim \subseteq Current /\ s \in Sessions /\ s \in Current
  BY DEF Current, Oldest
<1>2. ASSUME NEW t \in Current PROVE Contents[t] = state[t] /\ state[t] \in Values /\ state[t].born \in Int
  <2>1. t \in Sessions /\ state[t] \in Values /\ state[t] # NoFile
    BY NamesApart DEF Current, Valid
  <2>2. Visible(t) = state[t]
    BY <2>1 DEF Visible, Valid
  <2>3. state[t].born \in Int
    BY <2>1, LimitsAssumption DEF Values
  <2>. QED  BY <2>1, <2>2, <2>3, ContentsStored
<1>3. Current \ victim \subseteq kept
  <2> SUFFICES ASSUME NEW t \in Current, t \notin victim PROVE t \in kept
    OBVIOUS
  <2>1. state[s].born <= state[t].born
    BY DEF Oldest
  <2>2. Contents[s] = state[s] /\ Contents[t] = state[t] /\ state[t] \in Values
        /\ state[s].born \in Int /\ state[t].born \in Int
    BY <1>1, <1>2
  <2>3. Contents[t].born >= Contents[s].born
    BY <2>1, <2>2
  <2>. QED  BY <1>1, <2>2, <2>3
<1>4. IsFiniteSet(Current) /\ IsFiniteSet(victim) /\ IsFiniteSet(kept)
  BY <1>1, SessionsAssumption, FS_Subset
<1>5. Cardinality(Current \ victim) = Cardinality(Current) - Cardinality(Current \cap victim)
  BY <1>4, FS_Difference
<1>6. Current \cap victim = victim /\ Cardinality(Current) \in Nat /\ Cardinality(victim) \in Nat
  BY <1>1, <1>4, FS_CardinalityType
<1>7. Cardinality(Current \ victim) = MaxSessions
  <2>1. Cardinality(victim) = Cardinality(Current) - MaxSessions
    BY DEF Oldest
  <2>2. Cardinality(Current \ victim) = Cardinality(Current) - Cardinality(victim)
    BY <1>5, <1>6, Zenon
  <2>. QED  BY <1>6, <2>1, <2>2, LimitsAssumption
<1>8. Cardinality(kept) >= MaxSessions /\ Cardinality(kept) \in Nat
  <2>1. Cardinality(kept) \in Nat
    BY <1>4, FS_CardinalityType
  <2>2. Cardinality(Current \ victim) <= Cardinality(kept)
    BY <1>3, <1>4, FS_Subset
  <2>. QED  BY <1>7, <2>1, <2>2, LimitsAssumption
<1>9. Contents[s] \in Values
  BY <1>1, <1>2
<1>10. Register!Cardinality(kept) = Cardinality(kept)
  BY DEF Register!Cardinality, Cardinality
<1>. QED  BY <1>8, <1>9, <1>10, Zenon DEF Register!TooOld

LEMMA DoomedStep ==
  ASSUME SessionInv, Next
  PROVE  \A s \in Doomed' \ Doomed : Register!TooOld(s)
<1> DEFINE Fewer == \A c \in Clients : victims'[c] \subseteq victims[c]
<1> USE DEF SessionInv, TypesInv
<1>1. ASSUME Fewer PROVE Doomed' \subseteq Doomed
  BY <1>1 DEF Doomed
<1>2. ASSUME NEW c \in Clients, Call(c) PROVE Fewer
  BY <1>2 DEF Call, SaveStart, LatestStart, CreateStart, LoadStart, Begin
<1>3. ASSUME NEW c \in Clients,
             \/ Acquire(c) \/ CheckNew(c) \/ ReadState(c) \/ MakeDirs(c) \/ OpenTmp(c)
             \/ WriteTmp(c) \/ WriteFails(c) \/ RemoveTarget(c) \/ Rename(c)
      PROVE  Fewer
  BY <1>3 DEF Acquire, CheckNew, ReadState, MakeDirs, OpenTmp, WriteTmp, WriteFails, RemoveTarget, Rename
<1>4. ASSUME NEW c \in Clients, NEW s \in Sessions, LockVictim(c, s) \/ RemoveFiles(c, s) PROVE Fewer
  BY <1>4 DEF LockVictim, RemoveFiles
<1>5. ASSUME NEW c \in Clients, NEW s \in Sessions, RemoveDir(c, s) PROVE Fewer
  BY <1>5 DEF RemoveDir, EndCreate
<1>6. ASSUME NEW p \in Processes, Crash(p) PROVE Fewer
  BY <1>6 DEF Crash
<1>7. ASSUME NEW c \in Clients, ListOld(c) PROVE \A s \in Doomed' \ Doomed : Register!TooOld(s)
  <2>1. CASE Cardinality(Current) <= MaxSessions
    BY <1>1, <1>7, <2>1 DEF ListOld, EndCreate
  <2>2. CASE ~(Cardinality(Current) <= MaxSessions)
    <3>1. PICK victim \in SUBSET Current : Oldest(victim) /\ victims' = [victims EXCEPT ![c] = victim]
      BY <1>7, <2>2 DEF ListOld
    <3>2. Doomed' \subseteq Doomed \cup victim
      BY <3>1 DEF Doomed
    <3>. QED  BY <3>1, <3>2, OldestAreTooOld
  <2>. QED  BY <2>1, <2>2
<1>. QED
  BY <1>1, <1>2, <1>3, <1>4, <1>5, <1>6, <1>7 DEF Next, Step

LEMMA RemoveFilesMaps ==
  ASSUME SessionInv, SessionInv', Next, NEW c \in Clients, NEW s \in Sessions, RemoveFiles(c, s)
  PROVE  RegisterMove
<1>1. /\ pc[c] = "removeFiles" /\ s \in victims[c] /\ UNCHANGED <<op, mine, windows, legacy, shared>>
      /\ pc' = [pc EXCEPT ![c] = "removeDir"] /\ Holds(c, s)
      /\ state' = [state EXCEPT ![s] = NoFile] /\ tmp' = [tmp EXCEPT ![s] = NoFile]
  BY DEF RemoveFiles, At, Goto, fixed
<1>2. /\ \A d \in Clients \ {c} : pc'[d] = pc[d] /\ op'[d] = op[d] /\ mine'[d] = mine[d]
      /\ \A t \in Sessions \ {s} : state'[t] = state[t] /\ tmp'[t] = tmp[t]
      /\ pc'[c] = "removeDir" /\ state'[s] = NoFile /\ tmp'[s] = NoFile
  BY <1>1 DEF SessionInv, TypesInv
<1>3. ~InGap(c) /\ ~InGap(c)' /\ Asked(c)' = Asked(c) /\ Done(c) /\ Done(c)'
  BY <1>1, <1>2 DEF InGap, At, Asked, Done
<1>4. Contents' = [Contents EXCEPT ![s] = Contents'[s]] /\ Contents'[s] = Visible(s)'
  BY <1>1, <1>2, <1>3, ContentsElsewhere
<1>5. PICK w : w = legacy[s]
  OBVIOUS
<1>6. Visible(s)' = w
  BY <1>1, <1>2, <1>5, NamesApart DEF Visible, Valid
<1>7. Contents'[s] \in Values \cup {NoFile, Torn}
  BY <1>4, <1>5, <1>6 DEF SessionInv, TypesInv
<1>8. Register!Becomes(s, w)
  BY <1>4, <1>6, <1>7, Becoming DEF FromTo
<1>9. Pending' = [Pending EXCEPT ![c] = Pending[c]] /\ Told' = [Told EXCEPT ![c] = Told[c]]
  <2>1. Told[c] = [s |-> op[c].s, v |-> op[c].v]
    BY <1>3 DEF Told
  <2>. QED  BY <1>1, <1>2, <1>3, <2>1, OnlyMine
<1>10. Pending' = Pending /\ Told' = Told
  BY <1>9 DEF Pending, Told
<1>11. s \in Doomed
  BY <1>1 DEF Doomed
<1>12. Register!Evict(s)
  BY <1>5, <1>8, <1>10, <1>11 DEF Register!Evict
<1>. QED  BY <1>12 DEF RegisterMove

LEMMA RemoveDirMaps ==
  ASSUME SessionInv, SessionInv', Next, NEW c \in Clients, NEW s \in Sessions, RemoveDir(c, s)
  PROVE  RegisterMove
<1>1. /\ pc[c] = "removeDir" /\ UNCHANGED <<windows, legacy, state, tmp, shared>> /\ Holds(c, s)
  BY DEF RemoveDir, At, fixed
<1>2. ~InGap(c) /\ Done(c) /\ Asked(c) = NoOp /\ Told[c] = [s |-> op[c].s, v |-> op[c].v]
  BY <1>1 DEF InGap, At, Asked, Done, Told
<1>3. \A d \in Clients \ {c} : pc'[d] = pc[d] /\ op'[d] = op[d] /\ mine'[d] = mine[d]
  BY DEF RemoveDir, EndCreate, Goto, SessionInv, TypesInv
<1>4. CASE state[s] # NoFile \/ tmp[s] # NoFile
  <2>1. pc'[c] = "idle"
    BY <1>4 DEF RemoveDir, EndCreate, Goto, SessionInv, TypesInv
  <2>2. ~InGap(c)' /\ ~Done(c)' /\ Asked(c)' = NoOp
    BY <2>1 DEF InGap, At, Asked, Done
  <2>3. Contents' = Contents
    BY <1>1, <1>2, <1>3, <2>2, ContentsKept
  <2>4. s \in shared
    BY <1>1, <1>4 DEF SessionInv, AloneInv, Alone, AtWork
  <2>. QED  BY <1>1, <1>2, <1>3, <2>2, <2>3, <2>4, LateFailureMaps
<1>5. CASE ~(state[s] # NoFile \/ tmp[s] # NoFile)
  <2>1. op[c].v \in Values /\ op[c].v # Failed
    BY <1>1, NamesApart DEF SessionInv, CallInv, Called
  <2>2. \/ pc'[c] = "idle" /\ mine'[c] = [s |-> op[c].s, v |-> op[c].v]
        \/ pc'[c] = "wantVictim" /\ op'[c] = op[c]
    BY <1>5, <2>1 DEF RemoveDir, EndCreate, Goto, SessionInv, TypesInv
  <2>3. ~InGap(c)' /\ Asked(c)' = NoOp
    BY <2>2 DEF InGap, At, Asked
  <2>4. (IF Done(c) THEN [s |-> op[c].s, v |-> op[c].v] ELSE mine[c])' = Told[c]
    BY <1>2, <2>2 DEF Done, InGap, At
  <2>. QED  BY <1>1, <1>2, <1>3, <2>3, <2>4, QuietMaps
<1>. QED  BY <1>4, <1>5

LEMMA CrashMaps ==
  ASSUME SessionInv, SessionInv', Next, NEW p \in Processes, Crash(p)
  PROVE  RegisterMove
<1> DEFINE dead == { c \in Clients : process[c] = p }
<1>1. UNCHANGED <<windows, legacy, state, tmp>>
      /\ shared' = shared \cup { s \in GapOf(dead) : state[s] = NoFile }
  BY DEF Crash, fixed, files
<1>2. ASSUME NEW c \in Clients
      PROVE  IF c \in dead THEN pc'[c] = "idle" /\ mine'[c] = NoOp
             ELSE pc'[c] = pc[c] /\ op'[c] = op[c] /\ mine'[c] = mine[c]
  BY DEF Crash
<1>3. ASSUME NEW c \in Clients
      PROVE  /\ Asked(c)' = IF c \in dead THEN NoOp ELSE Asked(c)
             /\ Told'[c] = IF c \in dead THEN NoOp ELSE Told[c]
             /\ InGap(c)' <=> InGap(c) /\ c \notin dead
  BY <1>1, <1>2 DEF Asked, Done, Told, InGap, At
<1>4. Pending' = [c \in Clients |-> IF c \in dead THEN Register!NoCall ELSE Pending[c]]
  BY <1>3 DEF Pending, NoOp, Register!NoCall
<1>5. Told' = [c \in Clients |-> IF c \in dead THEN Register!NoCall ELSE Told[c]]
  BY <1>3 DEF Told, NoOp, Register!NoCall
<1>6. Contents' \in [Sessions -> Register!Stored]
  <2>1. \A s \in Sessions : Visible(s)' \in Values \cup {NoFile, Torn}
    BY DEF SessionInv, TypesInv, Visible, Valid
  <2>2. \A s \in Sessions : Visible(s)' \in Register!Stored
    BY <2>1 DEF Register!Stored, Register!NoSession, Register!Unreadable, Register!Marked, NoFile, Torn, Mark
  <2>. QED  BY <2>2 DEF Contents
<1>7. ASSUME NEW s \in Sessions \ shared' PROVE Contents'[s] = Contents[s]
  <2>1. s \in Gap' => s \in Gap
    BY <1>1, <1>2, <1>3 DEF Gap, GapOf
  <2>2. s \in Gap /\ state[s] = NoFile => s \in Gap'
    <3> SUFFICES ASSUME NEW c \in Clients, InGap(c), op[c].s = s, state[s] = NoFile PROVE s \in Gap'
      BY DEF Gap, GapOf
    <3>1. c \notin dead
      BY <1>1 DEF GapOf
    <3>. QED  BY <1>2, <1>3, <3>1 DEF Gap, GapOf
  <2>3. Visible(s)' = Visible(s)
    BY <1>1, <2>1, <2>2 DEF Visible, Valid, Values
  <2>. QED  BY <2>3 DEF Contents
<1>8. Register!Crash(dead)
  BY <1>4, <1>5, <1>6, <1>7 DEF Register!Crash
<1>. QED  BY <1>8 DEF RegisterMove

LEMMA CallMaps ==
  ASSUME SessionInv, SessionInv', Next, NEW c \in Clients, Call(c)
  PROVE  RegisterMove
<1> DEFINE Begins == \E call : Begin(c, call) /\ pc[c] = "idle" /\ (call.kind = "load" => call.v = NoFile)
<1>1. Begins
  <2>1. CASE SaveStart(c)
    BY <2>1 DEF SaveStart, At
  <2>2. CASE LatestStart(c)
    BY <2>2 DEF LatestStart, At
  <2>3. ASSUME NEW s \in Sessions, CreateStart(c, s) PROVE Begins
    BY <2>3 DEF CreateStart, At
  <2>4. ASSUME NEW s \in Sessions, LoadStart(c, s) PROVE Begins
    BY <2>4 DEF LoadStart, At
  <2>. QED  BY <2>1, <2>2, <2>3, <2>4 DEF Call
<1>. QED  BY <1>1, BeginMaps

LEMMA CheckNewMaps ==
  ASSUME SessionInv, SessionInv', Next, NEW c \in Clients, CheckNew(c)
  PROVE  RegisterMove
<1>1. pc[c] = "held" /\ pc[c] \in Critical /\ ~InGap(c) /\ ~Done(c) /\ op[c].kind = "create"
      /\ UNCHANGED <<state, tmp>>
  BY DEF CheckNew, At, Critical, InGap, Done, files
<1>2. CASE Exists(op[c].s)
  BY <1>1, <1>2, RefusedMaps DEF CheckNew, Fail
<1>3. CASE ~Exists(op[c].s)
  <2>1. UNCHANGED <<op, mine>> /\ pc'[c] = "dirs" /\ \A d \in Clients \ {c} : pc'[d] = pc[d]
    BY <1>3 DEF CheckNew, Goto, SessionInv, TypesInv
  <2>2. ~InGap(c)' /\ ~Done(c)' /\ Asked(c)' = Asked(c)
    BY <1>1, <2>1 DEF InGap, At, Done, Asked
  <2>3. Told[c] = mine[c]
    BY <1>1 DEF Told
  <2>. QED  BY <1>1, <2>1, <2>2, <2>3, QuietMaps
<1>. QED  BY <1>2, <1>3

LEMMA ReadStateMaps ==
  ASSUME SessionInv, SessionInv', Next, NEW c \in Clients, ReadState(c)
  PROVE  RegisterMove
<1>1. pc[c] = "held" /\ pc[c] \in Critical /\ ~InGap(c) /\ ~Done(c) /\ op[c].kind = "load"
      /\ UNCHANGED <<state, tmp, windows, legacy, shared>>
  BY DEF ReadState, At, Critical, InGap, Done, files, fixed
<1>2. PICK s \in Sessions : s = op[c].s
  BY <1>1, PendingCall
<1>3. s \notin shared => state[s] \in Values \cup {NoFile} /\ (s \in Gap <=> InGap(c))
  BY <1>1, <1>2, AtWorkAlone DEF Alone
<1>4. CASE Valid(state[s])
  <2>1. state[s] \in Values /\ Return(c, state[s])
    BY <1>2, <1>4, NamesApart DEF ReadState, Valid
  <2>2. PICK v \in Values : v = state[s]
    BY <2>1
  <2>3. /\ pc'[c] = "idle" /\ mine'[c] = [s |-> s, v |-> v]
        /\ \A d \in Clients \ {c} : pc'[d] = pc[d] /\ op'[d] = op[d] /\ mine'[d] = mine[d]
    BY <1>2, <2>1, <2>2 DEF Return, Goto, SessionInv, TypesInv
  <2>4. ~InGap(c)' /\ ~Done(c)' /\ Asked(c)' = NoOp
    BY <2>3 DEF InGap, At, Done, Asked
  <2>5. Contents' = Contents
    BY <1>1, <2>3, <2>4, ContentsKept
  <2>6. Contents[s] = v
    BY <2>2, NamesApart, ContentsStored DEF Visible, Valid
  <2>7. FromTo(s, v)
    BY <2>5, <2>6 DEF FromTo, Contents
  <2>8. Answered(c, s, v)
    BY <1>1, <2>3, <2>4, OnlyMine DEF Answered
  <2>. QED  BY <1>1, <1>2, <2>6, <2>7, <2>8, PendingCall, TakesEffect
<1>5. CASE ~Valid(state[s]) /\ state[s] # NoFile
  <2>1. Return(c, Failed)
    BY <1>2, <1>5 DEF ReadState, Fail
  <2>2. s \in shared
    BY <1>3, <1>5 DEF Valid
  <2>. QED  BY <1>1, <1>2, <2>1, <2>2, RefusedMaps
<1>6. CASE state[s] = NoFile /\ legacy[s] # NoFile
  <2>1. op' = [op EXCEPT ![c].v = legacy[s]] /\ pc' = [pc EXCEPT ![c] = "dirs"] /\ UNCHANGED mine
    BY <1>2, <1>6 DEF ReadState, Goto
  <2>2. pc'[c] = "dirs" /\ \A d \in Clients \ {c} : pc'[d] = pc[d] /\ op'[d] = op[d]
    BY <2>1 DEF SessionInv, TypesInv
  <2>3. [op'[c] EXCEPT !.v = NoFile] = [op[c] EXCEPT !.v = NoFile] /\ op'[c].kind = "load"
    <3>1. op[c] \in Calls /\ op[c].kind = "load" /\ op \in [Clients -> Calls \cup {NoOp}]
      BY <1>1, PendingCall DEF SessionInv, TypesInv
    <3>2. op'[c] = [op[c] EXCEPT !.v = legacy[s]]
      BY <2>1, <3>1
    <3>. QED  BY <3>1, <3>2 DEF Calls
  <2>4. ~InGap(c)' /\ ~Done(c)' /\ Asked(c)' = Asked(c)
    BY <1>1, <2>2, <2>3 DEF InGap, At, Done, Asked
  <2>5. Told[c] = mine[c]
    BY <1>1 DEF Told
  <2>. QED  BY <1>1, <2>1, <2>2, <2>4, <2>5, QuietMaps
<1>7. CASE state[s] = NoFile /\ legacy[s] = NoFile
  <2>1. Return(c, Failed)
    BY <1>2, <1>7 DEF ReadState, Fail
  <2>2. s \notin shared => Visible(s) = NoFile
    BY <1>1, <1>3, <1>7 DEF Visible
  <2>. QED  BY <1>1, <1>2, <2>1, <2>2, RefusedMaps
<1>. QED  BY <1>4, <1>5, <1>6, <1>7

LEMMA MoveMaps ==
  ASSUME SessionInv, SessionInv', Next
  PROVE  RegisterMove
<1> USE DEF At, Goto, files, SessionInv, TypesInv
<1>1. ASSUME NEW c \in Clients, Acquire(c) PROVE RegisterMove
  <2>1. /\ pc[c] = "want" /\ pc'[c] \in {"dirs", "held"} /\ \A d \in Clients \ {c} : pc'[d] = pc[d]
        /\ UNCHANGED <<op, mine, state, tmp>>
    BY <1>1 DEF Acquire
  <2>2. /\ ~InGap(c) /\ ~InGap(c)' /\ ~Done(c) /\ ~Done(c)' /\ Asked(c)' = Asked(c)
    BY <2>1 DEF InGap, Done, Asked
  <2>3. Told[c] = mine[c]
    BY <2>2 DEF Told
  <2>. QED  BY <2>1, <2>2, <2>3, QuietMaps
<1>2. ASSUME NEW c \in Clients, MakeDirs(c) PROVE RegisterMove
  <2>1. /\ pc[c] = "dirs" /\ pc'[c] = "open" /\ \A d \in Clients \ {c} : pc'[d] = pc[d]
        /\ UNCHANGED <<op, mine, state, tmp>>
    BY <1>2 DEF MakeDirs
  <2>2. /\ ~InGap(c) /\ ~InGap(c)' /\ ~Done(c) /\ ~Done(c)' /\ Asked(c)' = Asked(c)
    BY <2>1 DEF InGap, Done, Asked
  <2>3. Told[c] = mine[c]
    BY <2>2 DEF Told
  <2>. QED  BY <2>1, <2>2, <2>3, QuietMaps
<1>3. ASSUME NEW c \in Clients, WriteFails(c) PROVE RegisterMove
  <2>1. pc[c] \in Writing /\ pc[c] \in Critical /\ ~InGap(c) /\ Return(c, Failed) /\ UNCHANGED <<state, tmp>>
    BY <1>3 DEF WriteFails, Fail, InGap, Writing, Critical
  <2>2. PICK s \in Sessions : s = op[c].s
    BY <2>1, PendingCall
  <2>3. op[c].kind = "load" /\ s \notin shared => Visible(s) = legacy[s]
    BY <2>1, <2>2, AtWorkAlone
  <2>. QED  BY <2>1, <2>2, <2>3, RefusedMaps
<1>4. ASSUME NEW c \in Clients, ListOld(c) PROVE RegisterMove
  <2>1. pc[c] = "list" /\ UNCHANGED <<state, tmp>>
        /\ \A d \in Clients \ {c} : pc'[d] = pc[d] /\ op'[d] = op[d] /\ mine'[d] = mine[d]
    BY <1>4 DEF ListOld, EndCreate
  <2>2. ~InGap(c) /\ Done(c) /\ Asked(c) = NoOp /\ Told[c] = [s |-> op[c].s, v |-> op[c].v]
    BY <2>1 DEF InGap, Done, Asked, Told
  <2>3. op[c].v # Failed
    <3>1. op[c].v \in Values
      BY <2>1 DEF CallInv, Called
    <3>. QED  BY <3>1, NamesApart
  <2>4. \/ pc'[c] = "idle" /\ mine'[c] = [s |-> op[c].s, v |-> op[c].v]
        \/ pc'[c] = "wantVictim" /\ op'[c] = op[c]
    BY <1>4, <2>3 DEF ListOld, EndCreate
  <2>5. ~InGap(c)' /\ Asked(c)' = NoOp
    BY <2>4 DEF InGap, Asked
  <2>6. (IF Done(c) THEN [s |-> op[c].s, v |-> op[c].v] ELSE mine[c])' = Told[c]
    BY <2>2, <2>4 DEF Done, InGap
  <2>. QED  BY <2>1, <2>2, <2>5, <2>6, QuietMaps
<1>5. ASSUME NEW c \in Clients, NEW s \in Sessions, LockVictim(c, s) PROVE RegisterMove
  <2>1. /\ pc[c] = "wantVictim" /\ pc'[c] = "removeFiles" /\ \A d \in Clients \ {c} : pc'[d] = pc[d]
        /\ UNCHANGED <<op, mine, state, tmp>>
    BY <1>5 DEF LockVictim
  <2>2. /\ ~InGap(c) /\ ~InGap(c)' /\ Done(c) /\ Done(c)' /\ Asked(c)' = Asked(c)
    BY <2>1 DEF InGap, Done, Asked
  <2>3. (IF Done(c) THEN [s |-> op[c].s, v |-> op[c].v] ELSE mine[c])' = Told[c]
    BY <2>1, <2>2 DEF Told
  <2>. QED  BY <2>1, <2>2, <2>3, QuietMaps
<1>. QED
  BY <1>1, <1>2, <1>3, <1>4, <1>5, CallMaps, CheckNewMaps, ReadStateMaps, OpenTmpMaps, WriteTmpMaps,
     RemoveTargetMaps, RenameMaps, RemoveFilesMaps, RemoveDirMaps, CrashMaps DEF Next, Step

(* Every session a load, save and create of one step each, and no session  *)
(* removed that a listing did not find too old: SessionManager implements  *)
(* SessionRegister, step by step, for any number of engines, processes and *)
(* sessions, through failed writes and the end of processes.               *)
THEOREM SessionsAreRegisters == Spec => ImplementsRegister
<1>1. Init => Register!RegisterInit
  <2> SUFFICES ASSUME Init PROVE Register!RegisterInit
    OBVIOUS
  <2>1. SessionInv
    BY SessionInit
  <2>2. \A c \in Clients : Asked(c) = NoOp /\ ~Done(c) /\ ~InGap(c)
    BY DEF Init, Asked, Done, InGap, At
  <2>3. Pending = [c \in Clients |-> Register!NoCall] /\ Told = [c \in Clients |-> Register!NoCall]
    BY <2>2 DEF Init, Pending, Told, NoOp, Register!NoCall
  <2>4. NoFile = Register!NoSession
    BY DEF NoFile, Mark, Register!NoSession, Register!Marked
  <2>5. ASSUME NEW s \in Sessions
        PROVE  Visible(s) \in Values \cup {NoFile} /\ (Visible(s) = NoFile => legacy[s] = NoFile)
    <3>1. Old \in Values /\ s \notin Gap
      BY <2>2, LimitsAssumption DEF Old, Values, Gap, GapOf
    <3>. QED  BY <3>1, NamesApart DEF Init, Visible, Valid
  <2>6. legacy \in [Sessions -> Values \cup {NoFile}]
    BY <2>1 DEF SessionInv, TypesInv
  <2>7. Doomed = {} /\ shared = {}
    BY DEF Init, Doomed
  <2>. QED  BY <2>3, <2>4, <2>5, <2>6, <2>7 DEF Register!RegisterInit, Contents
<1>2. ASSUME SessionInv, SessionInv', [Next]_vars PROVE [Register!RegisterNext]_(Register!rvars)
  <2>1. CASE Next
    <3>1. UNCHANGED legacy
      BY <2>1, StepKeepsFixed DEF fixed
    <3>. QED
      BY <1>2, <2>1, <3>1, SharedGrows, DoomedStep, MoveMaps DEF RegisterMove, Register!RegisterNext
  <2>2. CASE UNCHANGED vars
    BY <2>2 DEF vars, fixed, files, Register!rvars, Contents, Pending, Told, Doomed, Visible, Valid,
                Gap, GapOf, InGap, At, Asked, Done
  <2>. QED  BY <1>2, <2>1, <2>2
<1>. QED
  BY <1>1, <1>2, SessionAlways, PTL DEF Spec, ImplementsRegister, Register!RegisterSpec
=============================================================================
