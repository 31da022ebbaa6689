--------------------------- MODULE ProcessRunner ---------------------------
(***************************************************************************)
(* One command of CommandRunner (crates/tjuae-process: runner.rs,          *)
(* containment.rs, windows_job.rs): spawning into a process group or a     *)
(* job, the two reader tasks, the timeout against the exit, the bounded    *)
(* drain after an exit and the unbounded one after a kill, and the caller  *)
(* that drops the future.                                                  *)
(*                                                                         *)
(* The processes are the child, one it forks ("inner") and one that leaves *)
(* its process group ("outer", as with setsid).  Each may hold the write   *)
(* ends of the pipes.                                                      *)
(***************************************************************************)
EXTENDS Integers, FiniteSets

CONSTANT MaxChunks   \* bound: what is written to one stream

ASSUME ChunksAssumption == MaxChunks \in Nat

Streams == {"out", "err"}
Members == {"child", "inner", "outer"}
Codes   == {"zero", "nonzero", "none"}   \* status.code(); "none" after a signal

NoOutcome == [kind |-> "none", code |-> "none", silent |-> TRUE]
Outcomes  == [kind : {"none", "exit", "timeout", "error"}, code : Codes, silent : BOOLEAN]

VARIABLES
  windows,   \* the build
  pc,        \* "idle", "attach", "wait", "drain", "kill", "reap", "finish" or "returned"
  alive,     \* processes
  holds,     \* per stream: the processes with its write end
  exit,      \* the child's code
  pipe,      \* per stream: written and not read
  taken,     \* per stream: what the reader collected
  reader,    \* per stream: "none", "reading", "eof" or "aborted"
  outcome    \* the CommandResult, or the error

procs == <<alive, holds, exit>>
flow  == <<pipe, taken, reader>>
pvars == <<windows, pc, procs, flow, outcome>>

Each(x) == [st \in Streams |-> x]

ProcessInit ==
  /\ windows \in BOOLEAN /\ pc = "idle"
  /\ alive = {} /\ holds = Each({}) /\ exit = "none"
  /\ pipe = Each(0) /\ taken = Each(0) /\ reader = Each("none")
  /\ outcome = NoOutcome

Pc(step) == pc = step
Running == pc \in {"wait", "drain", "kill", "reap", "finish"}

Die(dead) ==
  /\ alive' = alive \ dead
  /\ holds' = [st \in Streams |-> holds[st] \ dead]

(* The runner returns; the Child it drops is killed if it lives.           *)
Return(o) ==
  /\ pc' = "returned" /\ outcome' = o /\ Die({"child"})

Error == [kind |-> "error", code |-> "none", silent |-> \A st \in Streams : taken[st] = 0]

-----------------------------------------------------------------------------
(* Starting                                                                *)

Spawn ==
  /\ Pc("idle")
  /\ \/ /\ pc' = "attach" /\ UNCHANGED outcome
        /\ alive' = {"child"} /\ holds' = Each({"child"})
     \/ /\ pc' = "returned" /\ outcome' = Error
        /\ UNCHANGED <<alive, holds>>
  /\ UNCHANGED <<windows, exit, flow>>

(* On Windows the child is suspended until it is in its job.               *)
Attach ==
  /\ Pc("attach")
  /\ \/ /\ pc' = "wait" /\ reader' = Each("reading") /\ UNCHANGED <<procs, outcome>>
     \/ /\ windows /\ Return(Error) /\ UNCHANGED <<reader, exit>>
  /\ UNCHANGED <<windows, pipe, taken>>

-----------------------------------------------------------------------------
(* The processes                                                           *)

Acting(m) == m \in alive /\ pc # "attach"

Write(m, st) ==
  /\ Acting(m) /\ m \in holds[st] /\ taken[st] + pipe[st] < MaxChunks
  /\ pipe' = [pipe EXCEPT ![st] = @ + 1]
  /\ UNCHANGED <<windows, pc, procs, taken, reader, outcome>>

Fork(m, keeps) ==
  /\ Acting("child") /\ m \in Members \ (alive \cup {"child"})
  /\ alive' = alive \cup {m}
  /\ holds' = [st \in Streams |-> IF keeps THEN holds[st] \cup {m} ELSE holds[st]]
  /\ UNCHANGED <<windows, pc, exit, flow, outcome>>

Exit(m) ==
  /\ Acting(m) /\ Die({m})
  /\ IF m = "child" THEN exit' \in Codes ELSE UNCHANGED exit
  /\ UNCHANGED <<windows, pc, flow, outcome>>

-----------------------------------------------------------------------------
(* The readers; they outlive a runner that was dropped.                    *)

Read(st) ==
  /\ reader[st] = "reading" /\ pipe[st] > 0
  /\ pipe' = [pipe EXCEPT ![st] = @ - 1] /\ taken' = [taken EXCEPT ![st] = @ + 1]
  /\ UNCHANGED <<windows, pc, procs, reader, outcome>>

Eof(st) ==
  /\ reader[st] = "reading" /\ pipe[st] = 0 /\ holds[st] = {}
  /\ reader' = [reader EXCEPT ![st] = "eof"]
  /\ UNCHANGED <<windows, pc, procs, pipe, taken, outcome>>

-----------------------------------------------------------------------------
(* The runner                                                              *)

Exited ==
  /\ Pc("wait") /\ "child" \notin alive /\ pc' = "drain"
  /\ UNCHANGED <<windows, procs, flow, outcome>>

(* timeout() polls the child first.                                        *)
TimeUp ==
  /\ Pc("wait") /\ "child" \in alive /\ pc' = "kill"
  /\ UNCHANGED <<windows, procs, flow, outcome>>

Silent == \A st \in Streams : taken[st] = 0

DrainTimeUp(st) ==
  /\ Pc("drain") /\ reader[st] = "reading" /\ reader' = [reader EXCEPT ![st] = "aborted"]
  /\ UNCHANGED <<windows, pc, procs, pipe, taken, outcome>>

Drained == \A st \in Streams : reader[st] # "reading"

ReturnUndrained == \* mutant: the output is taken when the child has exited
  /\ Pc("drain") /\ UNCHANGED <<windows, exit, flow>>
  /\ Return([kind |-> "exit", code |-> exit, silent |-> Silent])

ReturnExited ==
  /\ Pc("drain") /\ Drained /\ UNCHANGED <<windows, exit, flow>>
  /\ Return([kind |-> "exit", code |-> exit, silent |-> Silent])

TerminateChildOnly == \* mutant: the child is killed, not its group
  /\ Pc("kill") /\ Die({"child"}) /\ pc' = "reap" /\ UNCHANGED <<exit, outcome, windows, flow>>

(* SIGKILL to the group, or the end of the job, which no member leaves.    *)
Terminate ==
  /\ Pc("kill") /\ UNCHANGED <<windows, flow>>
  /\ \/ /\ Die(IF windows THEN Members ELSE {"child", "inner"})
        /\ pc' = "reap" /\ UNCHANGED <<exit, outcome>>
     \/ Return(Error) /\ UNCHANGED exit

Reap ==
  /\ Pc("reap") /\ "child" \notin alive /\ pc' = "finish"
  /\ UNCHANGED <<windows, procs, flow, outcome>>

(* finish_reader has no bound.                                             *)
ReturnTimedOut ==
  /\ Pc("finish") /\ Drained /\ UNCHANGED <<windows, exit, flow>>
  /\ Return([kind |-> "timeout", code |-> "none", silent |-> Silent])

(* A wait or a read that fails.                                            *)
IoError == Running /\ pc # "kill" /\ Return(Error) /\ UNCHANGED <<windows, exit, flow>>

(* The caller has its result, or drops the future: then kill_on_drop kills *)
(* the child and nothing else.  What a process that outlives its command   *)
(* still does is not followed.                                             *)
Forget ==
  /\ pc' = "idle" /\ outcome' = NoOutcome
  /\ alive' = {} /\ holds' = Each({}) /\ exit' = "none"
  /\ pipe' = Each(0) /\ taken' = Each(0) /\ reader' = Each("none")
  /\ UNCHANGED windows

Drop == (Pc("attach") \/ Running) /\ Forget

World ==
  \/ \E m \in Members : Exit(m) \/ \E st \in Streams : Write(m, st)
  \/ \E m \in Members, keeps \in BOOLEAN : Fork(m, keeps)

Runner ==
  \/ Attach \/ Exited \/ TimeUp \/ ReturnExited \/ Terminate \/ Reap \/ ReturnTimedOut \/ IoError
  \/ \E st \in Streams : Read(st) \/ Eof(st) \/ DrainTimeUp(st)

(* The runtime runs its tasks and its timers; what the processes do is     *)
(* theirs.                                                                 *)
RunnerFairness ==
  /\ WF_pvars(Attach) /\ WF_pvars(Exited) /\ WF_pvars(TimeUp) /\ WF_pvars(ReturnExited)
  /\ WF_pvars(Terminate) /\ WF_pvars(Reap) /\ WF_pvars(ReturnTimedOut)
  /\ \A st \in Streams : WF_pvars(Read(st)) /\ WF_pvars(Eof(st)) /\ WF_pvars(DrainTimeUp(st))

-----------------------------------------------------------------------------
ProcessTypeOK ==
  /\ windows \in BOOLEAN
  /\ pc \in {"idle", "attach", "wait", "drain", "kill", "reap", "finish", "returned"}
  /\ alive \subseteq Members /\ exit \in Codes
  /\ holds \in [Streams -> SUBSET Members] /\ \A st \in Streams : holds[st] \subseteq alive
  /\ pipe \in [Streams -> 0..MaxChunks] /\ taken \in [Streams -> 0..MaxChunks]
  /\ reader \in [Streams -> {"none", "reading", "eof", "aborted"}]
  /\ outcome \in Outcomes

(* A result that reports a timeout leaves nothing of the process group     *)
(* behind; only what left the group on Unix can still run.  No result      *)
(* leaves the child itself, also when attaching or killing failed.         *)
NothingLeftBehind ==
  pc = "returned" =>
    /\ "child" \notin alive
    /\ outcome.kind = "timeout" => alive \subseteq (IF windows THEN {} ELSE {"outer"})

(* A result has all that was written to a stream, unless a process that    *)
(* still holds it, or data in flight at the 250 ms, made the reader be     *)
(* aborted; after a timeout there is no such exception.                    *)
OutputComplete ==
  pc = "returned" /\ outcome.kind \in {"exit", "timeout"} =>
    \A st \in Streams :
      \/ reader[st] = "eof" /\ pipe[st] = 0 /\ holds[st] = {}
      \/ outcome.kind = "exit" /\ reader[st] = "aborted"

(* What the result of a command says of its processes and output is true. *)
ResultIsTrue == NothingLeftBehind /\ OutputComplete

(* A command that started returns or is dropped, unless a process that     *)
(* left the group of a command that timed out keeps one of its pipes open: *)
(* then the caller waits as long as that process likes.                    *)
Escaped == pc = "finish" /\ \E st \in Streams : "outer" \in holds[st]

CommandReturns == Running ~> (pc \in {"idle", "returned"} \/ Escaped)
=============================================================================
