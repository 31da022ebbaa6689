----------------------------- MODULE FileTools -----------------------------
(***************************************************************************)
(* Read, Edit and Write over a file system that other processes write too, *)
(* with the cache of file states the three share (an LRU list with a limit *)
(* on entries and one on bytes) and the compaction that clears old tool    *)
(* results from the conversation, which the cache is not told of.          *)
(*                                                                         *)
(* The tools run one at a time and without an await, so what interleaves   *)
(* with their steps is the outside world only: every access to the file    *)
(* system is a step.  A content is a version of its file, numbered in the  *)
(* order they were written; the clock is the millisecond of a modification *)
(* time.                                                                   *)
(***************************************************************************)
EXTENDS Naturals, Sequences, SequencesExt

CONSTANTS
  Files,        \* normalised paths
  Ranges,       \* (offset, limit) of a read; "all" is the whole file
  Sizes,        \* bytes of a cached content
  MaxEntries,   \* max_entries of the cache
  MaxBytes,     \* max_size_bytes of the cache
  KeepRecent,   \* micro_keep_recent, at least 1
  MaxWrites,    \* bound: versions written, of all files
  MaxClock,     \* bound: the clock
  MaxCalls,     \* bound: tool calls
  None

ASSUME FileToolsAssumption ==
  /\ "all" \in Ranges /\ Sizes \subseteq Nat /\ MaxBytes \in Nat
  /\ MaxEntries \in Nat \ {0} /\ KeepRecent \in Nat \ {0}
  /\ MaxWrites \in Nat /\ MaxClock \in Nat /\ MaxCalls \in Nat

VARIABLES
  disk,     \* the version and the modification time of a file, None if absent
  newest,   \* the last version written
  clock,
  cache,    \* cached file states, the most recently used first
  bytes,    \* current_size_bytes
  tool,     \* the call under way, between two of its accesses to the disk
  calls,    \* calls so far
  live,     \* the tool results of the conversation that are not cleared
  last,     \* the last result
  seen,     \* versions the model was given or wrote itself
  raced,    \* versions from outside that the time stamps cannot show
  written,  \* versions that an Edit or a Write of the model left
  cleared   \* what the results of Read that were cleared had shown

vars == <<disk, newest, clock, cache, bytes, tool, calls, live, last, seen, raced, written, cleared>>

World == <<disk, newest, clock>>
Known == <<seen, raced, written>>
Versions == Files \X (0..MaxWrites)
Times == (0..MaxClock) \cup {None}

FileState == [path : Files, ver : 0..MaxWrites, range : Ranges, mtime : 0..MaxClock, size : Sizes]
Result == [kind : {"content", "stub", "edited", "written", "error", "other"},
           path : Files, ver : 0..MaxWrites, range : Ranges]
Call == [op : {"read", "edit", "write"}, path : Files, range : Ranges, mtime : Times,
         step : {"read", "write", "cache"}, ver : 0..MaxWrites]

ASSUME NoneAssumption == None \notin Nat /\ None \notin Call

TotalSize(s) ==
  LET sum[n \in 0..Len(s)] == IF n = 0 THEN 0 ELSE sum[n - 1] + s[n].size
  IN sum[Len(s)]
Distinct(s) == \A i, j \in 1..Len(s) : s[i].path = s[j].path => i = j

(* Types, and the accounting of the cache: the byte counter is the sum of  *)
(* the entries, both limits hold (a single entry may be larger than the    *)
(* limit), and a path has one entry, whatever was inserted and evicted.    *)
TypeOK ==
  /\ disk \in [Files -> [ver : 0..MaxWrites, mtime : 0..MaxClock] \cup {None}]
  /\ newest \in 0..MaxWrites /\ clock \in 0..MaxClock /\ calls \in 0..MaxCalls
  /\ cache \in Seq(FileState) /\ tool \in Call \cup {None}
  /\ live \in Seq(Result) /\ last \in Result \cup {None}
  /\ seen \subseteq Versions /\ raced \subseteq Versions /\ written \subseteq Versions
  /\ cleared \subseteq Versions \X Ranges
  /\ bytes = TotalSize(cache) /\ Distinct(cache) /\ Len(cache) <= MaxEntries
  /\ Len(cache) > 1 => bytes <= MaxBytes

-----------------------------------------------------------------------------
Init ==
  /\ disk \in [Files -> {None, [ver |-> 0, mtime |-> 0]}]
  /\ newest = 0 /\ clock = 0
  /\ cache = <<>> /\ bytes = 0 /\ tool = None /\ calls = 0
  /\ live = <<>> /\ last = None /\ seen = {} /\ raced = {}
  /\ written = {} /\ cleared = {}

Mtime(f) == IF disk[f] = None THEN None ELSE disk[f].mtime
Cached(f) == {e \in ToSet(cache) : e.path = f}
Places(f) == {i \in 1..Len(cache) : cache[i].path = f}
Place(f) == CHOOSE i \in Places(f) : TRUE
Others(f) == IF Places(f) = {} THEN cache ELSE RemoveAt(cache, Place(f))

(* FileStateCache::get: the entry becomes the most recently used.          *)
Touch(f) ==
  /\ cache' = (IF Places(f) = {} THEN <<>> ELSE <<cache[Place(f)]>>) \o Others(f)
  /\ UNCHANGED bytes

(* FileStateCache::insert: the old entry of the path goes and its bytes    *)
(* with it, then entries from the end until the counter leaves room, then  *)
(* one more if the list is full.                                           *)
Saturating(a, b) == IF a > b THEN a - b ELSE 0

InsertAbove(e, others, counted) ==
  LET Left(n) == Saturating(counted, TotalSize(SubSeq(others, n + 1, Len(others))))
      room == {n \in 0..Len(others) : n = 0 \/ Left(n) + e.size <= MaxBytes}
      kept == CHOOSE n \in room : \A m \in room : m <= n
      rest == IF kept < MaxEntries THEN kept ELSE MaxEntries - 1
  IN /\ cache' = <<e>> \o SubSeq(others, 1, rest)
     /\ bytes' = Left(rest) + e.size

InsertOldStillCounted(e) == InsertAbove(e, Others(e.path), bytes)

Insert(e) ==
  LET old == IF Places(e.path) = {} THEN 0 ELSE cache[Place(e.path)].size
  IN InsertAbove(e, Others(e.path), Saturating(bytes, old))

(* The call ends with this result, which joins the conversation.           *)
Give(kind, f, ver, r) ==
  LET result == [kind |-> kind, path |-> f, ver |-> ver, range |-> r] IN
  /\ tool' = None /\ last' = result /\ live' = Append(live, result)
  /\ UNCHANGED cleared

Fail(f) == Give("error", f, 0, "all")
Continue(t) == tool' = t /\ UNCHANGED <<live, last, cleared>>
Begin == tool = None /\ calls < MaxCalls /\ calls' = calls + 1

-----------------------------------------------------------------------------
(* Read: the time of the file and the cache decide whether the model is    *)
(* only told that nothing changed.                                         *)
ReadStartAnyTime(f, r) ==
  LET known == {e \in Cached(f) : e.range = r /\ disk[f] # None} IN
  /\ Begin
  /\ IF disk[f] = None THEN UNCHANGED <<cache, bytes>> ELSE Touch(f)
  /\ IF known # {}
       THEN Give("stub", f, disk[f].ver, r)
       ELSE Continue([op |-> "read", path |-> f, range |-> r, mtime |-> Mtime(f), step |-> "read", ver |-> 0])
  /\ UNCHANGED <<World, Known>>

ReadStartAnyRange(f, r) ==
  LET known == {e \in Cached(f) : e.mtime = Mtime(f)} IN
  /\ Begin
  /\ IF disk[f] = None THEN UNCHANGED <<cache, bytes>> ELSE Touch(f)
  /\ IF known # {}
       THEN Give("stub", f, disk[f].ver, r)
       ELSE Continue([op |-> "read", path |-> f, range |-> r, mtime |-> Mtime(f), step |-> "read", ver |-> 0])
  /\ UNCHANGED <<World, Known>>

ReadStart(f, r) ==
  LET known == {e \in Cached(f) : e.range = r /\ e.mtime = Mtime(f)} IN
  /\ Begin
  /\ IF disk[f] = None THEN UNCHANGED <<cache, bytes>> ELSE Touch(f)
  /\ IF known # {}
       THEN Give("stub", f, disk[f].ver, r)
       ELSE Continue([op |-> "read", path |-> f, range |-> r, mtime |-> Mtime(f), step |-> "read", ver |-> 0])
  /\ UNCHANGED <<World, Known>>

(* Then the content, which is remembered under the time taken before.      *)
ReadFile ==
  /\ tool # None /\ tool.op = "read" /\ tool.step = "read"
  /\ LET f == tool.path IN
     \/ /\ disk[f] = None /\ Fail(f) /\ UNCHANGED <<cache, bytes, seen>>
     \/ /\ disk[f] # None /\ Give("content", f, disk[f].ver, tool.range)
        /\ seen' = seen \cup {<<f, disk[f].ver>>}
        /\ IF tool.mtime = None
             THEN UNCHANGED <<cache, bytes>>
             ELSE \E n \in Sizes :
                    Insert([path |-> f, ver |-> disk[f].ver, range |-> tool.range,
                            mtime |-> tool.mtime, size |-> n])
  /\ UNCHANGED <<World, calls, raced, written>>

(* A binary file: its size is all the model gets, and nothing is cached.   *)
ReadBinary ==
  /\ tool # None /\ tool.op = "read" /\ tool.step = "read" /\ disk[tool.path] # None
  /\ Give("other", tool.path, 0, tool.range)
  /\ UNCHANGED <<World, Known, calls, cache, bytes>>

(* Edit: the file must be in the cache, with the time it has on disk.      *)
EditStartUnchecked(f) ==
  LET fresh == Cached(f) # {} IN
  /\ Begin /\ Touch(f)
  /\ IF fresh
       THEN Continue([op |-> "edit", path |-> f, range |-> "all", mtime |-> None, step |-> "read", ver |-> 0])
       ELSE Fail(f)
  /\ UNCHANGED <<World, Known>>

EditStart(f) ==
  LET fresh == \E e \in Cached(f) : disk[f] = None \/ e.mtime = Mtime(f) IN
  /\ Begin /\ Touch(f)
  /\ IF fresh
       THEN Continue([op |-> "edit", path |-> f, range |-> "all", mtime |-> None, step |-> "read", ver |-> 0])
       ELSE Fail(f)
  /\ UNCHANGED <<World, Known>>

(* The content is read, and old_string is found in it, or not, or not      *)
(* uniquely.                                                               *)
EditRead ==
  /\ tool # None /\ tool.op = "edit" /\ tool.step = "read"
  /\ \/ Fail(tool.path)
     \/ /\ disk[tool.path] # None
        /\ Continue([tool EXCEPT !.step = "write", !.ver = disk[tool.path].ver])
  /\ UNCHANGED <<World, Known, calls, cache, bytes>>

(* A new version of f, written by the tool.                                *)
Put(f) ==
  /\ newest < MaxWrites /\ newest' = newest + 1
  /\ disk' = [disk EXCEPT ![f] = [ver |-> newest', mtime |-> clock]]
  /\ UNCHANGED clock

(* A failed write leaves the file as it is, or cut short: a version nobody *)
(* was shown.                                                              *)
Failed(f) ==
  /\ UNCHANGED <<seen, written>>
  /\ \/ UNCHANGED <<World, raced>>
     \/ /\ Put(f)
        /\ raced' = IF clock \in {e.mtime : e \in Cached(f)} THEN raced \cup {<<f, newest'>>} ELSE raced

(* The edited content replaces whatever the file holds now.  The model     *)
(* knows the result as well as it knew what it edited.                     *)
EditWrite ==
  /\ tool # None /\ tool.op = "edit" /\ tool.step = "write"
  /\ LET f == tool.path IN
     \/ Fail(f) /\ Failed(f)
     \/ /\ Put(f)
        /\ Continue([tool EXCEPT !.step = "cache", !.ver = newest'])
        /\ written' = written \cup {<<f, newest'>>}
        /\ IF <<f, tool.ver>> \in seen
             THEN seen' = seen \cup {<<f, newest'>>} /\ UNCHANGED raced
             ELSE raced' = raced \cup {<<f, newest'>>} /\ UNCHANGED seen
  /\ UNCHANGED <<calls, cache, bytes>>

(* Write: parent directories, a temporary file renamed over the target or, *)
(* if that fails, a direct write; no guard asks for an earlier read.       *)
WriteStart(f) ==
  /\ Begin
  /\ \/ Fail(f) /\ Failed(f)
     \/ /\ Put(f)
        /\ Continue([op |-> "write", path |-> f, range |-> "all", mtime |-> None,
                     step |-> "cache", ver |-> newest'])
        /\ seen' = seen \cup {<<f, newest'>>} /\ UNCHANGED raced
        /\ written' = written \cup {<<f, newest'>>}
  /\ UNCHANGED <<cache, bytes>>

(* update_cache_after_write, for both: the time is taken from the disk     *)
(* after the write.                                                        *)
UpdateCache ==
  /\ tool # None /\ tool.step = "cache"
  /\ LET f == tool.path IN
     /\ IF disk[f] = None
          THEN UNCHANGED <<cache, bytes>>
          ELSE \E n \in Sizes :
                 Insert([path |-> f, ver |-> tool.ver, range |-> "all", mtime |-> Mtime(f), size |-> n])
     /\ Give(IF tool.op = "edit" THEN "edited" ELSE "written", f, tool.ver, "all")
  /\ UNCHANGED <<World, Known, calls>>

(* The oldest n results lose their content.                                *)
Clear(n) ==
  /\ live' = SubSeq(live, n + 1, Len(live))
  /\ cleared' = cleared \cup
       {<<<<live[i].path, live[i].ver>>, live[i].range>> : i \in {j \in 1..n : live[j].kind = "content"}}
  /\ UNCHANGED <<World, Known, cache, bytes, tool, calls, last>>

(* microcompact, before a request: after a pause, or with more than twice  *)
(* as many results as are kept, all but the last ones are cleared.         *)
Microcompact == tool = None /\ Len(live) > KeepRecent /\ Clear(Len(live) - KeepRecent)

(* autocompact, after it: a summary takes the place of the conversation.   *)
Autocompact == tool = None /\ live # <<>> /\ Clear(Len(live))

-----------------------------------------------------------------------------
(* The outside world.  A version it writes is raced when the time stamps   *)
(* cannot tell it from what the program recorded: written in a millisecond *)
(* that is already recorded for the file, or while a call is between its   *)
(* check and its write, or between its write and the stat after it.        *)
Window(f) ==
  /\ tool # None /\ tool.path = f
  /\ tool.op = "edit" \/ tool.step = "cache"

Recorded(f) ==
  {e.mtime : e \in Cached(f)} \cup (IF tool # None /\ tool.path = f THEN {tool.mtime} ELSE {})

OutsideWrite(f) ==
  /\ Put(f)
  /\ raced' = IF Window(f) \/ clock \in Recorded(f) THEN raced \cup {<<f, newest'>>} ELSE raced
  /\ UNCHANGED <<cache, bytes, tool, calls, live, last, seen, written, cleared>>

OutsideRemove(f) ==
  /\ disk[f] # None /\ disk' = [disk EXCEPT ![f] = None]
  /\ UNCHANGED <<newest, clock, cache, bytes, tool, calls, live, last, cleared, Known>>

Tick ==
  /\ clock < MaxClock /\ clock' = clock + 1
  /\ UNCHANGED <<disk, newest, cache, bytes, tool, calls, live, last, cleared, Known>>

Next ==
  \/ \E f \in Files :
       \/ \E r \in Ranges : ReadStart(f, r)
       \/ EditStart(f) \/ WriteStart(f) \/ OutsideWrite(f) \/ OutsideRemove(f)
  \/ ReadFile \/ ReadBinary \/ EditRead \/ EditWrite \/ UpdateCache
  \/ Microcompact \/ Autocompact \/ Tick

Spec == Init /\ [][Next]_vars

-----------------------------------------------------------------------------
(* An edit about to write never overwrites a version that the model has    *)
(* not seen, unless it was written in one of the windows of OutsideWrite.  *)
(* (Write promises no such thing.)                                         *)
EditOverwritesSeen ==
  (tool # None /\ tool.op = "edit" /\ tool.step = "write" /\ disk[tool.path] # None)
    => <<tool.path, disk[tool.path].ver>> \in seen \cup raced

(* A read that is answered with "unchanged" hides nothing: the model has   *)
(* seen the version on disk, except one of the same windows.               *)
Stubbed == last # None /\ last.kind = "stub" /\ <<last.path, last.ver>> \notin raced

StubHidesNothing == Stubbed => <<last.path, last.ver>> \in seen

(* And what the conversation shows of the file is that version: the last   *)
(* result that is left of a read, an edit or a write of it.                *)
LastShown(f) ==
  LET shown == {i \in 1..Len(live) :
                  live[i].kind \in {"content", "edited", "written"} /\ live[i].path = f}
  IN {live[i].ver : i \in {j \in shown : \A k \in shown : k <= j}}

StubMatchesLastShown == Stubbed => LastShown(last.path) \subseteq {last.ver}

(* The stub tells the model that an earlier result of Read in this         *)
(* conversation still holds.  One is there, of the same file, range and    *)
(* version, and neither of the two cases the code overlooks: the entry is  *)
(* that of an Edit or a Write, which looks like a read of the whole file,  *)
(* or a compaction cleared the result and left the entry in the cache.     *)
(* There the stub is false, and nothing is claimed of it.                  *)
Reads == {live[i] : i \in {j \in 1..Len(live) : live[j].kind = "content"}}

StubRefersToRead ==
  Stubbed =>
    \/ \E x \in Reads : x.path = last.path /\ x.ver = last.ver /\ x.range = last.range
    \/ last.range = "all" /\ <<last.path, last.ver>> \in written
    \/ <<<<last.path, last.ver>>, last.range>> \in cleared

(* The modification times the cache keeps never make a decision that goes  *)
(* against what the model was shown, and a stub refers to a result of Read *)
(* that is there, with the exceptions its parts name (read.rs, edit.rs,    *)
(* file_cache.rs).                                                         *)
CacheAgreesWithModel ==
  EditOverwritesSeen /\ StubHidesNothing /\ StubMatchesLastShown /\ StubRefersToRead
=============================================================================
