--------------------------- MODULE WireProjection ---------------------------
(***************************************************************************)
(* How the conversation becomes a provider request                         *)
(* (crates/tjuae-providers/src/openai_messages.rs and anthropic_shared.rs, *)
(* under the default ProviderCompat of each).  Both providers refuse a     *)
(* request whose tool calls and tool results do not pair up; the history   *)
(* holds malformed, unanswered and truncated rounds, and the projection    *)
(* has to turn any of them into a request that does.                       *)
(*                                                                         *)
(* A message is [role, calls, results]; its text is left out.  A call is   *)
(* [id, named, n], a result [id, n]: id is the provider's id (0 when       *)
(* empty), named says whether the function name is non-empty, and n, which *)
(* no code sees, is the call the block is about.  Generated ids are        *)
(* negative.                                                               *)
(***************************************************************************)
EXTENDS SequencesExt

UserText == [role |-> "user", calls |-> <<>>, results |-> <<>>]
AssistantText == [role |-> "assistant", calls |-> <<>>, results |-> <<>>]
Calls(calls) == [role |-> "assistant", calls |-> calls, results |-> <<>>]
Results(results) == [role |-> "user", calls |-> <<>>, results |-> results]

Ids(seq) == {seq[i].id : i \in DOMAIN seq}

-----------------------------------------------------------------------------
(* Both projections walk the history with the same bookkeeping:            *)
(*   out       the request so far                                          *)
(*   dropped   id -> calls with that id downgraded to text                 *)
(*   generated ids made up for calls that had none, oldest first           *)
(*   available ids of the calls in the request                             *)
(*   fresh     next generated id                                           *)
(*   tick      0 when the clock that generated ids are made from stands     *)
(*             still: milliseconds for Anthropic, nanoseconds for OpenAI     *)

Start(ids, tick) == [out |-> <<>>, dropped |-> [i \in ids |-> 0], generated |-> <<>>,
                     available |-> {}, fresh |-> -1, tick |-> tick]

(* A call without a name is downgraded; one without an id gets one.        *)
ProjectCall(st, call) ==
  IF ~call.named
  THEN [st EXCEPT !.dropped[call.id] = @ + 1]
  ELSE LET id == IF call.id = 0 THEN st.fresh ELSE call.id
       IN [st EXCEPT !.available = @ \cup {id},
                     !.generated = IF call.id = 0 THEN Append(@, id) ELSE @,
                     !.fresh = IF call.id = 0 THEN @ - st.tick ELSE @,
                     !.out = Append(@, [id |-> id, n |-> call.n])]

ProjectResultNewestId(st, result) == \* mutant: generated ids are handed out newest first
  IF st.dropped[result.id] > 0
  THEN [st EXCEPT !.dropped[result.id] = @ - 1]
  ELSE LET takes == result.id = 0 /\ st.generated # <<>>
           id == IF takes THEN Last(st.generated) ELSE result.id
       IN [st EXCEPT !.generated = IF takes THEN Front(@) ELSE @,
                     !.out = IF id \in st.available
                             THEN Append(@, [id |-> id, n |-> result.n]) ELSE @]

ProjectResultKeepingOrphans(st, result) == \* mutant: clean_orphan_tool_results has no effect
  IF st.dropped[result.id] > 0
  THEN [st EXCEPT !.dropped[result.id] = @ - 1]
  ELSE LET takes == result.id = 0 /\ st.generated # <<>>
           id == IF takes THEN Head(st.generated) ELSE result.id
       IN [st EXCEPT !.generated = IF takes THEN Tail(@) ELSE @,
                     !.out = Append(@, [id |-> id, n |-> result.n])]

(* The result of a downgraded call is skipped (the first with its id), a   *)
(* result without an id takes the oldest generated one, and a result whose *)
(* call is not in the request is an orphan and skipped.                    *)
ProjectResult(st, result) ==
  IF st.dropped[result.id] > 0
  THEN [st EXCEPT !.dropped[result.id] = @ - 1]
  ELSE LET takes == result.id = 0 /\ st.generated # <<>>
           id == IF takes THEN Head(st.generated) ELSE result.id
       IN [st EXCEPT !.generated = IF takes THEN Tail(@) ELSE @,
                     !.out = IF id \in st.available
                             THEN Append(@, [id |-> id, n |-> result.n]) ELSE @]

(* Runs step over the blocks of one message, with out holding them alone.  *)
Blocks(step(_, _), st, blocks) == FoldLeft(step, [st EXCEPT !.out = <<>>], blocks)

HistoryIds(history) ==
  UNION {Ids(history[i].calls) \cup Ids(history[i].results) : i \in DOMAIN history}

-----------------------------------------------------------------------------
(* Chat completions: a message per tool result, then the clean-up passes.  *)

ToolMessage(result) == [role |-> "tool", calls |-> <<>>, id |-> result.id, n |-> result.n]
ChatMessage(role, calls) == [role |-> role, calls |-> calls, id |-> 0, n |-> 0]

OpenAiStep(st, msg) ==
  IF msg.results # <<>>
  THEN LET blocks == Blocks(ProjectResult, st, msg.results)
       IN [blocks EXCEPT !.out = st.out \o [i \in DOMAIN @ |-> ToolMessage(@[i])]]
  ELSE LET blocks == Blocks(ProjectCall, st, msg.calls)
       IN [blocks EXCEPT !.out = Append(st.out, ChatMessage(msg.role, @))]

(* Of several results with one id only the last stays.                     *)
DedupToolResults(request) ==
  LET kept == [i \in DOMAIN request |->
                 IF \E j \in i+1..Len(request) :
                      request[i].role = "tool" /\ request[j].role = "tool"
                      /\ request[j].id = request[i].id
                 THEN <<>> ELSE <<request[i]>>]
  IN FlattenSeq(kept)

CleanOrphanedToolCalls(request) ==
  LET answered == {request[i].id : i \in {j \in DOMAIN request : request[j].role = "tool"}}
  IN [i \in DOMAIN request |->
        [request[i] EXCEPT !.calls = SelectSeq(@, LAMBDA c : c.id \in answered)]]

MergeConsecutiveAssistant(request) ==
  FoldLeft(LAMBDA out, msg :
             IF out # <<>> /\ Last(out).role = "assistant" /\ msg.role = "assistant"
             THEN [out EXCEPT ![Len(out)].calls = @ \o msg.calls]
             ELSE Append(out, msg),
           <<>>, request)

OpenAiRequest(history) ==
  MergeConsecutiveAssistant(CleanOrphanedToolCalls(DedupToolResults(
    FoldLeft(OpenAiStep, Start(HistoryIds(history) \cup {0}, 1), history).out)))

(* Every assistant message with tool calls is followed by one tool message *)
(* per call and by no other, and no tool message stands anywhere else.     *)
OpenAiPaired(request) ==
  LET answers(i) == {j \in i+1..Len(request) : \A k \in i+1..j : request[k].role = "tool"}
  IN /\ \A i \in DOMAIN request :
          request[i].role # "tool" =>
            /\ {request[j].id : j \in answers(i)} = Ids(request[i].calls)
            /\ Cardinality(answers(i)) = Len(request[i].calls)
            /\ Cardinality(Ids(request[i].calls)) = Len(request[i].calls)
     /\ request # <<>> => request[1].role # "tool"

-----------------------------------------------------------------------------
(* Messages API: calls and results are blocks; neighbours of one role are  *)
(* merged and the two roles alternate, starting with the user.             *)

AnthropicMessage(role, uses, results) == [role |-> role, uses |-> uses, results |-> results]

MergeSameRole(out, msg) ==
  IF out # <<>> /\ Last(out).role = msg.role
  THEN [out EXCEPT ![Len(out)].uses = @ \o msg.uses,
                   ![Len(out)].results = @ \o msg.results]
  ELSE Append(out, msg)

AnthropicStep(st, msg) ==
  LET uses == Blocks(ProjectCall, st, msg.calls)
      results == Blocks(ProjectResult, uses, msg.results)
  IN [results EXCEPT !.out = MergeSameRole(st.out,
        AnthropicMessage(msg.role, uses.out, results.out))]

EnsureAlternation(request) ==
  IF request # <<>> /\ request[1].role = "assistant"
  THEN <<AnthropicMessage("user", <<>>, <<>>)>> \o request
  ELSE request

AnthropicRequest(history, tick) ==
  EnsureAlternation(
    FoldLeft(AnthropicStep, Start(HistoryIds(history) \cup {0}, tick), history).out)

UsesUnique(request) ==
  \A i, j \in DOMAIN request :
    \A k \in DOMAIN request[i].uses, l \in DOMAIN request[j].uses :
      request[i].uses[k].id = request[j].uses[l].id => i = j /\ k = l

(* The uses of an assistant message are answered one for one by the next   *)
(* message, results answer nothing else, and the roles alternate.          *)
AnthropicPaired(request) ==
  /\ UsesUnique(request)
  /\ \A i \in DOMAIN request :
       LET results == IF i < Len(request) THEN request[i+1].results ELSE <<>>
       IN /\ Ids(results) = Ids(request[i].uses)
          /\ Len(results) = Len(request[i].uses)
          /\ request[i].role = (IF i % 2 = 1 THEN "user" ELSE "assistant")
  /\ request # <<>> => request[1].results = <<>>
=============================================================================
