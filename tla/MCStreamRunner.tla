--------------------------- MODULE MCStreamRunner ---------------------------
(* Whole responses of the four APIs: no call or one or two with two        *)
(* argument pieces each, with and without text, reasoning item and a       *)
(* broken byte, and the ways each API finishes one.                        *)
EXTENDS StreamRunner

Other == [type |-> "other"]
TextFrame == [type |-> "text"]
Answer(text, item, calls) == [text |-> text, item |-> item, calls |-> calls]
Answers == {Answer(TRUE, FALSE, 0), Answer(FALSE, FALSE, 1), Answer(TRUE, FALSE, 2)}

Made(api, answer, reason, usage, frames) ==
  { [api |-> api, frames |-> frames, bad |-> bad, text |-> answer.text, item |-> answer.item,
     calls |-> answer.calls, auto |-> FALSE, reason |-> reason, usage |-> usage]
    : bad \in {0, 2} }

(* OpenAI: each call's first delta names it, the later one has no name or  *)
(* a blank one; the deltas of two calls interleave.                        *)
First(i) == [type |-> "call", index |-> i, id |-> i, name |-> i, args |-> <<1>>]
Later(i) == [type |-> "call", index |-> i, id |-> Missing, name |-> IF i = 1 THEN Blank ELSE Missing,
             args |-> <<2>>]

Deltas(calls) ==
  CASE calls = 0 -> {<<>>}
    [] calls = 1 -> {<<First(1), Later(1)>>}
    [] OTHER -> {<<First(1), Later(1), First(2), Later(2)>>,
                 <<First(1), First(2), Later(1), Later(2)>>,
                 <<First(1), First(2), Later(2), Later(1)>>}

Finishes(calls) == IF calls = 0 THEN {"stop", "length"} ELSE {"stop", "tool_calls", "length"}

Reason(calls, finish) ==
  CASE finish = "length" -> "max_tokens"
    [] finish = "stop" /\ calls = 0 -> "end_turn"
    [] OTHER -> "tool_use"

OpenAiFrames(a, deltas, finish, usage) ==
  When(a.text, <<TextFrame>>) \o deltas \o <<[type |-> "finish", reason |-> finish]>>
    \o When(usage, <<[type |-> "usage"]>>) \o <<[type |-> "[DONE]"]>>

(* A call that was cut off at the length limit is not meant to be heard.   *)
OpenAiAnswer(a, usage) ==
  UNION { Made("openai", IF finish = "length" THEN [a EXCEPT !.calls = 0] ELSE a,
               Reason(a.calls, finish), usage, OpenAiFrames(a, deltas, finish, usage))
          : finish \in Finishes(a.calls), deltas \in Deltas(a.calls) }

(* The same calls without ids.                                             *)
WithoutIds(r) ==
  [r EXCEPT !.auto = TRUE,
            !.frames = [k \in DOMAIN r.frames |->
              IF r.frames[k].type = "call" THEN [r.frames[k] EXCEPT !.id = Missing] ELSE r.frames[k]]]

OpenAiWithIds ==
  UNION {OpenAiAnswer(a, TRUE) : a \in Answers} \cup OpenAiAnswer(Answer(FALSE, FALSE, 1), FALSE)

OpenAi == OpenAiWithIds \cup {WithoutIds(r) : r \in OpenAiAnswer(Answer(FALSE, FALSE, 1), TRUE)}

(* Responses: an item is told when it is done, with the terminal event, or *)
(* both.                                                                   *)
Items(a) == When(a.item, <<Item>>) \o [i \in 1..a.calls |-> Call(i)]
ItemFrame(item) == [type |-> "item", item |-> item]

Terminal(status, output) == [type |-> "terminal", status |-> status, output |-> output]

Ending(a, status) ==
  CASE status = "failed" -> "error"
    [] status = "incomplete" -> "max_tokens"
    [] a.calls > 0 -> "tool_use"
    [] OTHER -> "end_turn"

ResponsesFrames(a, told, status) ==
  When(a.text, <<TextFrame>>) \o [i \in 1..Len(told) |-> ItemFrame(told[i])] \o <<Other>>
    \o <<Terminal(status, IF status = "failed" THEN <<>> ELSE Items(a))>>

(* An incomplete or failed response has told its items before.             *)
ResponsesAnswer(a, status) ==
  UNION { Made("responses", a, Ending(a, status), TRUE,
               ResponsesFrames(a, SubSeq(Items(a), 1, n), status))
          : n \in IF status = "completed" THEN 0..Len(Items(a)) ELSE {Len(Items(a))} }

Responses ==
  UNION { ResponsesAnswer(a, status)
          : a \in {Answer(TRUE, TRUE, 0), Answer(FALSE, TRUE, 1), Answer(TRUE, FALSE, 2)},
            status \in {"completed", "incomplete", "failed"} }

(* Anthropic and Bedrock: one block after the other.                       *)
CallBlock(i) ==
  <<[type |-> "block", block |-> "tool_use", id |-> i],
    [type |-> "input", args |-> <<1>>], [type |-> "input", args |-> <<2>>], [type |-> "stop"]>>
TextBlock == <<[type |-> "block", block |-> "text"], TextFrame, [type |-> "stop"]>>

Blocks(a) ==
  When(a.text, TextBlock) \o FlattenSeq([i \in 1..a.calls |-> CallBlock(i)])

AnthropicFrames(a, reason) ==
  <<[type |-> "start"]>> \o Blocks(a)
    \o When(reason # "error", <<[type |-> "delta", reason |-> reason]>>)
    \o <<IF reason = "error" THEN [type |-> "error"] ELSE Other>>

Stops(a) == IF a.calls = 0 THEN {"end_turn", "error"} ELSE {"tool_use", "max_tokens"}

AnthropicAnswer(api, a) ==
  UNION {Made(api, a, reason, TRUE, AnthropicFrames(a, reason)) : reason \in Stops(a)}

AnthropicBodies(api) == UNION {AnthropicAnswer(api, a) : a \in Answers}

MCBodies == OpenAi \cup Responses \cup AnthropicBodies("anthropic") \cup AnthropicBodies("bedrock")
=============================================================================
