------------------------------ MODULE Decoders ------------------------------
(***************************************************************************)
(* One model response, from the bytes of its body to the events the runner *)
(* forwards (crates/tjuae-providers): Utf8StreamDecoder and the framers    *)
(* (framing.rs), the parsers of the four APIs (openai.rs,                  *)
(* openai_responses.rs, anthropic_shared.rs, which Bedrock shares) and the *)
(* loops that drive them and judge how the stream ended                    *)
(* (stream_process.rs).  StreamRunner drives it and acts on that           *)
(* judgement.                                                              *)
(*                                                                         *)
(* A body is a sequence of frames.  On the wire a frame is a character of  *)
(* two bytes, the first of which is broken in one frame, and a terminator; *)
(* the network cuts the bytes into chunks anywhere.  A frame carries one   *)
(* thing: a chunk of the OpenAI API that carries several is as several     *)
(* frames in the order in which parse_sse_chunk looks at them.             *)
(***************************************************************************)
EXTENDS Integers, Sequences, FiniteSets, SequencesExt

CONSTANTS
  Bodies,   \* the responses of the servers: records as below
  MaxChunk  \* bound: bytes of a chunk

ASSUME ChunkAssumption == MaxChunk \in Nat \ {0}

(* What a body is typed by: a delta says which call it belongs to, counted *)
(* from 1, and what the Responses API calls an item is a call or a         *)
(* reasoning item.                                                         *)
ASSUME BodiesAssumption ==
  \A r \in Bodies :
    /\ r.frames \in Seq(ToSet(r.frames))
    /\ \A f \in ToSet(r.frames) :
         /\ f.type = "call" => f.index \in Nat \ {0}
         /\ f.type = "item" => f.item.kind \in {"item", "call"}
         /\ f.type = "terminal" =>
              /\ f.output \in Seq(ToSet(f.output))
              /\ \A e \in ToSet(f.output) : e.kind \in {"item", "call"}

VARIABLES
  response,  \* what the server sends, and what it means by it
  arrived,   \* bytes received
  decoded,   \* bytes that have left the decoder's pending buffer
  garbled,   \* frames with a byte that was decoded as U+FFFD
  parsed,    \* frames parsed
  ended,     \* the body ended without an error
  st,        \* the parser's state
  sending,   \* events of the frame just parsed, not sent yet
  closing,   \* the loop returns after them
  emitted,   \* emitted_content
  outcome,   \* StreamOutcome, "open", or "none" without a response
  out        \* observer: events sent

bytes == <<arrived, decoded, garbled>>
parser == <<parsed, st, sending, closing>>
decoder == <<response, bytes, ended, parser, emitted, outcome, out>>

Apis == {"openai", "responses", "anthropic", "bedrock"}

-----------------------------------------------------------------------------
(* A response r is of r.api and has r.frames, of which frame r.bad has the *)
(* broken byte (0: none).  It means r.text, a reasoning r.item, the calls  *)
(* 1..r.calls, each of two argument pieces, finished for r.reason, with or *)
(* without r.usage; r.auto: the server leaves ids to the client.           *)

Missing == 0      \* a field that is not there
Blank == -1       \* one that is ""
Generated == -2   \* a fresh id (generate_call_id)

Call(i) == [kind |-> "call", id |-> i, name |-> i, args |-> <<1, 2>>]
Text == [kind |-> "text"]
Item == [kind |-> "item"]
Error == [kind |-> "error"]
Done(reason, usage) == [kind |-> "done", reason |-> reason, usage |-> usage]

When(condition, s) == IF condition THEN s ELSE <<>>

(* A server that leaves the ids to the client is met with auto_tool_id.    *)
Named(r, i) == IF r.auto THEN [Call(i) EXCEPT !.id = Generated] ELSE Call(i)

(* What a receiver should hear of a whole response.                        *)
Meant(r) ==
  When(r.text, <<Text>>) \o When(r.item, <<Item>>) \o [i \in 1..r.calls |-> Named(r, i)]
    \o <<IF r.reason = "error" THEN Error ELSE Done(r.reason, r.usage)>>

-----------------------------------------------------------------------------
(* Bytes and frames *)

Length == 3 * Len(response.frames)

FrameOf(b) == (b + 2) \div 3

Byte(b) ==
  CASE b % 3 = 1 -> IF FrameOf(b) = response.bad THEN "bad" ELSE "lead"
    [] b % 3 = 2 -> "cont"
    [] OTHER -> "end"

(* Frames whose terminator is among the first n bytes: what follows the    *)
(* last terminator stays in the framer's buffer.                           *)
FramesIn(n) == n \div 3

(* str::from_utf8's valid_up_to over the bytes pending after `from`.       *)
IsChar(b, to) ==
  \/ Byte(b) \in {"cont", "end"}
  \/ Byte(b) = "lead" /\ b < to
ValidUpTo(from, to) ==
  CHOOSE n \in from..to : (\A b \in from + 1..n : IsChar(b, to)) /\ (n < to => ~IsChar(n + 1, to))

PushLossy(from, to) == \* mutant: every chunk is decoded by itself
  to

(* Utf8StreamDecoder::push: a byte that starts no character is dropped     *)
(* once more than three bytes wait behind it, and only that byte.          *)
Push(from, to) ==
  IF ValidUpTo(from, to) > from THEN ValidUpTo(from, to)
  ELSE IF to - from > 3 THEN from + 1
  ELSE from

Decode(to) ==
  /\ decoded' = to
  /\ garbled' = garbled \cup {FrameOf(b) : b \in {c \in decoded + 1..to : ~IsChar(c, to)}}

TakeMessagesEager(to) == \* mutant: the message of the last byte is taken before it is whole
  3 * FrameOf(to)

(* parse_aws_event takes whole messages by their length.                   *)
TakeMessages(to) == to - (to % 3)

(* The loop is back at stream.next(): everything framed is parsed and sent. *)
Reading == outcome = "open" /\ sending = <<>> /\ parsed = FramesIn(decoded)

(* stream.next(): a chunk.                                                 *)
ReceiveChunk(n) ==
  /\ Reading /\ ~ended /\ arrived + n <= Length
  /\ arrived' = arrived + n
  /\ Decode(IF response.api = "bedrock" THEN TakeMessages(arrived + n)
            ELSE Push(decoded, arrived + n))
  /\ UNCHANGED <<response, ended, parser, emitted, outcome, out>>

-----------------------------------------------------------------------------
(* Parsing a frame *)

(* An accumulator nothing was said about yet.                              *)
NoCall == [kind |-> "call", id |-> Blank, name |-> Blank, args |-> <<>>]

NewParser ==
  [calls |-> <<>>, pending |-> "none", usage |-> FALSE, seen |-> {}, block |-> "none",
   tool |-> NoCall, done |-> FALSE]

ContentWithoutItems == {"text", "call"} \* mutant: a provider item does not count as content

(* The events that set emitted_content.                                    *)
ContentKinds == {"text", "call", "item"}

Frame == response.frames[parsed + 1]

AtFrame == outcome = "open" /\ sending = <<>> /\ parsed < FramesIn(decoded)

Parsing(apis, type) == AtFrame /\ response.api \in apis /\ Frame.type = type

(* The events of a frame; `last` holds where the loop returns after it.    *)
Say(events, last) ==
  /\ parsed' = parsed + 1
  /\ sending' = events
  /\ closing' = (last /\ events # <<>>)
  /\ outcome' = IF last /\ events = <<>> THEN "Ok" ELSE outcome
  /\ UNCHANGED <<response, bytes, ended, emitted, out>>

Learn(events) == Say(events, FALSE)

SendUnmarked == \* mutant: content does not set emitted_content
  /\ sending # <<>>
  /\ sending' = Tail(sending)
  /\ out' = Append(out, Head(sending))
  /\ outcome' = IF closing /\ Tail(sending) = <<>> THEN "Ok" ELSE outcome
  /\ UNCHANGED <<response, bytes, ended, parsed, st, closing, emitted>>

(* tx.send: one event.                                                     *)
Send ==
  /\ sending # <<>>
  /\ sending' = Tail(sending)
  /\ out' = Append(out, Head(sending))
  /\ emitted' = (emitted \/ Head(sending).kind \in ContentKinds)
  /\ outcome' = IF closing /\ Tail(sending) = <<>> THEN "Ok" ELSE outcome
  /\ UNCHANGED <<response, bytes, ended, parsed, st, closing>>

(* The receiver is gone: the stream ends as Ok.                            *)
SendToNobody ==
  /\ sending # <<>>
  /\ sending' = <<>> /\ outcome' = "Ok"
  /\ UNCHANGED <<response, bytes, ended, parsed, st, closing, emitted, out>>

(* Bedrock's payload must be UTF-8; the others read U+FFFD.                *)
Unreadable == response.api = "bedrock" /\ response.bad = parsed + 1

(* Invalid JSON, comments, unknown events, and message_stop.               *)
SkipFrame ==
  /\ \/ Parsing(Apis, "other")
     \/ AtFrame /\ Unreadable
  /\ UNCHANGED st /\ Learn(<<>>)

(* Text and thinking deltas of every API.                                  *)
TextDelta ==
  /\ Parsing(Apis, "text") /\ ~Unreadable
  /\ UNCHANGED st /\ Learn(<<Text>>)

(* OpenAI chat completions *)

(* get_or_create_tool                                                      *)
Grown(calls, index) ==
  calls \o [j \in 1..(IF index > Len(calls) THEN index - Len(calls) ELSE 0) |-> NoCall]

AccumulateLast(calls, f) == \* mutant: a delta without a name continues the newest call
  LET i == IF f.name \in {Missing, Blank} /\ calls # <<>> THEN Len(calls) ELSE f.index
  IN [Grown(calls, i) EXCEPT ![i].id = IF f.id = Missing THEN @ ELSE f.id,
                             ![i].name = IF f.name \in {Missing, Blank} THEN @ ELSE f.name,
                             ![i].args = @ \o f.args]

AccumulateBlank(calls, f) == \* mutant: a blank name erases the name
  [Grown(calls, f.index) EXCEPT ![f.index].id = IF f.id = Missing THEN @ ELSE f.id,
                                ![f.index].name = IF f.name = Missing THEN @ ELSE f.name,
                                ![f.index].args = @ \o f.args]

(* The loop over delta.tool_calls: some APIs repeat the name as "".        *)
Accumulate(calls, f) ==
  [Grown(calls, f.index) EXCEPT ![f.index].id = IF f.id = Missing THEN @ ELSE f.id,
                                ![f.index].name = IF f.name \in {Missing, Blank} THEN @ ELSE f.name,
                                ![f.index].args = @ \o f.args]

CallDelta ==
  /\ Parsing({"openai"}, "call")
  /\ st' = [st EXCEPT !.calls = Accumulate(@, Frame)]
  /\ Learn(<<>>)

UsageChunk ==
  /\ Parsing({"openai"}, "usage")
  /\ st' = [st EXCEPT !.usage = TRUE]
  /\ Learn(<<>>)

PendingReason(reason) ==
  CASE reason = "length" -> "max_tokens"
    [] reason = "stop" /\ st.calls = <<>> -> "end_turn"
    [] OTHER -> "tool_use"

(* auto_tool_id *)
WithIds(calls) ==
  [i \in DOMAIN calls |->
    IF calls[i].id = Blank /\ response.auto THEN [calls[i] EXCEPT !.id = Generated] ELSE calls[i]]

FinishEarly == \* mutant: Done is sent with the finish_reason
  /\ Parsing({"openai"}, "finish")
  /\ st' = [st EXCEPT !.calls = <<>>]
  /\ Learn(WithIds(st.calls) \o <<Done(PendingReason(Frame.reason), st.usage)>>)

(* finish_reason: the calls are emitted, unless the answer was cut off,    *)
(* and Done waits for [DONE].                                              *)
FinishReason ==
  /\ Parsing({"openai"}, "finish")
  /\ LET cut == Frame.reason = "length"
     IN /\ st' = [st EXCEPT !.pending = PendingReason(Frame.reason),
                            !.calls = IF cut THEN @ ELSE <<>>]
        /\ Learn(IF cut THEN <<>> ELSE WithIds(st.calls))

(* flush_done *)
DoneSentinel ==
  /\ Parsing({"openai"}, "[DONE]")
  /\ st' = [st EXCEPT !.pending = "none"]
  /\ Say(When(st.pending # "none", <<Done(st.pending, st.usage)>>), TRUE)

(* OpenAI Responses *)

UnseenAny(items) == items \* mutant: seen_output_items is not consulted

(* seen_output_items: the items not told yet, each once.                   *)
Unseen(items) ==
  LET told[k \in 0..Len(items)] ==
        IF k = 0 THEN <<>>
        ELSE IF items[k] \in st.seen \cup ToSet(told[k - 1]) THEN told[k - 1]
        ELSE Append(told[k - 1], items[k])
  IN told[Len(items)]

OutputItem ==
  /\ Parsing({"responses"}, "item")
  /\ st' = [st EXCEPT !.seen = @ \cup {Frame.item}]
  /\ Learn(Unseen(<<Frame.item>>))

(* response.completed, incomplete, failed and error: the items that were   *)
(* not told, and the end.  The stop reason is that of all the calls seen.  *)
ResponseEnds ==
  /\ Parsing({"responses"}, "terminal")
  /\ LET told == st.seen \cup ToSet(Frame.output)
         reason == IF Frame.status = "incomplete" THEN "max_tokens"
                   ELSE IF \E e \in told : e.kind = "call" THEN "tool_use" ELSE "end_turn"
         end == IF Frame.status = "failed" THEN Error ELSE Done(reason, TRUE)
     IN /\ st' = [st EXCEPT !.seen = told]
        /\ Say(Unseen(Frame.output) \o <<end>>, TRUE)

(* Anthropic, and Bedrock behind its own framing *)

Anthropics == {"anthropic", "bedrock"}

MessageStart ==
  /\ Parsing(Anthropics, "start") /\ ~Unreadable
  /\ st' = [st EXCEPT !.usage = TRUE]
  /\ Learn(<<>>)

(* content_block_start *)
BlockStart ==
  /\ Parsing(Anthropics, "block") /\ ~Unreadable
  /\ st' = [st EXCEPT !.block = Frame.block,
                      !.tool = IF Frame.block = "tool_use"
                               THEN [NoCall EXCEPT !.id = Frame.id, !.name = Frame.id] ELSE @]
  /\ Learn(<<>>)

(* input_json_delta *)
InputDelta ==
  /\ Parsing(Anthropics, "input") /\ ~Unreadable
  /\ st' = [st EXCEPT !.tool.args = @ \o Frame.args]
  /\ Learn(<<>>)

BlockStopAny == \* mutant: a call is emitted at the end of any block
  /\ Parsing(Anthropics, "stop") /\ ~Unreadable
  /\ st' = [st EXCEPT !.block = "none", !.tool.args = <<>>]
  /\ Learn(<<st.tool>>)

(* content_block_stop *)
BlockStop ==
  /\ Parsing(Anthropics, "stop") /\ ~Unreadable
  /\ LET call == st.block = "tool_use"
     IN /\ st' = [st EXCEPT !.block = "none", !.tool.args = IF call THEN <<>> ELSE @]
        /\ Learn(When(call, <<st.tool>>))

MessageDelta ==
  /\ Parsing(Anthropics, "delta") /\ ~Unreadable
  /\ st' = [st EXCEPT !.done = TRUE]
  /\ Learn(<<Done(Frame.reason, st.usage)>>)

(* An error event; the loop reads on.                                      *)
ErrorEvent ==
  /\ Parsing(Anthropics, "error") /\ ~Unreadable
  /\ UNCHANGED st /\ Learn(<<Error>>)

ParseFrame ==
  \/ SkipFrame \/ TextDelta
  \/ CallDelta \/ UsageChunk \/ FinishReason \/ DoneSentinel
  \/ OutputItem \/ ResponseEnds
  \/ MessageStart \/ BlockStart \/ InputDelta \/ BlockStop \/ MessageDelta \/ ErrorEvent

-----------------------------------------------------------------------------
(* How the stream ends *)

Failed == IF emitted THEN "FailedPartial" ELSE "FailedEmpty"

(* The connection breaks.                                                  *)
ConnectionError ==
  /\ Reading /\ ~ended
  /\ outcome' = Failed
  /\ UNCHANGED <<response, bytes, ended, parser, emitted, out>>

BodyEndsUnflushed == \* mutant: what the decoder holds back is forgotten
  /\ Reading /\ ~ended
  /\ ended' = TRUE
  /\ UNCHANGED <<response, bytes, parser, emitted, outcome, out>>

(* The body ends, after the last byte or before: flush decodes the rest.   *)
(* parse_aws_event leaves an incomplete message in the buffer.             *)
BodyEnds ==
  /\ Reading /\ ~ended
  /\ ended' = TRUE
  /\ Decode(IF response.api = "bedrock" THEN decoded ELSE arrived)
  /\ UNCHANGED <<response, arrived, parser, emitted, outcome, out>>

MadeUpAlways == \* mutant: emitted_done is not consulted
  When(response.api = "bedrock" /\ st.usage, <<Done("end_turn", TRUE)>>)

(* Bedrock makes up a Done from the tokens it counted.                     *)
MadeUp ==
  When(response.api = "bedrock" /\ ~st.done /\ st.usage, <<Done("end_turn", TRUE)>>)

(* After the flushed frames.  Only the Responses loop takes a missing end  *)
(* for a failure.                                                          *)
Finish ==
  /\ Reading /\ ended
  /\ sending' = MadeUp /\ closing' = (MadeUp # <<>>)
  /\ outcome' = CASE MadeUp # <<>> -> "open"
                  [] response.api = "responses" -> Failed
                  [] OTHER -> "Ok"
  /\ UNCHANGED <<response, bytes, ended, parsed, st, emitted, out>>

(* The steps of a decoder that do not touch the channel.                   *)
DecoderStep ==
  \/ \E n \in 1..MaxChunk : ReceiveChunk(n)
  \/ ParseFrame \/ ConnectionError \/ BodyEnds \/ Finish

(* A new response, with the decoder's locals; without one there are none.  *)
Fresh(result) ==
  /\ arrived' = 0 /\ decoded' = 0 /\ garbled' = {} /\ ended' = FALSE
  /\ parsed' = 0 /\ st' = NewParser /\ sending' = <<>> /\ closing' = FALSE
  /\ emitted' = FALSE /\ outcome' = result /\ out' = <<>>

NoResponse == [api |-> "none", frames |-> <<>>]

StartDecoder(r) == response' = r /\ Fresh("open")
DropDecoder == response' = NoResponse /\ Fresh("none")

DecoderInit ==
  /\ response = NoResponse
  /\ arrived = 0 /\ decoded = 0 /\ garbled = {} /\ ended = FALSE
  /\ parsed = 0 /\ st = NewParser /\ sending = <<>> /\ closing = FALSE
  /\ emitted = FALSE /\ outcome = "none" /\ out = <<>>

DecoderTypeOK ==
  /\ response \in Bodies \cup {NoResponse}
  /\ arrived \in 0..Length /\ decoded \in 0..arrived /\ parsed \in 0..FramesIn(decoded)
  /\ garbled \subseteq 1..Len(response.frames)
  /\ {ended, closing, emitted} \subseteq BOOLEAN
  /\ {e.kind : e \in ToSet(out \o sending)} \subseteq {"text", "item", "call", "done", "error"}
  /\ outcome \in {"none", "open", "Ok", "FailedPartial", "FailedEmpty"}
=============================================================================
