---------------------------- MODULE StreamRunner ----------------------------
(***************************************************************************)
(* One model request (crates/tjuae-providers): the retries before a        *)
(* response exists (retry.rs), the task that decodes the response          *)
(* (Decoders), forwards its events through a bounded channel and resends   *)
(* the request when a stream broke before it said anything                 *)
(* (stream_runner.rs, stream_process.rs), and the engine's consume_stream  *)
(* at the other end.                                                       *)
(*                                                                         *)
(* An event in the channel is its kind and the attempt it came from.       *)
(***************************************************************************)
EXTENDS Decoders

CONSTANT Capacity   \* of the channel

ASSUME CapacityAssumption == Capacity \in Nat \ {0}

MaxConnectRetries == 2
Max5xxRetries == 5      \* Len(INITIAL_HTTP_5XX_RETRY_BACKOFFS)
MaxStreamRetries == 2

(* ProviderTransport::retry_policy; can_resign holds where retries do.     *)
RetryPolicies ==
  { [apis |-> {"openai", "responses"}, retries |-> MaxStreamRetries, connect |-> TRUE],
    [apis |-> {"anthropic"},           retries |-> MaxStreamRetries, connect |-> FALSE],
    [apis |-> {"bedrock"},             retries |-> 0,                connect |-> FALSE] }

SendErrors == {"connect", "http", "rate_limited", "5xx", "fatal"}

VARIABLES
  policy,
  pc,        \* the runner: "send", "process", "fail" (an error to deliver) or "done"
  connects,  \* connect retries of the current send
  fives,     \* 5xx retries of the current send
  attempt,   \* 0 for the first response, then the stream retries
  channel,   \* events sent and not received
  call,      \* "pending", "streaming" or the error provider.stream returned
  consumer,  \* "reading", "complete", "failed" or "gone"
  \* observers, used by the properties only
  sends,     \* requests sent since the last response
  heard      \* attempts whose content the consumer received

counters == <<connects, fives, attempt>>
runner == <<policy, pc, counters, channel, call, consumer, sends, heard>>
vars == <<decoder, runner>>

Event == [kind : {"text", "item", "call", "done", "error"}, attempt : 0..MaxStreamRetries]

TypeOK ==
  /\ DecoderTypeOK
  /\ policy \in RetryPolicies /\ pc \in {"send", "process", "fail", "done"}
  /\ connects \in 0..MaxConnectRetries /\ fives \in 0..Max5xxRetries
  /\ attempt \in 0..policy.retries
  /\ channel \in Seq(Event) /\ Len(channel) <= Capacity
  /\ call \in {"pending", "streaming"} \cup SendErrors
  /\ consumer \in {"reading", "complete", "failed", "gone"}
  /\ sends \in Nat /\ heard \subseteq 0..MaxStreamRetries

Init ==
  /\ DecoderInit
  /\ policy \in RetryPolicies
  /\ pc = "send" /\ connects = 0 /\ fives = 0 /\ attempt = 0
  /\ channel = <<>> /\ call = "pending" /\ consumer = "reading"
  /\ sends = 0 /\ heard = {}

Listening == consumer = "reading"

-----------------------------------------------------------------------------
(* Sending the request *)

(* What the locals of the retry loops held is gone with them.              *)
SendOk ==
  /\ pc = "send" /\ pc' = "process"
  /\ \E r \in Bodies : r.api \in policy.apis /\ StartDecoder(r)
  /\ call' = "streaming" /\ connects' = 0 /\ fives' = 0 /\ sends' = 0
  /\ UNCHANGED <<policy, attempt, channel, consumer, heard>>

(* The next stream retry: no connect retries, but 5xx retries of its own.  *)
Resend ==
  /\ pc' = "send" /\ attempt' = attempt + 1 /\ fives' = 0
  /\ UNCHANGED connects

ConnectRetryAlways(error) == \* mutant: resends retry connect errors of their own
  error = "connect" /\ policy.connect /\ connects < MaxConnectRetries

(* Connect errors are retried inside the 5xx loop and only before the      *)
(* first response; each round of the 5xx loop has its own connect retries. *)
ConnectRetry(error) ==
  error = "connect" /\ policy.connect /\ attempt = 0 /\ connects < MaxConnectRetries

Http5xxRetryOneMore(error) == \* mutant: off by one
  error = "5xx" /\ fives <= Max5xxRetries

Http5xxRetry(error) == error = "5xx" /\ fives < Max5xxRetries

(* is_retryable_resend_error *)
ResendRetry(error) ==
  error \in {"connect", "http", "rate_limited"} /\ attempt > 0 /\ attempt < policy.retries

SendFails(error) ==
  /\ pc = "send" /\ sends' = sends + 1
  /\ \/ /\ ConnectRetry(error)
        /\ connects' = connects + 1 /\ UNCHANGED <<pc, fives, attempt, call>>
     \/ /\ Http5xxRetry(error)
        /\ fives' = fives + 1 /\ connects' = 0 /\ UNCHANGED <<pc, attempt, call>>
     \/ /\ ResendRetry(error)
        /\ Resend /\ UNCHANGED call
     \/ /\ ~(ConnectRetry(error) \/ Http5xxRetry(error) \/ ResendRetry(error))
        /\ IF attempt = 0 THEN pc' = "done" /\ call' = error
           ELSE pc' = "fail" /\ UNCHANGED call
        /\ UNCHANGED counters
  /\ UNCHANGED <<decoder, policy, channel, consumer, heard>>

-----------------------------------------------------------------------------
(* Forwarding the response *)

Room == Len(channel) < Capacity
Tell(kind) == channel' = Append(channel, [kind |-> kind, attempt |-> attempt])

Decoding ==
  /\ pc = "process" /\ DecoderStep
  /\ UNCHANGED runner

Forward ==
  /\ pc = "process" /\ Listening /\ Room
  /\ Send /\ Tell(Head(sending).kind)
  /\ UNCHANGED <<policy, pc, counters, call, consumer, sends, heard>>

ForwardToNobody ==
  /\ pc = "process" /\ ~Listening
  /\ SendToNobody
  /\ UNCHANGED runner

StreamOk ==
  /\ pc = "process" /\ outcome = "Ok"
  /\ pc' = "done"
  /\ UNCHANGED <<decoder, policy, counters, channel, call, consumer, sends, heard>>

StreamFailedPartialSilent == \* mutant: a stream that broke off after content ends like a success
  /\ pc = "process" /\ outcome = "FailedPartial"
  /\ pc' = "done"
  /\ UNCHANGED <<decoder, policy, counters, channel, call, consumer, sends, heard>>

StreamFailedPartial ==
  /\ pc = "process" /\ outcome = "FailedPartial"
  /\ pc' = "fail"
  /\ UNCHANGED <<decoder, policy, counters, channel, call, consumer, sends, heard>>

StreamFailedEmptyForever == \* mutant: the stream retries are not counted
  /\ pc = "process" /\ outcome = "FailedEmpty"
  /\ pc' = "send" /\ fives' = 0 /\ UNCHANGED <<attempt, connects>> /\ DropDecoder
  /\ UNCHANGED <<policy, channel, call, consumer, sends, heard>>

StreamFailedEmptyUncounted == \* mutant: one retry too many
  /\ pc = "process" /\ outcome = "FailedEmpty"
  /\ IF attempt > policy.retries THEN pc' = "fail" /\ UNCHANGED <<counters, decoder>>
     ELSE Resend /\ DropDecoder
  /\ UNCHANGED <<policy, channel, call, consumer, sends, heard>>

(* A connection error before any content: the request is sent again.       *)
StreamFailedEmpty ==
  /\ pc = "process" /\ outcome = "FailedEmpty"
  /\ IF attempt = policy.retries THEN pc' = "fail" /\ UNCHANGED <<counters, decoder>>
     ELSE Resend /\ DropDecoder
  /\ UNCHANGED <<policy, channel, call, consumer, sends, heard>>

ReportBlocked == \* mutant: the error waits for room even when nobody reads
  /\ pc = "fail" /\ pc' = "done"
  /\ Room /\ Tell("error")
  /\ UNCHANGED <<decoder, policy, counters, call, consumer, sends, heard>>

(* The error is delivered, if anybody is there, and the sender dropped.    *)
Report ==
  /\ pc = "fail" /\ pc' = "done"
  /\ IF Listening THEN Room /\ Tell("error") ELSE UNCHANGED channel
  /\ UNCHANGED <<decoder, policy, counters, call, consumer, sends, heard>>

Runner ==
  \/ SendOk \/ \E error \in SendErrors : SendFails(error)
  \/ Decoding \/ Forward \/ ForwardToNobody
  \/ StreamOk \/ StreamFailedPartial \/ StreamFailedEmpty \/ Report

-----------------------------------------------------------------------------
(* The consumer *)

Receive ==
  /\ Listening /\ channel # <<>>
  /\ LET e == Head(channel)
     IN /\ channel' = Tail(channel)
        /\ heard' = IF e.kind \in {"text", "item", "call"} THEN heard \cup {e.attempt} ELSE heard
        /\ consumer' = IF e.kind = "error" THEN "failed" ELSE consumer
  /\ UNCHANGED <<decoder, policy, pc, counters, call, sends>>

ReceiveEnd ==
  /\ Listening /\ channel = <<>> /\ pc = "done" /\ call = "streaming"
  /\ consumer' = "complete"
  /\ UNCHANGED <<decoder, policy, pc, counters, channel, call, sends, heard>>

(* provider.stream returned an error.                                      *)
CallFails ==
  /\ Listening /\ call \in SendErrors
  /\ consumer' = "failed"
  /\ UNCHANGED <<decoder, policy, pc, counters, channel, call, sends, heard>>

(* The run is dropped by a Stop: before the response that cancels the      *)
(* retries; afterwards it only drops the receiver.                         *)
Leave ==
  /\ Listening
  /\ consumer' = "gone"
  /\ pc' = IF call = "pending" THEN "done" ELSE pc
  /\ UNCHANGED <<decoder, policy, counters, channel, call, sends, heard>>

Consumer == Receive \/ ReceiveEnd \/ CallFails

Next == Runner \/ Consumer \/ Leave

Spec == Init /\ [][Next]_vars

(* Requests and responses end one way or another, and the engine reads     *)
(* until the end.                                                          *)
FairSpec == Spec /\ WF_vars(Runner) /\ WF_vars(Consumer)

-----------------------------------------------------------------------------
(* Properties *)

Content(events) == {i \in DOMAIN events : events[i].kind \in {"text", "item", "call"}}

(* The engine never hears two tellings of one answer: all the content that *)
(* was received or is under way comes from a single response, whatever     *)
(* broke and was resent in between (emitted_content, FailedPartial).       *)
OneResponseHeard ==
  \A j, k \in heard \cup {channel[i].attempt : i \in Content(channel)} : j = k

(* A stream that broke never passes for a complete, shorter answer: the    *)
(* channel then ends with an error, behind whatever it still holds.        *)
CompleteIsEnded == consumer = "complete" => outcome = "Ok"

(* No character is torn, however the bytes are cut into chunks: of what    *)
(* was parsed only the frame that came broken reads as U+FFFD, and the     *)
(* byte that broke it holds back no other (Utf8StreamDecoder).             *)
NothingTorn == \A f \in garbled \cap 1..parsed : f = response.bad

(* Whatever a server sends: the engine hears one response, or an error.    *)
OneResponseWhole == OneResponseHeard /\ CompleteIsEnded /\ NothingTorn

CallsOf(events) == SelectSeq(events, LAMBDA e : e.kind = "call")

(* Whatever arrives, in whatever chunks, and wherever it breaks off: the   *)
(* calls told are the first of the calls the server meant, each once and   *)
(* with its own name and all of its arguments - deltas of several calls    *)
(* interleave, later ones come without names, and Responses tells its      *)
(* items twice (get_or_create_tool, seen_output_items, tool_input_json) -  *)
(* and Done comes once and last, also where Bedrock makes one up.          *)
ToldAsMeant ==
  LET calls == CallsOf(out)
  IN /\ calls # <<>> => Len(calls) <= response.calls
     /\ \A i \in 1..Len(calls) : calls[i] = Named(response, i)
     /\ \A i \in 1..Len(out) : out[i].kind = "done" => i = Len(out)

(* A response that came whole is told as it was meant - text, calls, stop  *)
(* reason and usage - however it was cut into chunks (pending_done).       *)
(* Bedrock drops a broken frame, and the engine reads up to an error.      *)
WholeIsMeant ==
  consumer = "complete" /\ arrived = Length /\ (response.api = "bedrock" => response.bad = 0) =>
    out = Meant(response)

(* So what the engine hears of a response is what the server meant by it.  *)
HeardAsMeant == ToldAsMeant /\ WholeIsMeant

(* Retries multiply - connect retries in the 5xx loop, that in the stream  *)
(* retries - and still one response, or the error that there is none,      *)
(* costs a fixed number of sends.                                          *)
SendsBounded ==
  sends <= (Max5xxRetries + 1) * (IF policy.connect /\ attempt = 0 THEN MaxConnectRetries + 1 ELSE 1)
           + (IF attempt = 0 THEN 0 ELSE (attempt - 1) * (Max5xxRetries + 1))

(* The engine gets an end or an error, even when the channel was full when *)
(* the runner had to report one, and the runner's task ends.               *)
RequestEnds == <>(consumer # "reading" /\ pc = "done")
=============================================================================
