------------------------- MODULE StreamRunnerProofs -------------------------
(***************************************************************************)
(* Proofs about a model request: that the retries, each a loop inside      *)
(* another, send it a bounded number of times, and that the engine hears   *)
(* one response, takes it for complete only when it ended, and never a     *)
(* torn character, whatever bodies a server sends.                         *)
(***************************************************************************)
EXTENDS StreamRunner, NaturalsInduction, WellFoundedInduction, TLAPS

(* Each round of the 5xx loop sends once, and once more for each connect   *)
(* error it retries.                                                       *)
PerRound == IF policy.connect /\ attempt = 0 THEN MaxConnectRetries + 1 ELSE 1

CountersInv ==
  /\ connects \in Nat /\ fives \in Nat /\ attempt \in Nat /\ sends \in Nat
  /\ fives <= Max5xxRetries /\ connects < PerRound
  /\ pc \in {"send", "process", "fail", "done"}

(***************************************************************************)
(* While the runner sends, the counters tell how often it did: a round for *)
(* each 5xx answer, the connect errors of the current one and, before a    *)
(* resend that has no response yet, all the rounds of the resends before.  *)
(***************************************************************************)
SendsInv ==
  /\ pc = "send" =>
       sends <= fives * PerRound + connects
                + (IF attempt = 0 THEN 0 ELSE (attempt - 1) * (Max5xxRetries + 1))
  /\ pc = "process" => sends = 0 /\ connects = 0

RetryInv == CountersInv /\ SendsInv /\ SendsBounded

LEMMA RetryInit == Init => RetryInv
BY DEF Init, RetryInv, CountersInv, SendsInv, SendsBounded, PerRound, Max5xxRetries,
       MaxConnectRetries

(* A failed send is the first of a round, one more of it, or the last.     *)
LEMMA FailedSend ==
  ASSUME RetryInv, NEW error \in SendErrors, SendFails(error)
  PROVE  RetryInv'
<1> USE DEF RetryInv, CountersInv, SendsInv, SendsBounded, PerRound, Max5xxRetries,
            MaxConnectRetries
<1>1. pc = "send" /\ sends' = sends + 1 /\ policy' = policy
  BY DEF SendFails
<1>2. CASE ConnectRetry(error) /\ connects' = connects + 1 /\ UNCHANGED <<pc, fives, attempt, call>>
  BY <1>1, <1>2 DEF ConnectRetry
<1>3. CASE Http5xxRetry(error) /\ fives' = fives + 1 /\ connects' = 0
           /\ UNCHANGED <<pc, attempt, call>>
  BY <1>1, <1>3 DEF Http5xxRetry
<1>4. CASE ResendRetry(error) /\ Resend
  BY <1>1, <1>4 DEF ResendRetry, Resend
<1>5. CASE pc' \in {"done", "fail"} /\ UNCHANGED counters
  BY <1>1, <1>5 DEF counters
<1> QED BY <1>2, <1>3, <1>4, <1>5 DEF SendFails

(* Once there is a response nothing is sent until it breaks.               *)
LEMMA Response ==
  ASSUME RetryInv, SendOk \/ StreamFailedEmpty
  PROVE  RetryInv'
<1> USE DEF RetryInv, CountersInv, SendsInv, SendsBounded, PerRound, Max5xxRetries,
            MaxConnectRetries
<1>1. CASE SendOk
  BY <1>1 DEF SendOk
<1>2. CASE StreamFailedEmpty
  BY <1>2 DEF StreamFailedEmpty, Resend, counters
<1> QED BY <1>1, <1>2

(* Nothing else counts, or resumes sending.                                *)
LEMMA QuietStep ==
  ASSUME RetryInv, UNCHANGED <<policy, counters, sends>>, pc' \in {pc, "fail", "done"}
  PROVE  RetryInv'
BY DEF RetryInv, CountersInv, SendsInv, SendsBounded, PerRound, counters

LEMMA RetryStep ==
  ASSUME RetryInv, [Next]_vars
  PROVE  RetryInv'
<1>1. CASE UNCHANGED vars
  BY <1>1, QuietStep DEF vars, runner
<1>2. CASE Runner
  <2>1. CASE Decoding \/ Forward \/ ForwardToNobody
    BY <2>1, QuietStep DEF Decoding, Forward, ForwardToNobody, runner
  <2>2. CASE StreamOk \/ StreamFailedPartial \/ Report
    BY <2>2, QuietStep DEF StreamOk, StreamFailedPartial, Report
  <2> QED BY <1>2, <2>1, <2>2, FailedSend, Response DEF Runner
<1>3. CASE Consumer
  BY <1>3, QuietStep DEF Consumer, Receive, ReceiveEnd, CallFails
<1>4. CASE Leave
  BY <1>4, QuietStep DEF Leave
<1> QED BY <1>1, <1>2, <1>3, <1>4 DEF Next

(* However sends fail and streams break, a request is sent a bounded       *)
(* number of times for each response it gets, or for none.                 *)
THEOREM SendsAreBounded == Spec => []SendsBounded
<1>1. RetryInv => SendsBounded
  BY DEF RetryInv
<1> QED BY RetryInit, RetryStep, <1>1, PTL DEF Spec

-----------------------------------------------------------------------------
(***************************************************************************)
(* Bytes.  A byte that is no character is decoded as U+FFFD when it is the *)
(* broken one, or when the body ended after it: then its frame has no      *)
(* terminator and is not parsed.  Before that the decoder keeps it.        *)
(***************************************************************************)
BytesInv ==
  /\ arrived \in Nat /\ decoded \in 0..arrived /\ parsed \in 0..FramesIn(decoded)
  /\ response.api = "bedrock" => decoded % 3 = 0
  /\ \A f \in garbled : f = response.bad \/ (ended /\ f > FramesIn(decoded))

Below == {ss \in Nat \X Nat : ss[1] < ss[2]}

LEMMA LeastNatural ==
  ASSUME NEW S, S \subseteq Nat, S # {}
  PROVE  \E m \in S : \A k \in S : m <= k
<1>1. IsWellFoundedOn(Below, Nat)
  BY NatLessThanWellFounded DEF OpToRel, Below
<1>2. PICK m \in S : \A k \in S : <<k, m>> \notin Below
  BY <1>1, WFMin
<1>3. ASSUME NEW k \in S PROVE m <= k
  <2>1. k \in Nat /\ m \in Nat /\ ~(k < m)
    BY <1>2 DEF Below
  <2> QED BY <2>1
<1> QED BY <1>3

(* The first byte that is no character, if there is one, ends the prefix.  *)
LEMMA ValidPrefix ==
  ASSUME NEW from \in Nat, NEW to \in Nat, from <= to
  PROVE  /\ ValidUpTo(from, to) \in from..to
         /\ \A b \in from + 1..ValidUpTo(from, to) : IsChar(b, to)
         /\ ValidUpTo(from, to) < to => ~IsChar(ValidUpTo(from, to) + 1, to)
<1> DEFINE Ends(n) == (\A b \in from + 1..n : IsChar(b, to)) /\ (n < to => ~IsChar(n + 1, to))
           Broken == {b \in from + 1..to : ~IsChar(b, to)}
<1>1. \E n \in from..to : Ends(n)
  <2>1. CASE Broken = {}
    <3>1. Ends(to)
      BY <2>1
    <3> QED BY <3>1
  <2>2. CASE Broken # {}
    <3>1. Broken \subseteq Nat
      OBVIOUS
    <3>2. PICK b \in Broken : \A c \in Broken : b <= c
      BY <2>2, <3>1, LeastNatural
    <3>3. b - 1 \in from..to /\ (b - 1) + 1 = b
      OBVIOUS
    <3>4. \A c \in from + 1..b - 1 : IsChar(c, to)
      BY <3>2
    <3>5. Ends(b - 1)
      BY <3>3, <3>4
    <3> QED BY <3>3, <3>5
  <2> QED BY <2>1, <2>2
<1>2. ValidUpTo(from, to) = CHOOSE n \in from..to : Ends(n)
  BY DEF ValidUpTo
<1> QED BY <1>1, <1>2

(* The decoder gives out whole characters and the broken byte, no others.  *)
LEMMA Pushed ==
  ASSUME NEW from \in Nat, NEW to \in Nat, from <= to
  PROVE  /\ Push(from, to) \in from..to
         /\ \A b \in from + 1..Push(from, to) :
              ~IsChar(b, Push(from, to)) => FrameOf(b) = response.bad
<1> DEFINE n == ValidUpTo(from, to)
<1>1. /\ n \in from..to
      /\ \A b \in from + 1..n : IsChar(b, to)
      /\ n < to => ~IsChar(n + 1, to)
  BY ValidPrefix
<1> HIDE DEF n
<1>2. CASE n > from
  <2>1. Push(from, to) = n
    BY <1>2 DEF Push, n
  <2>2. ASSUME NEW b \in from + 1..n, ~IsChar(b, n) PROVE FrameOf(b) = response.bad
    <3>1. IsChar(b, to)
      BY <1>1
    <3>2. CASE Byte(b) = "lead"
      <4>1. b = n /\ b < to
        BY <1>1, <2>2, <3>1, <3>2 DEF IsChar
      <4>2. b % 3 = 1
        BY <3>2 DEF Byte
      <4>3. (n + 1) % 3 = 2
        BY <1>1, <4>1, <4>2
      <4>4. Byte(n + 1) = "cont"
        BY <4>3 DEF Byte
      <4> QED BY <1>1, <4>1, <4>4 DEF IsChar
    <3>3. CASE Byte(b) # "lead"
      BY <2>2, <3>1, <3>3 DEF IsChar
    <3> QED BY <3>2, <3>3
  <2> QED BY <1>1, <2>1, <2>2
<1>3. CASE ~(n > from) /\ to - from > 3
  <2>1. Push(from, to) = from + 1
    BY <1>3 DEF Push, n
  <2>2. ~IsChar(from + 1, to)
    BY <1>1, <1>3
  <2>3. Byte(from + 1) = "bad"
    BY <1>3, <2>2 DEF IsChar, Byte
  <2>4. FrameOf(from + 1) = response.bad
    BY <2>3 DEF Byte
  <2> QED BY <1>3, <2>1, <2>4
<1>4. CASE ~(n > from) /\ ~(to - from > 3)
  <2>1. Push(from, to) = from
    BY <1>4 DEF Push, n
  <2> QED BY <2>1
<1> QED BY <1>2, <1>3, <1>4

LEMMA FramesGrow ==
  ASSUME NEW m \in Nat, NEW n \in Nat, m <= n
  PROVE  FramesIn(m) \in Nat /\ FramesIn(m) <= FramesIn(n)
BY DEF FramesIn

(* A chunk: what it garbles is in the broken frame.                        *)
LEMMA ChunkBytes ==
  ASSUME BytesInv, NEW n \in Nat, ReceiveChunk(n)
  PROVE  BytesInv'
<1> DEFINE to == IF response.api = "bedrock" THEN TakeMessages(arrived + n)
                 ELSE Push(decoded, arrived + n)
<1> USE DEF BytesInv
<1>1. /\ arrived' = arrived + n /\ Decode(to) /\ ~ended
      /\ UNCHANGED <<response, ended, parsed>>
  BY DEF ReceiveChunk, parser
<1>2. /\ to \in decoded..arrived + n
      /\ \A b \in decoded + 1..to : ~IsChar(b, to) => FrameOf(b) = response.bad
      /\ response.api = "bedrock" => to % 3 = 0
  <2>1. CASE response.api = "bedrock"
    <3>1. to = (arrived + n) - ((arrived + n) % 3) /\ to % 3 = 0 /\ to \in 0..arrived + n
      BY <2>1 DEF TakeMessages
    <3>2. to >= decoded
      <4>1. /\ arrived + n \in Nat /\ decoded \in Nat /\ decoded <= arrived + n
            /\ decoded % 3 = 0
        BY <2>1
      <4>2. \A a, d \in Nat : d <= a /\ d % 3 = 0 => a - (a % 3) >= d
        OBVIOUS
      <4> QED BY <3>1, <4>1, <4>2
    <3>3. \A b \in decoded + 1..to : b < to \/ b % 3 = 0
      BY <3>1
    <3>4. \A b \in decoded + 1..to : ~IsChar(b, to) => Byte(b) = "bad"
      BY <3>3 DEF IsChar, Byte
    <3> QED BY <3>1, <3>2, <3>4 DEF Byte
  <2>2. CASE response.api # "bedrock"
    <3>1. to = Push(decoded, arrived + n) /\ decoded \in Nat /\ arrived + n \in Nat
          /\ decoded <= arrived + n
      BY <2>2
    <3> QED BY <2>2, <3>1, Pushed
  <2> QED BY <2>1, <2>2
<1> HIDE DEF to
<1>3. parsed \in 0..FramesIn(to)
  BY <1>2, FramesGrow DEF FramesIn
<1>4. \A f \in garbled' : f = response.bad
  BY <1>1, <1>2 DEF Decode
<1> QED BY <1>1, <1>2, <1>3, <1>4 DEF Decode, FramesIn

LEMMA EndBytes ==
  ASSUME BytesInv, BodyEnds
  PROVE  BytesInv'
<1> DEFINE to == IF response.api = "bedrock" THEN decoded ELSE arrived
<1> USE DEF BytesInv
<1>1. /\ Decode(to) /\ ended' /\ ~ended
      /\ UNCHANGED <<response, arrived, parsed>>
  BY DEF BodyEnds, parser
<1>2. to \in decoded..arrived /\ (response.api = "bedrock" => to % 3 = 0)
  OBVIOUS
<1> HIDE DEF to
<1>3. parsed \in 0..FramesIn(to)
  BY <1>2, FramesGrow DEF FramesIn
<1>4. ASSUME NEW b \in decoded + 1..to, ~IsChar(b, to)
      PROVE  FrameOf(b) = response.bad \/ FrameOf(b) > FramesIn(to)
  <2>1. CASE Byte(b) = "bad"
    BY <2>1 DEF Byte
  <2>2. CASE Byte(b) # "bad"
    <3>1. b = to /\ b % 3 = 1
      BY <1>2, <1>4, <2>2 DEF IsChar, Byte
    <3> QED BY <1>2, <3>1 DEF FrameOf, FramesIn
  <2> QED BY <2>1, <2>2
<1>5. \A f \in garbled' : f = response.bad \/ f > FramesIn(to)
  BY <1>1, <1>4 DEF Decode
<1> QED BY <1>1, <1>2, <1>3, <1>5 DEF Decode, FramesIn

LEMMA OtherBytes ==
  ASSUME BytesInv, UNCHANGED <<response, bytes, ended>>, parsed' \in {parsed, parsed + 1},
         parsed' = parsed \/ parsed < FramesIn(decoded)
  PROVE  BytesInv'
BY DEF BytesInv, bytes, FramesIn

LEMMA NewBytes ==
  ASSUME NEW result, Fresh(result)
  PROVE  BytesInv'
BY DEF Fresh, BytesInv, FramesIn

(* Parsing takes the next frame, or closes the loop.                       *)
LEMMA ParsedFrame ==
  ASSUME ParseFrame
  PROVE  /\ outcome = "open" /\ outcome' \in {"open", "Ok"} /\ parsed < FramesIn(decoded)
         /\ parsed' = parsed + 1 /\ UNCHANGED <<response, bytes, ended, emitted, out>>
<1> USE DEF AtFrame, Parsing, Say, Learn
<1>1. CASE SkipFrame \/ TextDelta
  BY <1>1 DEF SkipFrame, TextDelta
<1>2. CASE CallDelta \/ UsageChunk \/ FinishReason \/ DoneSentinel
  BY <1>2 DEF CallDelta, UsageChunk, FinishReason, DoneSentinel
<1>3. CASE OutputItem \/ ResponseEnds
  BY <1>3 DEF OutputItem, ResponseEnds
<1>4. CASE MessageStart \/ BlockStart \/ InputDelta \/ BlockStop \/ MessageDelta \/ ErrorEvent
  BY <1>4 DEF MessageStart, BlockStart, InputDelta, BlockStop, MessageDelta, ErrorEvent
<1> QED BY <1>1, <1>2, <1>3, <1>4 DEF ParseFrame

LEMMA DecoderBytes ==
  ASSUME BytesInv, DecoderStep
  PROVE  BytesInv'
<1>1. ASSUME NEW n \in 1..MaxChunk, ReceiveChunk(n) PROVE BytesInv'
  BY <1>1, ChunkBytes, ChunkAssumption
<1>2. CASE ParseFrame
  BY <1>2, ParsedFrame, OtherBytes
<1>3. CASE ConnectionError
  BY <1>3, OtherBytes DEF ConnectionError, parser
<1>4. CASE Finish
  BY <1>4, OtherBytes DEF Finish
<1> QED BY <1>1, <1>2, <1>3, <1>4, EndBytes DEF DecoderStep

LEMMA BytesStep ==
  ASSUME BytesInv, [Next]_vars
  PROVE  BytesInv'
<1>1. CASE UNCHANGED decoder
  BY <1>1, OtherBytes DEF decoder, parser
<1>2. CASE Runner
  <2>1. CASE SendOk
    BY <2>1, NewBytes DEF SendOk, StartDecoder
  <2>2. ASSUME NEW error \in SendErrors, SendFails(error) PROVE BytesInv'
    BY <1>1, <2>2 DEF SendFails
  <2>3. CASE Decoding
    BY <2>3, DecoderBytes DEF Decoding
  <2>4. CASE Forward \/ ForwardToNobody
    BY <2>4, OtherBytes DEF Forward, ForwardToNobody, Send, SendToNobody
  <2>5. CASE StreamOk \/ StreamFailedPartial \/ Report
    BY <1>1, <2>5 DEF StreamOk, StreamFailedPartial, Report
  <2>6. CASE StreamFailedEmpty
    BY <1>1, <2>6, NewBytes DEF StreamFailedEmpty, DropDecoder
  <2> QED BY <1>2, <2>1, <2>2, <2>3, <2>4, <2>5, <2>6 DEF Runner
<1>3. CASE Consumer \/ Leave
  BY <1>1, <1>3 DEF Consumer, Receive, ReceiveEnd, CallFails, Leave
<1>4. CASE UNCHANGED vars
  BY <1>1, <1>4 DEF vars
<1> QED BY <1>2, <1>3, <1>4 DEF Next

-----------------------------------------------------------------------------
(***************************************************************************)
(* What was told of a response, heard or still in the channel: nothing     *)
(* while there is none, and until something is "emitted" nothing at all,   *)
(* so the request that follows a response of which nothing was told is the *)
(* only one that follows.                                                  *)
(***************************************************************************)
IsChannel(c) == c \in Seq({c[i] : i \in DOMAIN c})

UnderWay(events) == {events[i].attempt : i \in Content(events)}

Told == heard \cup UnderWay(channel)

HeardInv ==
  /\ IsChannel(channel)
  /\ Told \subseteq {attempt}
  /\ pc = "send" \/ ~emitted => Told = {}
  /\ outcome \in {"FailedPartial", "FailedEmpty"} => sending = <<>>
  /\ outcome = "FailedEmpty" => ~emitted

Fails(events) == \E i \in DOMAIN events : events[i].kind = "error"

(* What ends without an error reads as ended only when the stream did.     *)
EndInv ==
  /\ consumer = "complete" => pc = "done" /\ outcome = "Ok"
  /\ Listening /\ pc = "done" /\ call = "streaming" => outcome = "Ok" \/ Fails(channel)

LEMMA InChannels ==
  ASSUME NEW S, NEW c \in Seq(S)
  PROVE  IsChannel(c)
<1>1. Len(c) \in Nat /\ DOMAIN c = 1..Len(c)
  OBVIOUS
<1>2. \A i \in 1..Len(c) : c[i] \in {c[j] : j \in DOMAIN c}
  BY <1>1
<1>3. c = [i \in 1..Len(c) |-> c[i]]
  BY <1>1
<1> QED BY <1>1, <1>2, <1>3 DEF IsChannel

LEMMA ChannelAppend ==
  ASSUME IsChannel(channel), NEW kind, Tell(kind)
  PROVE  /\ IsChannel(channel') /\ (Fails(channel) \/ kind = "error" => Fails(channel'))
         /\ UnderWay(channel') = UnderWay(channel)
                                   \cup (IF kind \in ContentKinds THEN {attempt} ELSE {})
<1> DEFINE e == [kind |-> kind, attempt |-> attempt]
           S == {channel[i] : i \in DOMAIN channel} \cup {e}
<1>1. channel \in Seq(S) /\ e \in S /\ channel' = Append(channel, e)
  BY DEF IsChannel, Tell
<1>2. e.kind = kind /\ e.attempt = attempt
  OBVIOUS
<1> HIDE DEF S, e
<1>3. /\ Len(channel) \in Nat /\ DOMAIN channel = 1..Len(channel)
      /\ channel' \in Seq(S) /\ DOMAIN channel' = 1..Len(channel) + 1
      /\ \A i \in 1..Len(channel) : channel'[i] = channel[i]
      /\ channel'[Len(channel) + 1] = e
  BY <1>1
<1>4. IsChannel(channel')
  BY <1>3, InChannels
<1>5. Fails(channel) \/ kind = "error" => Fails(channel')
  BY <1>2, <1>3 DEF Fails
<1>6. Content(channel') = Content(channel)
                            \cup (IF kind \in ContentKinds THEN {Len(channel) + 1} ELSE {})
  BY <1>2, <1>3 DEF Content, ContentKinds
<1>7. \A i \in Content(channel) : i \in 1..Len(channel) /\ channel'[i] = channel[i]
  BY <1>3 DEF Content
<1>8. UnderWay(channel') = UnderWay(channel)
                             \cup (IF kind \in ContentKinds THEN {attempt} ELSE {})
  BY <1>2, <1>3, <1>6, <1>7 DEF UnderWay
<1> QED BY <1>4, <1>5, <1>8

LEMMA ChannelTail ==
  ASSUME IsChannel(channel), channel # <<>>, channel' = Tail(channel)
  PROVE  /\ IsChannel(channel') /\ UnderWay(channel') \subseteq UnderWay(channel)
         /\ Head(channel).kind \in ContentKinds => Head(channel).attempt \in UnderWay(channel)
         /\ Fails(channel) => Fails(channel') \/ Head(channel).kind = "error"
<1> DEFINE S == {channel[i] : i \in DOMAIN channel}
<1>1. channel \in Seq(S)
  BY DEF IsChannel
<1> HIDE DEF S
<1>2. /\ Len(channel) \in Nat \ {0} /\ DOMAIN channel = 1..Len(channel)
      /\ channel' \in Seq(S) /\ DOMAIN channel' = 1..Len(channel) - 1
      /\ \A i \in 1..Len(channel) - 1 : channel'[i] = channel[i + 1]
      /\ Head(channel) = channel[1]
  BY <1>1
<1>3. IsChannel(channel')
  BY <1>2, InChannels
<1>4. ASSUME NEW i \in Content(channel') PROVE channel'[i].attempt \in UnderWay(channel)
  <2>1. i + 1 \in Content(channel) /\ channel'[i] = channel[i + 1]
    BY <1>2 DEF Content
  <2> QED BY <2>1 DEF UnderWay
<1>5. UnderWay(channel') \subseteq UnderWay(channel)
  BY <1>4 DEF UnderWay
<1>6. ASSUME Head(channel).kind \in ContentKinds PROVE Head(channel).attempt \in UnderWay(channel)
  <2>1. 1 \in Content(channel)
    BY <1>2, <1>6 DEF Content, ContentKinds
  <2> QED BY <1>2, <2>1 DEF UnderWay
<1>7. ASSUME Fails(channel), Head(channel).kind # "error" PROVE Fails(channel')
  <2>1. PICK i \in 1..Len(channel) : channel[i].kind = "error"
    BY <1>2, <1>7 DEF Fails
  <2>2. i - 1 \in 1..Len(channel) - 1 /\ (i - 1) + 1 = i
    BY <1>2, <1>7, <2>1
  <2> QED BY <1>2, <2>1, <2>2 DEF Fails
<1> QED BY <1>3, <1>5, <1>6, <1>7

LEMMA HeardInit == Init => HeardInv /\ EndInv /\ BytesInv
<1> SUFFICES ASSUME Init PROVE HeardInv /\ EndInv /\ BytesInv
  OBVIOUS
<1>1. IsChannel(channel) /\ Told = {}
  <2>1. <<>> \in Seq({}) /\ Content(<<>>) = {}
    BY DEF Content
  <2> QED BY <2>1, InChannels DEF Init, Told, UnderWay
<1> QED BY <1>1 DEF Init, DecoderInit, HeardInv, EndInv, BytesInv, Listening, FramesIn, NoResponse

(* A step that tells nothing, on the way to a new attempt only if nothing  *)
(* was told of this one.                                                   *)
LEMMA QuietHeard ==
  ASSUME HeardInv, UNCHANGED <<channel, heard>>,
         attempt' = attempt \/ Told = {},
         pc' = "send" \/ ~emitted' => Told = {},
         outcome' \in {"FailedPartial", "FailedEmpty"} => sending' = <<>>,
         outcome' = "FailedEmpty" => ~emitted'
  PROVE  HeardInv'
<1>1. Told' = Told
  BY DEF Told, UnderWay, Content
<1> QED BY <1>1 DEF HeardInv

LEMMA DecodingHeard ==
  ASSUME HeardInv, Decoding
  PROVE  HeardInv'
<1> USE DEF Decoding, runner, counters
<1>1. ASSUME NEW n \in 1..MaxChunk, ReceiveChunk(n) PROVE HeardInv'
  BY <1>1, QuietHeard DEF ReceiveChunk, HeardInv, parser
<1>2. CASE ParseFrame
  BY <1>2, QuietHeard, ParsedFrame DEF HeardInv
<1>3. CASE ConnectionError
  BY <1>3, QuietHeard DEF ConnectionError, Reading, Failed, HeardInv, parser
<1>4. CASE BodyEnds
  BY <1>4, QuietHeard DEF BodyEnds, HeardInv, parser
<1>5. CASE Finish
  <2>1. sending' = MadeUp /\ UNCHANGED <<emitted, channel, heard, attempt, pc>>
    BY <1>5 DEF Finish
  <2>2. CASE MadeUp # <<>>
    <3>1. response.api # "responses"
      BY <2>2 DEF MadeUp, When
    <3>2. outcome' = "open"
      BY <1>5, <2>2, <3>1 DEF Finish
    <3> QED BY <2>1, <3>2, QuietHeard DEF HeardInv
  <2>3. CASE MadeUp = <<>>
    <3>1. outcome' \in {Failed, "Ok"}
      BY <1>5, <2>3 DEF Finish
    <3> QED BY <2>1, <2>3, <3>1, QuietHeard DEF Failed, HeardInv
  <2> QED BY <2>2, <2>3
<1> QED BY <1>1, <1>2, <1>3, <1>4, <1>5 DEF DecoderStep

(* An event told belongs to this attempt, and is marked if it says a thing. *)
LEMMA ForwardHeard ==
  ASSUME HeardInv, Forward
  PROVE  HeardInv'
<1> DEFINE kind == Head(sending).kind
<1>1. /\ IsChannel(channel')
      /\ UnderWay(channel') = UnderWay(channel)
                                \cup (IF kind \in ContentKinds THEN {attempt} ELSE {})
  BY ChannelAppend DEF Forward, HeardInv
<1>2. /\ sending # <<>> /\ emitted' = (emitted \/ kind \in ContentKinds)
      /\ outcome' \in {outcome, "Ok"} /\ pc = "process" /\ pc' = pc
      /\ UNCHANGED <<attempt, heard>>
  BY DEF Forward, Send, counters
<1> HIDE DEF kind
<1>3. Told' = Told \cup (IF kind \in ContentKinds THEN {attempt} ELSE {})
  BY <1>1, <1>2 DEF Told
<1> QED BY <1>1, <1>2, <1>3 DEF HeardInv

LEMMA ReceiveHeard ==
  ASSUME HeardInv, Receive
  PROVE  HeardInv'
<1>1. /\ channel' = Tail(channel) /\ channel # <<>>
      /\ heard' \subseteq heard \cup (IF Head(channel).kind \in ContentKinds
                                      THEN {Head(channel).attempt} ELSE {})
      /\ UNCHANGED <<attempt, pc, emitted, outcome, sending>>
  BY DEF Receive, decoder, parser, counters, ContentKinds
<1>2. /\ IsChannel(channel') /\ UnderWay(channel') \subseteq UnderWay(channel)
      /\ Head(channel).kind \in ContentKinds => Head(channel).attempt \in UnderWay(channel)
  BY <1>1, ChannelTail DEF HeardInv
<1>3. Told' \subseteq Told
  BY <1>1, <1>2 DEF Told
<1> QED BY <1>1, <1>2, <1>3 DEF HeardInv

LEMMA HeardStep ==
  ASSUME HeardInv, [Next]_vars
  PROVE  HeardInv'
<1>1. ASSUME UNCHANGED <<decoder, channel, heard, attempt>>, pc' # "send" PROVE HeardInv'
  BY <1>1, QuietHeard DEF HeardInv, decoder, parser
<1>2. CASE SendOk
  <2>1. Told = {}
    BY <1>2 DEF SendOk, HeardInv
  <2> QED BY <1>2, <2>1, QuietHeard DEF SendOk, StartDecoder, Fresh
<1>3. ASSUME NEW error \in SendErrors, SendFails(error) PROVE HeardInv'
  <2>1. Told = {}
    BY <1>3 DEF SendFails, HeardInv
  <2> QED BY <1>3, <2>1, QuietHeard DEF SendFails, HeardInv, decoder, parser
<1>4. CASE ForwardToNobody
  BY <1>4, QuietHeard DEF ForwardToNobody, SendToNobody, HeardInv, runner, counters
<1>5. CASE StreamOk \/ StreamFailedPartial
  BY <1>1, <1>5 DEF StreamOk, StreamFailedPartial, counters
<1>6. CASE StreamFailedEmpty
  <2>1. Told = {}
    BY <1>6 DEF StreamFailedEmpty, HeardInv
  <2>2. CASE attempt = policy.retries
    BY <1>1, <1>6, <2>2 DEF StreamFailedEmpty, counters
  <2>3. CASE attempt # policy.retries
    BY <1>6, <2>1, <2>3, QuietHeard DEF StreamFailedEmpty, DropDecoder, Fresh
  <2> QED BY <2>2, <2>3
<1>7. CASE Report
  <2>1. CASE Listening
    <3>1. IsChannel(channel') /\ UnderWay(channel') = UnderWay(channel)
      BY <1>7, <2>1, ChannelAppend DEF Report, HeardInv, ContentKinds
    <3>2. Told' = Told
      BY <1>7, <3>1 DEF Told, Report
    <3> QED BY <1>7, <3>1, <3>2 DEF Report, HeardInv, decoder, parser, counters
  <2>2. CASE ~Listening
    BY <1>1, <1>7, <2>2 DEF Report, counters
  <2> QED BY <2>1, <2>2
<1>8. CASE ReceiveEnd \/ CallFails
  BY <1>8, QuietHeard DEF ReceiveEnd, CallFails, HeardInv, decoder, parser, counters
<1>9. CASE Leave
  BY <1>9, QuietHeard DEF Leave, HeardInv, decoder, parser, counters
<1>10. CASE UNCHANGED vars
  BY <1>10, QuietHeard DEF vars, runner, HeardInv, decoder, parser, counters
<1> QED BY <1>2, <1>3, <1>4, <1>5, <1>6, <1>7, <1>8, <1>9, <1>10,
           DecodingHeard, ForwardHeard, ReceiveHeard DEF Next, Runner, Consumer

(* The runner ends after the last event, and after the error if it failed; *)
(* the consumer reads as far.                                              *)
LEMMA EndStep ==
  ASSUME HeardInv, EndInv, [Next]_vars
  PROVE  EndInv'
<1> USE DEF EndInv, Listening
<1>1. ASSUME pc' \in {"send", "process", "fail"}, consumer' = consumer, pc # "done" PROVE EndInv'
  BY <1>1
<1>2. CASE SendOk
  BY <1>1, <1>2 DEF SendOk
<1>3. ASSUME NEW error \in SendErrors, SendFails(error) PROVE EndInv'
  BY <1>3 DEF SendFails, SendErrors, Resend, counters
<1>4. CASE Decoding \/ Forward \/ ForwardToNobody
  BY <1>1, <1>4 DEF Decoding, Forward, ForwardToNobody, runner
<1>5. CASE StreamOk
  BY <1>5 DEF StreamOk, decoder
<1>6. CASE StreamFailedPartial \/ StreamFailedEmpty
  BY <1>1, <1>6 DEF StreamFailedPartial, StreamFailedEmpty, Resend
<1>7. CASE Report
  BY <1>7, ChannelAppend DEF Report, HeardInv
<1>8. CASE Receive
  <2>1. Head(channel).kind # "error" => (Fails(channel) => Fails(channel'))
    BY <1>8, ChannelTail DEF Receive, HeardInv
  <2> QED BY <1>8, <2>1 DEF Receive, decoder
<1>9. CASE ReceiveEnd
  <2>1. ~Fails(channel)
    BY <1>9 DEF ReceiveEnd, Fails
  <2> QED BY <1>9, <2>1 DEF ReceiveEnd, decoder
<1>10. CASE CallFails \/ Leave
  BY <1>10 DEF CallFails, Leave
<1>11. CASE UNCHANGED vars
  BY <1>11 DEF vars, runner, decoder, Fails
<1> QED BY <1>2, <1>3, <1>4, <1>5, <1>6, <1>7, <1>8, <1>9, <1>10, <1>11
       DEF Next, Runner, Consumer

(* Whatever responses a server sends, in whatever chunks, and wherever     *)
(* they break: the engine hears one of them, takes it for complete only    *)
(* when it ended, and reads no character that was not sent so              *)
(* (stream_runner.rs, stream_process.rs, framing.rs).                      *)
THEOREM OneWholeResponseIsHeard == Spec => []OneResponseWhole
<1> DEFINE Inv == HeardInv /\ EndInv /\ BytesInv
<1>1. Inv /\ [Next]_vars => Inv'
  BY HeardStep, EndStep, BytesStep
<1>2. Inv => OneResponseWhole
  <2>1. HeardInv => OneResponseHeard
    BY DEF HeardInv, OneResponseHeard, Told, UnderWay
  <2>2. EndInv => CompleteIsEnded
    BY DEF EndInv, CompleteIsEnded
  <2>3. BytesInv => NothingTorn
    BY DEF BytesInv, NothingTorn, FramesIn
  <2> QED BY <2>1, <2>2, <2>3 DEF OneResponseWhole
<1>3. Init => Inv
  BY HeardInit
<1> HIDE DEF Inv
<1> QED BY <1>1, <1>2, <1>3, PTL DEF Spec

-----------------------------------------------------------------------------
(***************************************************************************)
(* Types.  What the parsers build are sequences of events, whose kinds are *)
(* those the engine knows; for that the calls they accumulate, and the     *)
(* tool of the current block, are calls throughout.                        *)
(***************************************************************************)
Kinds == {"text", "item", "call", "done", "error"}

(* An event of one of these kinds, and a sequence of them.                 *)
Of(e, kinds) == "kind" \in DOMAIN e /\ e.kind \in kinds
Sequence(s, kinds) == IsChannel(s) /\ \A i \in DOMAIN s : s[i].kind \in kinds
Calls(s) == IsChannel(s) /\ \A i \in DOMAIN s : Of(s[i], {"call"})

LEMMA ChannelDomain ==
  ASSUME NEW s, IsChannel(s)
  PROVE  Len(s) \in Nat /\ DOMAIN s = 1..Len(s)
BY DEF IsChannel

LEMMA EmptySequence ==
  ASSUME NEW kinds
  PROVE  Sequence(<<>>, kinds) /\ Calls(<<>>)
<1>1. <<>> \in Seq({}) /\ DOMAIN <<>> = {}
  OBVIOUS
<1> QED BY <1>1, InChannels DEF Sequence, Calls

LEMMA OneEvent ==
  ASSUME NEW kinds, NEW e, e.kind \in kinds
  PROVE  Sequence(<<e>>, kinds)
<1>1. <<e>> \in Seq({e}) /\ DOMAIN <<e>> = {1} /\ <<e>>[1] = e
  OBVIOUS
<1> QED BY <1>1, InChannels DEF Sequence

LEMMA SequenceAppend ==
  ASSUME NEW kinds, NEW s, Sequence(s, kinds), NEW e, e.kind \in kinds, NEW t, t = Append(s, e)
  PROVE  Sequence(t, kinds)
<1> DEFINE S == {s[i] : i \in DOMAIN s} \cup {e}
<1>1. s \in Seq(S) /\ e \in S
  BY DEF Sequence, IsChannel
<1> HIDE DEF S
<1>2. /\ t \in Seq(S) /\ Len(s) \in Nat /\ DOMAIN s = 1..Len(s) /\ DOMAIN t = 1..Len(s) + 1
      /\ \A i \in 1..Len(s) : t[i] = s[i]
      /\ t[Len(s) + 1] = e
  BY <1>1
<1>3. IsChannel(t)
  BY <1>2, InChannels
<1>4. ASSUME NEW i \in 1..Len(s) + 1 PROVE t[i].kind \in kinds
  <2>1. i = Len(s) + 1 \/ i \in 1..Len(s)
    BY <1>2
  <2> QED BY <1>2, <2>1 DEF Sequence
<1> QED BY <1>2, <1>3, <1>4 DEF Sequence

LEMMA SequenceConcat ==
  ASSUME NEW kinds, NEW s, Sequence(s, kinds), NEW t, Sequence(t, kinds), NEW u, u = s \o t
  PROVE  Sequence(u, kinds)
<1> DEFINE S == {s[i] : i \in DOMAIN s} \cup {t[i] : i \in DOMAIN t}
<1>1. s \in Seq(S) /\ t \in Seq(S)
  BY DEF Sequence, IsChannel
<1> HIDE DEF S
<1>2. /\ u \in Seq(S) /\ Len(s) \in Nat /\ DOMAIN s = 1..Len(s)
      /\ Len(t) \in Nat /\ DOMAIN t = 1..Len(t) /\ DOMAIN u = 1..Len(s) + Len(t)
      /\ \A i \in 1..Len(s) : u[i] = s[i]
      /\ \A i \in 1..Len(s) + Len(t) : i > Len(s) => u[i] = t[i - Len(s)]
  BY <1>1
<1>3. ASSUME NEW i \in 1..Len(s) + Len(t) PROVE u[i].kind \in kinds
  <2>1. CASE i <= Len(s)
    BY <1>2, <2>1 DEF Sequence
  <2>2. CASE ~(i <= Len(s))
    <3>1. i - Len(s) \in DOMAIN t
      BY <1>2, <2>2
    <3>2. u[i] = t[i - Len(s)]
      BY <1>2, <2>2
    <3>3. t[i - Len(s)].kind \in kinds
      BY <3>1 DEF Sequence
    <3> QED BY <3>2, <3>3
  <2> QED BY <2>1, <2>2
<1> QED BY <1>2, <1>3, InChannels DEF Sequence

LEMMA SequenceTail ==
  ASSUME NEW kinds, NEW s, Sequence(s, kinds), Len(s) # 0
  PROVE  Sequence(Tail(s), kinds) /\ Head(s).kind \in kinds
<1> DEFINE S == {s[i] : i \in DOMAIN s}
<1>1. s \in Seq(S) /\ s # <<>>
  BY DEF Sequence, IsChannel
<1> HIDE DEF S
<1>2. /\ Len(s) \in Nat \ {0} /\ DOMAIN s = 1..Len(s)
      /\ Tail(s) \in Seq(S) /\ DOMAIN Tail(s) = 1..Len(s) - 1
      /\ \A i \in 1..Len(s) - 1 : Tail(s)[i] = s[i + 1]
      /\ Head(s) = s[1]
  BY <1>1
<1>3. IsChannel(Tail(s))
  BY <1>2, InChannels
<1>4. \A i \in 1..Len(s) - 1 : i + 1 \in 1..Len(s)
  BY <1>2
<1>5. 1 \in 1..Len(s)
  BY <1>2
<1> QED BY <1>2, <1>3, <1>4, <1>5 DEF Sequence

(* The items told of a list are items of it.                               *)
Kept(items, told) ==
  told = [k \in 0..Len(items) |->
            IF k = 0 THEN <<>>
            ELSE IF items[k] \in st.seen \cup ToSet(told[k - 1]) THEN told[k - 1]
            ELSE Append(told[k - 1], items[k])]

LEMMA NatSetInduction ==
  ASSUME NEW S, 0 \in S, \A n \in Nat : n \in S => n + 1 \in S
  PROVE  Nat \subseteq S
<1> SUFFICES ASSUME Nat \ S # {} PROVE FALSE
  OBVIOUS
<1>1. PICK m \in Nat \ S : \A k \in Nat \ S : m <= k
  BY LeastNatural
<1>2. m - 1 \in Nat /\ ~(m <= m - 1)
  OBVIOUS
<1> QED BY <1>1, <1>2

(* Such lists are there, one longer than the other.                        *)
LEMMA KeptExists ==
  ASSUME NEW items, NEW n \in Nat, Len(items) = n
  PROVE  \E told : Kept(items, told)
<1> DEFINE Next1(s, k) == IF items[k] \in st.seen \cup ToSet(s) THEN s ELSE Append(s, items[k])
           Is(told, m) == told = [k \in 0..m |-> IF k = 0 THEN <<>> ELSE Next1(told[k - 1], k)]
           S == {m \in Nat : \E told : Is(told, m)}
<1>1. 0 \in S
  <2>1. Is([k \in 0..0 |-> <<>>], 0)
    OBVIOUS
  <2> QED BY <2>1
<1>2. ASSUME NEW m \in Nat, m \in S PROVE m + 1 \in S
  <2>1. PICK told : Is(told, m)
    BY <1>2
  <2> HIDE DEF Next1
  <2> DEFINE new == [k \in 0..m + 1 |-> IF k = m + 1 THEN Next1(told[m], m + 1) ELSE told[k]]
  <2>2. ASSUME NEW k \in 0..m + 1 PROVE new[k] = IF k = 0 THEN <<>> ELSE Next1(new[k - 1], k)
    <3>1. CASE k = m + 1
      <4>1. new[m] = told[m] /\ new[k] = Next1(told[m], k) /\ k - 1 = m /\ k # 0
        BY <3>1
      <4> QED BY <4>1
    <3>2. CASE k # m + 1 /\ k # 0
      <4>1. k \in 0..m /\ k - 1 \in 0..m + 1 /\ k - 1 # m + 1
        BY <3>2
      <4>2. new[k] = told[k] /\ new[k - 1] = told[k - 1]
        BY <4>1
      <4>3. told[k] = Next1(told[k - 1], k)
        BY <2>1, <3>2, <4>1
      <4> QED BY <3>2, <4>2, <4>3
    <3>3. CASE k = 0
      BY <2>1, <3>3
    <3> QED BY <3>1, <3>2, <3>3
  <2>3. new = [k \in 0..m + 1 |-> new[k]]
    OBVIOUS
  <2> HIDE DEF new
  <2>4. Is(new, m + 1)
    BY <2>2, <2>3
  <2> HIDE DEF Is
  <2> QED BY <2>4
<1> HIDE DEF S
<1>3. n \in S
  BY <1>1, <1>2, NatSetInduction
<1> QED BY <1>3 DEF S, Kept

LEMMA KeptStep ==
  ASSUME NEW items, NEW told, Kept(items, told)
  PROVE  \A j \in 0..Len(items) :
           j # 0 => told[j] = told[j - 1] \/ told[j] = Append(told[j - 1], items[j])
<1> DEFINE value(s, j) == IF j = 0 THEN <<>>
                          ELSE IF items[j] \in st.seen \cup ToSet(s) THEN s
                          ELSE Append(s, items[j])
<1>1. told = [j \in 0..Len(items) |-> value(told[j - 1], j)]
  BY DEF Kept
<1>2. \A j \in 0..Len(items) : told[j] = value(told[j - 1], j)
  <2> HIDE DEF value
  <2> QED BY <1>1
<1> QED BY <1>2

LEMMA UnseenItems ==
  ASSUME NEW kinds, NEW items, Sequence(items, kinds)
  PROVE  Sequence(Unseen(items), kinds)
<1>1. Len(items) \in Nat /\ DOMAIN items = 1..Len(items)
  BY ChannelDomain DEF Sequence
<1>2. PICK told : Kept(items, told) /\ Unseen(items) = told[Len(items)]
  <2>1. \E told : Kept(items, told)
    BY <1>1, KeptExists
  <2> DEFINE t == CHOOSE told : Kept(items, told)
  <2>2. Kept(items, t)
    BY <2>1
  <2>3. Unseen(items) = t[Len(items)]
    BY DEF Unseen, Kept
  <2> HIDE DEF t
  <2> QED BY <2>2, <2>3
<1> DEFINE S == {k \in Nat : k <= Len(items) => Sequence(told[k], kinds)}
<1>3. 0 \in S
  <2>1. told[0] = <<>>
    BY <1>1, <1>2 DEF Kept
  <2> QED BY <2>1, EmptySequence
<1>4. ASSUME NEW k \in Nat, k \in S PROVE k + 1 \in S
  <2>1. CASE k + 1 <= Len(items)
    <3>1. k + 1 \in 0..Len(items) /\ k + 1 # 0 /\ k + 1 - 1 = k /\ k + 1 \in DOMAIN items
          /\ k <= Len(items)
      BY <1>1, <2>1
    <3>2. Sequence(told[k], kinds) /\ items[k + 1].kind \in kinds
      BY <1>4, <3>1 DEF Sequence
    <3>3. \A j \in 0..Len(items) :
            j # 0 => told[j] = told[j - 1] \/ told[j] = Append(told[j - 1], items[j])
      BY <1>2, KeptStep
    <3>4. told[k + 1] = told[k] \/ told[k + 1] = Append(told[k], items[k + 1])
      BY <3>1, <3>3
    <3> QED BY <3>2, <3>4, SequenceAppend
  <2>2. CASE ~(k + 1 <= Len(items))
    BY <2>2
  <2> QED BY <2>1, <2>2
<1> HIDE DEF S
<1>5. Len(items) \in S
  BY <1>1, <1>3, <1>4, NatSetInduction
<1> QED BY <1>1, <1>2, <1>5 DEF S

(* A parser keeps its fields, and what it accumulates are calls.           *)
ParserInv ==
  /\ DOMAIN st = DOMAIN NewParser
  /\ Calls(st.calls) /\ Of(st.tool, {"call"})

LEMMA NewParserInv ==
  ASSUME NEW result, Fresh(result)
  PROVE  ParserInv'
<1>1. st' = NewParser
  BY DEF Fresh
<1>2. Of(NoCall, {"call"})
  BY DEF Of, NoCall
<1>3. NewParser.calls = <<>> /\ NewParser.tool = NoCall
  BY DEF NewParser
<1> QED BY <1>1, <1>2, <1>3, EmptySequence DEF ParserInv

LEMMA GrownCalls ==
  ASSUME NEW calls, Calls(calls), NEW index \in Nat \ {0}
  PROVE  Calls(Grown(calls, index))
<1> DEFINE more == IF index > Len(calls) THEN index - Len(calls) ELSE 0
           new == [j \in 1..more |-> NoCall]
           S == {calls[i] : i \in DOMAIN calls} \cup {NoCall}
<1>1. Len(calls) \in Nat /\ DOMAIN calls = 1..Len(calls) /\ more \in Nat
  BY ChannelDomain DEF Calls
<1>2. Grown(calls, index) = calls \o new
  BY DEF Grown
<1>3. calls \in Seq(S)
  BY DEF Calls, IsChannel
<1>4. \A e \in S : Of(e, {"call"})
  <2>1. Of(NoCall, {"call"})
    BY DEF Of, NoCall
  <2> QED BY <2>1 DEF Calls
<1>5. NoCall \in S
  OBVIOUS
<1> HIDE DEF S, more
<1>6. new \in Seq(S)
  BY <1>1, <1>5
<1> HIDE DEF new
<1>7. calls \o new \in Seq(S)
  BY <1>3, <1>6
<1> DEFINE grown == calls \o new
<1>8. grown \in Seq(S)
  BY <1>7
<1> HIDE DEF grown
<1>9. \A j \in DOMAIN grown : grown[j] \in S
  BY <1>8
<1>10. IsChannel(grown)
  BY <1>8, InChannels
<1>11. Calls(grown)
  BY <1>4, <1>9, <1>10 DEF Calls
<1> QED BY <1>2, <1>11 DEF grown

(* A sequence of calls in which one was replaced by another.               *)
LEMMA CallReplaced ==
  ASSUME NEW calls, Calls(calls), NEW t, DOMAIN t = DOMAIN calls,
         t = [j \in DOMAIN calls |-> t[j]],
         \A j \in DOMAIN calls : Of(t[j], {"call"})
  PROVE  Calls(t)
<1>1. Len(calls) \in Nat /\ DOMAIN calls = 1..Len(calls)
  BY ChannelDomain DEF Calls
<1>2. t \in Seq({t[j] : j \in DOMAIN t})
  <2> DEFINE S == {t[j] : j \in DOMAIN t}
  <2>1. \A j \in 1..Len(calls) : t[j] \in S
    BY <1>1
  <2> HIDE DEF S
  <2>2. t \in [1..Len(calls) -> S]
    BY <1>1, <2>1
  <2>3. t \in Seq(S)
    BY <1>1, <2>2
  <2> QED BY <2>3 DEF S
<1> QED BY <1>2 DEF Calls, IsChannel

LEMMA Accumulated ==
  ASSUME NEW calls, Calls(calls), NEW f, f.index \in Nat \ {0}
  PROVE  Calls(Accumulate(calls, f))
<1> DEFINE grown == Grown(calls, f.index)
           t == Accumulate(calls, f)
<1>1. Calls(grown)
  BY GrownCalls
<1>2. /\ DOMAIN t = DOMAIN grown
      /\ t = [j \in DOMAIN grown |-> t[j]]
      /\ \A j \in DOMAIN grown : j # f.index => t[j] = grown[j]
  BY DEF Accumulate
<1>3. ASSUME f.index \in DOMAIN grown, Of(grown[f.index], {"call"})
      PROVE  Of(t[f.index], {"call"})
  BY <1>3 DEF Accumulate, Of
<1> HIDE DEF grown, t
<1>4. \A j \in DOMAIN grown : Of(t[j], {"call"})
  BY <1>1, <1>2, <1>3 DEF Calls
<1>5. Calls(t)
  BY <1>1, <1>2, <1>4, CallReplaced
<1> QED BY <1>5 DEF t

LEMMA IdsGiven ==
  ASSUME NEW calls, Calls(calls)
  PROVE  Calls(WithIds(calls)) /\ Sequence(WithIds(calls), Kinds)
<1> DEFINE t == WithIds(calls)
<1>1. /\ DOMAIN t = DOMAIN calls /\ t = [j \in DOMAIN calls |-> t[j]]
      /\ \A j \in DOMAIN calls : t[j] = calls[j] \/ t[j] = [calls[j] EXCEPT !.id = Generated]
  BY DEF WithIds
<1> HIDE DEF t
<1>2. \A j \in DOMAIN calls : Of(t[j], {"call"})
  <2> TAKE j \in DOMAIN calls
  <2>1. Of(calls[j], {"call"})
    BY DEF Calls
  <2>2. Of([calls[j] EXCEPT !.id = Generated], {"call"})
    BY <2>1 DEF Of
  <2> QED BY <1>1, <2>1, <2>2
<1>3. Calls(t)
  BY <1>1, <1>2, CallReplaced
<1>4. Sequence(t, Kinds)
  BY <1>3 DEF Sequence, Calls, Of, Kinds
<1> QED BY <1>3, <1>4 DEF t

(* A response is one of the bodies, and no more of it arrives than it has. *)
Outcomes == {"none", "open", "Ok", "FailedPartial", "FailedEmpty"}

RangeInv ==
  /\ response \in Bodies \cup {NoResponse}
  /\ arrived <= Length /\ garbled \subseteq 1..Len(response.frames)

EventsInv ==
  /\ Sequence(out, Kinds) /\ Sequence(sending, Kinds)
  /\ ended \in BOOLEAN /\ closing \in BOOLEAN /\ emitted \in BOOLEAN /\ outcome \in Outcomes

LEMMA FramesCounted ==
  ASSUME RangeInv
  PROVE  /\ response.frames \in Seq(ToSet(response.frames))
         /\ Len(response.frames) \in Nat /\ DOMAIN response.frames = 1..Len(response.frames)
<1>1. response.frames \in Seq(ToSet(response.frames))
  <2>1. CASE response \in Bodies
    BY <2>1, BodiesAssumption
  <2>2. CASE response = NoResponse
    <3>1. response.frames = <<>>
      BY <2>2 DEF NoResponse
    <3>2. <<>> \in Seq(ToSet(<<>>))
      OBVIOUS
    <3> QED BY <3>1, <3>2
  <2> QED BY <2>1, <2>2 DEF RangeInv
<1> DEFINE S == ToSet(response.frames)
<1>2. response.frames \in Seq(S)
  BY <1>1
<1> HIDE DEF S
<1>3. Len(response.frames) \in Nat /\ DOMAIN response.frames = 1..Len(response.frames)
  BY <1>2
<1> QED BY <1>1, <1>3

LEMMA CurrentFrame ==
  ASSUME BytesInv, RangeInv, AtFrame
  PROVE  response \in Bodies /\ Frame \in ToSet(response.frames)
<1>1. Len(response.frames) \in Nat /\ DOMAIN response.frames = 1..Len(response.frames)
  BY FramesCounted
<1>2. FramesIn(decoded) <= Len(response.frames)
  BY <1>1 DEF BytesInv, RangeInv, FramesIn, Length
<1>3. parsed \in Nat /\ parsed < FramesIn(decoded) /\ FramesIn(decoded) \in Nat
  BY DEF AtFrame, BytesInv, FramesIn
<1>4. parsed + 1 \in 1..Len(response.frames)
  BY <1>1, <1>2, <1>3
<1>5. response # NoResponse
  <2>1. NoResponse.frames = <<>> /\ Len(<<>>) = 0
    BY DEF NoResponse
  <2> QED BY <1>4, <2>1
<1> QED BY <1>1, <1>4, <1>5 DEF Frame, ToSet, RangeInv

(* What a frame makes of the parser, and the events it says.               *)
Parses == ParserInv' /\ Sequence(sending', Kinds) /\ closing' \in BOOLEAN

LEMMA ParsesQuietly ==
  ASSUME ParserInv, NEW events, Sequence(events, Kinds), NEW last \in BOOLEAN, Say(events, last),
         \/ UNCHANGED st
         \/ /\ DOMAIN st' = DOMAIN st /\ Of(st'.tool, {"call"})
            /\ Calls(st'.calls)
  PROVE  Parses
<1>1. sending' = events /\ closing' \in BOOLEAN
  BY DEF Say
<1>2. ParserInv'
  BY DEF ParserInv
<1> QED BY <1>1, <1>2 DEF Parses

LEMMA OpenAiParses ==
  ASSUME ParserInv, BytesInv, RangeInv,
         CallDelta \/ UsageChunk \/ FinishReason \/ DoneSentinel
  PROVE  Parses
<1> USE ParserInv DEF ParserInv, Learn
<1>1. /\ "calls" \in DOMAIN st /\ "usage" \in DOMAIN st /\ "pending" \in DOMAIN st
      /\ "tool" \in DOMAIN st
  BY DEF NewParser
<1>2. CASE CallDelta
  <2>1. Frame.type = "call" /\ AtFrame
    BY <1>2 DEF CallDelta, Parsing
  <2>2. Frame.index \in Nat \ {0}
    BY <2>1, CurrentFrame, BodiesAssumption
  <2>3. Calls(Accumulate(st.calls, Frame))
    BY <2>2, Accumulated
  <2>4. st' = [st EXCEPT !.calls = Accumulate(@, Frame)] /\ Say(<<>>, FALSE)
    BY <1>2 DEF CallDelta
  <2>5. st'.calls = Accumulate(st.calls, Frame) /\ st'.tool = st.tool /\ DOMAIN st' = DOMAIN st
    BY <1>1, <2>4
  <2> QED BY <2>3, <2>4, <2>5, EmptySequence, ParsesQuietly
<1>3. CASE UsageChunk
  <2>1. st' = [st EXCEPT !.usage = TRUE] /\ Say(<<>>, FALSE)
    BY <1>3 DEF UsageChunk
  <2>2. st'.calls = st.calls /\ st'.tool = st.tool /\ DOMAIN st' = DOMAIN st
    BY <1>1, <2>1
  <2> QED BY <2>1, <2>2, EmptySequence, ParsesQuietly
<1>4. CASE FinishReason
  <2> DEFINE cut == Frame.reason = "length"
             events == IF cut THEN <<>> ELSE WithIds(st.calls)
  <2>1. /\ st' = [st EXCEPT !.pending = PendingReason(Frame.reason),
                            !.calls = IF cut THEN @ ELSE <<>>]
        /\ Say(events, FALSE)
    BY <1>4 DEF FinishReason
  <2>2. st'.tool = st.tool /\ DOMAIN st' = DOMAIN st /\ st'.calls \in {st.calls, <<>>}
    BY <1>1, <2>1
  <2>3. Calls(st'.calls)
    BY <2>2, EmptySequence
  <2>4. Sequence(events, Kinds)
    BY EmptySequence, IdsGiven
  <2> HIDE DEF events
  <2> QED BY <2>1, <2>2, <2>3, <2>4, ParsesQuietly
<1>5. CASE DoneSentinel
  <2> DEFINE events == When(st.pending # "none", <<Done(st.pending, st.usage)>>)
  <2>1. st' = [st EXCEPT !.pending = "none"] /\ Say(events, TRUE)
    BY <1>5 DEF DoneSentinel
  <2>2. st'.calls = st.calls /\ st'.tool = st.tool /\ DOMAIN st' = DOMAIN st
    BY <1>1, <2>1
  <2>3. Sequence(events, Kinds)
    <3>1. Done(st.pending, st.usage).kind \in Kinds
      BY DEF Done, Kinds
    <3> QED BY <3>1, OneEvent, EmptySequence DEF When
  <2> HIDE DEF events
  <2> QED BY <2>1, <2>2, <2>3, ParsesQuietly
<1> QED BY <1>2, <1>3, <1>4, <1>5

LEMMA ResponsesParses ==
  ASSUME ParserInv, BytesInv, RangeInv, OutputItem \/ ResponseEnds
  PROVE  Parses
<1> USE ParserInv DEF ParserInv, Learn
<1>1. "seen" \in DOMAIN st /\ "calls" \in DOMAIN st /\ "tool" \in DOMAIN st
  BY DEF NewParser
<1>2. CASE OutputItem
  <2>1. Frame.type = "item" /\ AtFrame
    BY <1>2 DEF OutputItem, Parsing
  <2>2. Frame.item.kind \in Kinds
    BY <2>1, CurrentFrame, BodiesAssumption DEF Kinds
  <2>3. Sequence(Unseen(<<Frame.item>>), Kinds)
    BY <2>2, OneEvent, UnseenItems
  <2>4. st' = [st EXCEPT !.seen = @ \cup {Frame.item}] /\ Say(Unseen(<<Frame.item>>), FALSE)
    BY <1>2 DEF OutputItem
  <2>5. st'.calls = st.calls /\ st'.tool = st.tool /\ DOMAIN st' = DOMAIN st
    BY <1>1, <2>4
  <2> QED BY <2>3, <2>4, <2>5, ParsesQuietly
<1>3. CASE ResponseEnds
  <2>1. Frame.type = "terminal" /\ AtFrame
    BY <1>3 DEF ResponseEnds, Parsing
  <2>2. /\ Frame.output \in Seq(ToSet(Frame.output))
        /\ \A e \in ToSet(Frame.output) : e.kind \in Kinds
    BY <2>1, CurrentFrame, BodiesAssumption DEF Kinds
  <2>3. Sequence(Frame.output, Kinds)
    BY <2>2 DEF Sequence, IsChannel, ToSet
  <2>4. PICK end, told : /\ end.kind \in Kinds
                         /\ st' = [st EXCEPT !.seen = told]
                         /\ Say(Unseen(Frame.output) \o <<end>>, TRUE)
    <3> DEFINE told == st.seen \cup ToSet(Frame.output)
               reason == IF Frame.status = "incomplete" THEN "max_tokens"
                         ELSE IF \E e \in told : e.kind = "call" THEN "tool_use" ELSE "end_turn"
               end == IF Frame.status = "failed" THEN Error ELSE Done(reason, TRUE)
    <3>1. st' = [st EXCEPT !.seen = told] /\ Say(Unseen(Frame.output) \o <<end>>, TRUE)
      BY <1>3 DEF ResponseEnds
    <3>2. end.kind \in Kinds
      BY DEF Error, Done, Kinds
    <3> HIDE DEF told, end
    <3> QED BY <3>1, <3>2
  <2>5. st'.calls = st.calls /\ st'.tool = st.tool /\ DOMAIN st' = DOMAIN st
    BY <1>1, <2>4
  <2>6. Sequence(Unseen(Frame.output), Kinds) /\ Sequence(<<end>>, Kinds)
    BY <2>3, <2>4, UnseenItems, OneEvent
  <2>7. Sequence(Unseen(Frame.output) \o <<end>>, Kinds)
    BY <2>6, SequenceConcat
  <2> QED BY <2>4, <2>5, <2>7, ParsesQuietly
<1> QED BY <1>2, <1>3

LEMMA AnthropicParses ==
  ASSUME ParserInv,
         MessageStart \/ BlockStart \/ InputDelta \/ BlockStop \/ MessageDelta \/ ErrorEvent
  PROVE  Parses
<1> USE ParserInv DEF ParserInv, Learn
<1>1. /\ "usage" \in DOMAIN st /\ "block" \in DOMAIN st /\ "done" \in DOMAIN st
      /\ "calls" \in DOMAIN st /\ "tool" \in DOMAIN st
  BY DEF NewParser
<1>2. CASE MessageStart
  <2>1. st' = [st EXCEPT !.usage = TRUE] /\ Say(<<>>, FALSE)
    BY <1>2 DEF MessageStart
  <2>2. st'.calls = st.calls /\ st'.tool = st.tool /\ DOMAIN st' = DOMAIN st
    BY <1>1, <2>1
  <2> QED BY <2>1, <2>2, EmptySequence, ParsesQuietly
<1>3. CASE BlockStart
  <2>1. PICK tool : /\ Of(tool, {"call"}) /\ st' = [st EXCEPT !.block = Frame.block, !.tool = tool]
                    /\ Say(<<>>, FALSE)
    <3> DEFINE tool == IF Frame.block = "tool_use"
                       THEN [NoCall EXCEPT !.id = Frame.id, !.name = Frame.id] ELSE st.tool
    <3>1. st' = [st EXCEPT !.block = Frame.block, !.tool = tool] /\ Say(<<>>, FALSE)
      BY <1>3 DEF BlockStart
    <3>2. Of(tool, {"call"})
      BY DEF Of, NoCall
    <3> QED BY <3>1, <3>2
  <2>2. st'.calls = st.calls /\ st'.tool = tool /\ DOMAIN st' = DOMAIN st
    BY <1>1, <2>1
  <2> QED BY <2>1, <2>2, EmptySequence, ParsesQuietly
<1>4. CASE InputDelta
  <2>1. st' = [st EXCEPT !.tool.args = @ \o Frame.args] /\ Say(<<>>, FALSE)
    BY <1>4 DEF InputDelta
  <2>2. /\ st'.calls = st.calls /\ st'.tool = [st.tool EXCEPT !.args = @ \o Frame.args]
        /\ DOMAIN st' = DOMAIN st
    BY <1>1, <2>1
  <2>3. Of(st'.tool, {"call"})
    BY <2>2 DEF Of
  <2> QED BY <2>1, <2>2, <2>3, EmptySequence, ParsesQuietly
<1>5. CASE BlockStop
  <2> DEFINE ends == st.block = "tool_use"
             events == When(ends, <<st.tool>>)
  <2>1. /\ st' = [st EXCEPT !.block = "none", !.tool.args = IF ends THEN <<>> ELSE @]
        /\ Say(events, FALSE)
    BY <1>5 DEF BlockStop
  <2>2. /\ st'.calls = st.calls /\ st'.tool = [st.tool EXCEPT !.args = IF ends THEN <<>> ELSE @]
        /\ DOMAIN st' = DOMAIN st
    BY <1>1, <2>1
  <2>3. Of(st'.tool, {"call"})
    BY <2>2 DEF Of
  <2>4. Sequence(events, Kinds)
    <3>1. st.tool.kind \in Kinds
      BY DEF Of, Kinds
    <3> QED BY <3>1, OneEvent, EmptySequence DEF When
  <2> HIDE DEF events
  <2> QED BY <2>1, <2>2, <2>3, <2>4, ParsesQuietly
<1>6. CASE MessageDelta
  <2>1. st' = [st EXCEPT !.done = TRUE] /\ Say(<<Done(Frame.reason, st.usage)>>, FALSE)
    BY <1>6 DEF MessageDelta
  <2>2. st'.calls = st.calls /\ st'.tool = st.tool /\ DOMAIN st' = DOMAIN st
    BY <1>1, <2>1
  <2>3. Done(Frame.reason, st.usage).kind \in Kinds
    BY DEF Done, Kinds
  <2> QED BY <2>1, <2>2, <2>3, OneEvent, ParsesQuietly
<1>7. CASE ErrorEvent
  <2>1. UNCHANGED st /\ Say(<<Error>>, FALSE)
    BY <1>7 DEF ErrorEvent
  <2>2. Error.kind \in Kinds
    BY DEF Error, Kinds
  <2> QED BY <2>1, <2>2, OneEvent, ParsesQuietly
<1> QED BY <1>2, <1>3, <1>4, <1>5, <1>6, <1>7

LEMMA FrameParses ==
  ASSUME ParserInv, BytesInv, RangeInv, ParseFrame
  PROVE  Parses
<1>1. CASE SkipFrame
  <2>1. UNCHANGED st /\ Say(<<>>, FALSE)
    BY <1>1 DEF SkipFrame, Learn
  <2> QED BY <2>1, EmptySequence, ParsesQuietly
<1>2. CASE TextDelta
  <2>1. UNCHANGED st /\ Say(<<Text>>, FALSE)
    BY <1>2 DEF TextDelta, Learn
  <2>2. Text.kind \in Kinds
    BY DEF Text, Kinds
  <2> QED BY <2>1, <2>2, OneEvent, ParsesQuietly
<1> QED BY <1>1, <1>2, OpenAiParses, ResponsesParses, AnthropicParses DEF ParseFrame

(* The steps of the decoder.                                               *)
DecoderInv == RangeInv /\ EventsInv /\ ParserInv

LEMMA FreshInv ==
  ASSUME NEW result \in Outcomes, Fresh(result), response' \in Bodies \cup {NoResponse}
  PROVE  DecoderInv'
<1>1. ParserInv'
  BY NewParserInv
<1>2. EventsInv'
  BY EmptySequence DEF Fresh, EventsInv
<1>3. (Length \in Nat /\ 0 <= Length)'
  <2>1. CASE response' \in Bodies
    <3>1. response'.frames \in Seq(ToSet(response'.frames))
      BY <2>1, BodiesAssumption
    <3> DEFINE S == ToSet(response'.frames)
    <3>2. response'.frames \in Seq(S)
      BY <3>1
    <3> HIDE DEF S
    <3>3. Len(response'.frames) \in Nat
      BY <3>2
    <3> QED BY <3>3 DEF Length
  <2>2. CASE response' = NoResponse
    <3>1. Len(response'.frames) = 0
      BY <2>2 DEF NoResponse
    <3> QED BY <3>1 DEF Length
  <2> QED BY <2>1, <2>2
<1>4. RangeInv'
  BY <1>3 DEF RangeInv, Fresh
<1> QED BY <1>1, <1>2, <1>4 DEF DecoderInv

LEMMA QuietDecoder ==
  ASSUME DecoderInv, UNCHANGED <<response, bytes, st>>,
         Sequence(out', Kinds), Sequence(sending', Kinds),
         ended' \in BOOLEAN, closing' \in BOOLEAN, emitted' \in BOOLEAN, outcome' \in Outcomes
  PROVE  DecoderInv'
<1>1. Length' = Length
  BY DEF Length
<1> QED BY <1>1 DEF DecoderInv, RangeInv, EventsInv, ParserInv, bytes

(* Bytes are decoded up to what arrived, in frames the body has.           *)
LEMMA DecodedRange ==
  ASSUME RangeInv, BytesInv, NEW to \in Nat, Decode(to), to <= arrived', arrived' <= Length,
         arrived' \in Nat, response' = response
  PROVE  RangeInv'
<1>1. Len(response.frames) \in Nat
  BY FramesCounted
<1>2. Length' = Length /\ Length = 3 * Len(response.frames)
  BY DEF Length
<1>3. ASSUME NEW b \in decoded + 1..to PROVE FrameOf(b) \in 1..Len(response.frames)
  <2>1. b \in Nat /\ 1 <= b /\ b <= 3 * Len(response.frames)
    BY <1>1, <1>2 DEF BytesInv
  <2> QED BY <1>1, <2>1 DEF FrameOf
<1>4. garbled' \subseteq 1..Len(response.frames)
  BY <1>3 DEF Decode, RangeInv
<1> QED BY <1>2, <1>4 DEF RangeInv

LEMMA DecoderSteps ==
  ASSUME DecoderInv, BytesInv, DecoderStep
  PROVE  DecoderInv'
<1> USE DEF DecoderInv
<1>1. ASSUME NEW n \in 1..MaxChunk, ReceiveChunk(n) PROVE DecoderInv'
  <2>1. n \in Nat
    BY ChunkAssumption
  <2>2. BytesInv'
    BY <1>1, <2>1, ChunkBytes
  <2>3. /\ arrived' = arrived + n /\ arrived' <= Length /\ Decode(decoded')
        /\ UNCHANGED <<response, ended, parser, emitted, outcome, out>>
    BY <1>1 DEF ReceiveChunk, Decode
  <2>4. RangeInv'
    <3>1. decoded' \in Nat /\ decoded' <= arrived' /\ arrived' \in Nat
      BY <2>2 DEF BytesInv
    <3> QED BY <2>3, <3>1, DecodedRange
  <2> QED BY <2>3, <2>4 DEF EventsInv, ParserInv, parser
<1>2. CASE ParseFrame
  <2>1. Parses
    BY <1>2, FrameParses
  <2>2. outcome' \in Outcomes /\ UNCHANGED <<response, bytes, ended, emitted, out>>
    BY <1>2, ParsedFrame DEF Outcomes
  <2>3. RangeInv'
    BY <2>2 DEF RangeInv, Length, bytes
  <2> QED BY <2>1, <2>2, <2>3 DEF Parses, EventsInv
<1>3. CASE ConnectionError
  <2>1. UNCHANGED <<response, bytes, ended, parser, emitted, out>> /\ outcome' \in Outcomes
    BY <1>3 DEF ConnectionError, Failed, Outcomes
  <2> QED BY <2>1, QuietDecoder DEF EventsInv, parser
<1>4. CASE BodyEnds
  <2>1. BytesInv'
    BY <1>4, EndBytes
  <2>2. /\ arrived' = arrived /\ Decode(decoded') /\ ended' = TRUE
        /\ UNCHANGED <<response, parser, emitted, outcome, out>>
    BY <1>4 DEF BodyEnds, Decode
  <2>3. RangeInv'
    <3>1. decoded' \in Nat /\ decoded' <= arrived' /\ arrived' \in Nat
      BY <2>1 DEF BytesInv
    <3> QED BY <2>2, <3>1, DecodedRange DEF RangeInv
  <2> QED BY <2>2, <2>3 DEF EventsInv, ParserInv, parser
<1>5. CASE Finish
  <2>1. /\ sending' = MadeUp /\ closing' \in BOOLEAN
        /\ UNCHANGED <<response, bytes, ended, parsed, st, emitted, out>>
    BY <1>5 DEF Finish
  <2>2. outcome' \in Outcomes
    BY <1>5 DEF Finish, Failed, Outcomes
  <2>3. Sequence(MadeUp, Kinds)
    <3>1. Done("end_turn", TRUE).kind \in Kinds
      BY DEF Done, Kinds
    <3> QED BY <3>1, OneEvent, EmptySequence DEF MadeUp, When
  <2> QED BY <2>1, <2>2, <2>3, QuietDecoder DEF EventsInv
<1> QED BY <1>1, <1>2, <1>3, <1>4, <1>5 DEF DecoderStep

LEMMA SendSteps ==
  ASSUME DecoderInv, Send \/ SendToNobody
  PROVE  DecoderInv'
<1> USE DEF DecoderInv
<1>1. CASE Send
  <2>1. /\ sending # <<>> /\ sending' = Tail(sending) /\ out' = Append(out, Head(sending))
        /\ emitted' = (emitted \/ Head(sending).kind \in ContentKinds)
        /\ outcome' \in Outcomes
        /\ UNCHANGED <<response, bytes, ended, parsed, st, closing>>
    BY <1>1 DEF Send, EventsInv, Outcomes
  <2>2. Len(sending) # 0
    <3>1. sending \in Seq({sending[i] : i \in DOMAIN sending})
      BY DEF EventsInv, Sequence, IsChannel
    <3> DEFINE S == {sending[i] : i \in DOMAIN sending}
    <3>2. sending \in Seq(S)
      BY <3>1
    <3> HIDE DEF S
    <3> QED BY <2>1, <3>2
  <2>3. Sequence(sending', Kinds) /\ Head(sending).kind \in Kinds
    BY <2>1, <2>2, SequenceTail DEF EventsInv
  <2>4. Sequence(out', Kinds)
    BY <2>1, <2>3, SequenceAppend DEF EventsInv
  <2> QED BY <2>1, <2>3, <2>4, QuietDecoder DEF EventsInv
<1>2. CASE SendToNobody
  <2>1. /\ sending' = <<>> /\ outcome' \in Outcomes
        /\ UNCHANGED <<response, bytes, ended, parsed, st, closing, emitted, out>>
    BY <1>2 DEF SendToNobody, Outcomes
  <2>2. Sequence(sending', Kinds)
    BY <2>1, EmptySequence
  <2> QED BY <2>1, <2>2, QuietDecoder DEF EventsInv
<1> QED BY <1>1, <1>2

-----------------------------------------------------------------------------
(* The runner and the channel.                                             *)
PolicyInv ==
  /\ policy \in RetryPolicies /\ attempt \in 0..policy.retries
  /\ call \in {"pending", "streaming"} \cup SendErrors
  /\ consumer \in {"reading", "complete", "failed", "gone"}

ChannelInv ==
  /\ channel \in Seq(Event) /\ Len(channel) <= Capacity
  /\ heard \subseteq 0..MaxStreamRetries

LEMMA Policies ==
  ASSUME NEW p \in RetryPolicies
  PROVE  p.retries \in {0, MaxStreamRetries} /\ p.retries \in Nat
BY DEF RetryPolicies, MaxStreamRetries

LEMMA PolicyStep ==
  ASSUME PolicyInv, [Next]_vars
  PROVE  PolicyInv'
<1>1. policy.retries \in Nat /\ attempt \in Nat /\ attempt <= policy.retries
  BY Policies DEF PolicyInv
<1>2. policy' = policy
  BY DEF Next, Runner, Consumer, vars, runner, SendOk, SendFails, Decoding, Forward,
         ForwardToNobody, StreamOk, StreamFailedPartial, StreamFailedEmpty, Report,
         Receive, ReceiveEnd, CallFails, Leave
<1> USE DEF PolicyInv
<1>3. ASSUME UNCHANGED <<attempt, call, consumer>> PROVE PolicyInv'
  BY <1>2, <1>3
<1>4. CASE SendOk
  BY <1>2, <1>4 DEF SendOk
<1>5. ASSUME NEW error \in SendErrors, SendFails(error) PROVE PolicyInv'
  <2>1. consumer' = consumer /\ call' \in {call, error}
    BY <1>5 DEF SendFails
  <2>2. attempt' = attempt \/ (attempt' = attempt + 1 /\ attempt < policy.retries)
    BY <1>5 DEF SendFails, Resend, ResendRetry, counters
  <2>3. attempt' \in 0..policy.retries
    BY <1>1, <2>2
  <2> QED BY <1>2, <2>1, <2>3
<1>6. CASE Decoding \/ Forward \/ ForwardToNobody
  BY <1>3, <1>6 DEF Decoding, Forward, ForwardToNobody, runner, counters
<1>7. CASE StreamOk \/ StreamFailedPartial \/ Report
  BY <1>3, <1>7 DEF StreamOk, StreamFailedPartial, Report, counters
<1>8. CASE StreamFailedEmpty
  <2>1. UNCHANGED <<call, consumer>>
    BY <1>8 DEF StreamFailedEmpty
  <2>2. attempt' = attempt \/ (attempt' = attempt + 1 /\ attempt # policy.retries)
    BY <1>8 DEF StreamFailedEmpty, Resend, counters
  <2>3. attempt' \in 0..policy.retries
    BY <1>1, <2>2
  <2> QED BY <1>2, <2>1, <2>3
<1>9. CASE Consumer
  BY <1>2, <1>9 DEF Consumer, Receive, ReceiveEnd, CallFails, counters
<1>10. CASE Leave
  BY <1>2, <1>10 DEF Leave, counters
<1>11. CASE UNCHANGED vars
  BY <1>3, <1>11 DEF vars, runner, counters
<1> QED BY <1>4, <1>5, <1>6, <1>7, <1>8, <1>9, <1>10, <1>11 DEF Next, Runner

LEMMA ToldRoom ==
  ASSUME PolicyInv, ChannelInv, NEW kind \in Kinds, Room, Tell(kind)
  PROVE  channel' \in Seq(Event) /\ Len(channel') <= Capacity
<1>1. attempt \in 0..MaxStreamRetries
  BY Policies DEF PolicyInv, MaxStreamRetries
<1>2. [kind |-> kind, attempt |-> attempt] \in Event
  BY <1>1 DEF Event, Kinds
<1> DEFINE e == [kind |-> kind, attempt |-> attempt]
<1>3. channel' = Append(channel, e) /\ e \in Event /\ channel \in Seq(Event)
  BY <1>2 DEF Tell, ChannelInv
<1> HIDE DEF e
<1>4. channel' \in Seq(Event) /\ Len(channel') = Len(channel) + 1 /\ Len(channel) \in Nat
  BY <1>3
<1> QED BY <1>4, CapacityAssumption DEF Room

LEMMA ChannelStep ==
  ASSUME PolicyInv, ChannelInv, EventsInv, [Next]_vars
  PROVE  ChannelInv'
<1>1. ASSUME UNCHANGED <<channel, heard>> PROVE ChannelInv'
  BY <1>1 DEF ChannelInv
<1>2. CASE SendOk
  BY <1>1, <1>2 DEF SendOk
<1>3. ASSUME NEW error \in SendErrors, SendFails(error) PROVE ChannelInv'
  BY <1>1, <1>3 DEF SendFails
<1>4. CASE Decoding \/ ForwardToNobody
  BY <1>1, <1>4 DEF Decoding, ForwardToNobody, runner
<1>5. CASE Forward
  <2>1. Room /\ Tell(Head(sending).kind) /\ heard' = heard /\ sending # <<>>
    BY <1>5 DEF Forward, Send
  <2>2. Len(sending) # 0
    <3> DEFINE S == {sending[i] : i \in DOMAIN sending}
    <3>1. sending \in Seq(S)
      BY DEF EventsInv, Sequence, IsChannel
    <3> HIDE DEF S
    <3> QED BY <2>1, <3>1
  <2>3. Head(sending).kind \in Kinds
    BY <2>2, SequenceTail DEF EventsInv
  <2> QED BY <2>1, <2>3, ToldRoom DEF ChannelInv
<1>6. CASE StreamOk \/ StreamFailedPartial \/ StreamFailedEmpty
  BY <1>1, <1>6 DEF StreamOk, StreamFailedPartial, StreamFailedEmpty
<1>7. CASE Report
  <2>1. heard' = heard /\ (channel' = channel \/ (Room /\ Tell("error")))
    BY <1>7 DEF Report
  <2>2. "error" \in Kinds
    BY DEF Kinds
  <2> QED BY <2>1, <2>2, ToldRoom DEF ChannelInv
<1>8. CASE Receive
  <2>1. /\ channel # <<>> /\ channel' = Tail(channel)
        /\ heard' \in {heard, heard \cup {Head(channel).attempt}}
    BY <1>8 DEF Receive
  <2>2. /\ channel' \in Seq(Event) /\ Len(channel') = Len(channel) - 1 /\ Len(channel) \in Nat
        /\ Head(channel) \in Event
    BY <2>1 DEF ChannelInv
  <2>3. Head(channel).attempt \in 0..MaxStreamRetries
    BY <2>2 DEF Event
  <2> QED BY <2>1, <2>2, <2>3, CapacityAssumption DEF ChannelInv
<1>9. CASE ReceiveEnd \/ CallFails
  BY <1>1, <1>9 DEF ReceiveEnd, CallFails
<1>10. CASE Leave
  BY <1>1, <1>10 DEF Leave
<1>11. CASE UNCHANGED vars
  BY <1>1, <1>11 DEF vars, runner
<1> QED BY <1>2, <1>3, <1>4, <1>5, <1>6, <1>7, <1>8, <1>9, <1>10, <1>11
       DEF Next, Runner, Consumer

LEMMA DecoderInvStep ==
  ASSUME DecoderInv, BytesInv, [Next]_vars
  PROVE  DecoderInv'
<1>1. ASSUME UNCHANGED decoder PROVE DecoderInv'
  BY <1>1, QuietDecoder DEF decoder, parser, DecoderInv, EventsInv
<1>2. CASE SendOk
  <2>1. \E r \in Bodies : response' = r /\ Fresh("open")
    BY <1>2 DEF SendOk, StartDecoder
  <2>2. "open" \in Outcomes
    BY DEF Outcomes
  <2> QED BY <2>1, <2>2, FreshInv
<1>3. ASSUME NEW error \in SendErrors, SendFails(error) PROVE DecoderInv'
  BY <1>1, <1>3 DEF SendFails
<1>4. CASE Decoding
  BY <1>4, DecoderSteps DEF Decoding
<1>5. CASE Forward \/ ForwardToNobody
  BY <1>5, SendSteps DEF Forward, ForwardToNobody
<1>6. CASE StreamOk \/ StreamFailedPartial \/ Report
  BY <1>1, <1>6 DEF StreamOk, StreamFailedPartial, Report
<1>7. CASE StreamFailedEmpty
  <2>1. UNCHANGED decoder \/ (response' = NoResponse /\ Fresh("none"))
    BY <1>7 DEF StreamFailedEmpty, DropDecoder
  <2>2. "none" \in Outcomes
    BY DEF Outcomes
  <2> QED BY <1>1, <2>1, <2>2, FreshInv
<1>8. CASE Consumer \/ Leave
  BY <1>1, <1>8 DEF Consumer, Receive, ReceiveEnd, CallFails, Leave
<1>9. CASE UNCHANGED vars
  BY <1>1, <1>9 DEF vars
<1> QED BY <1>2, <1>3, <1>4, <1>5, <1>6, <1>7, <1>8, <1>9 DEF Next, Runner

TypeInv == RetryInv /\ BytesInv /\ DecoderInv /\ PolicyInv /\ ChannelInv

LEMMA TypeInit == Init => TypeInv
<1> SUFFICES ASSUME Init PROVE TypeInv
  OBVIOUS
<1>1. RetryInv /\ BytesInv
  BY RetryInit, HeardInit
<1>2. PolicyInv
  <2>1. policy \in RetryPolicies /\ attempt = 0
    BY DEF Init
  <2>2. 0 \in 0..policy.retries
    BY <2>1, Policies
  <2> QED BY <2>1, <2>2 DEF Init, PolicyInv
<1>3. ChannelInv
  BY CapacityAssumption DEF Init, ChannelInv
<1>4. DecoderInv
  <2>1. ParserInv
    <3>1. Of(NoCall, {"call"}) /\ NewParser.calls = <<>> /\ NewParser.tool = NoCall
      BY DEF Of, NoCall, NewParser
    <3> QED BY <3>1, EmptySequence DEF Init, DecoderInit, ParserInv
  <2>2. EventsInv
    BY EmptySequence DEF Init, DecoderInit, EventsInv, Outcomes
  <2>3. RangeInv
    BY DEF Init, DecoderInit, RangeInv, NoResponse, Length
  <2> QED BY <2>1, <2>2, <2>3 DEF DecoderInv
<1> QED BY <1>1, <1>2, <1>3, <1>4 DEF TypeInv

LEMMA TypeStep ==
  ASSUME TypeInv, [Next]_vars
  PROVE  TypeInv'
BY RetryStep, BytesStep, DecoderInvStep, PolicyStep, ChannelStep DEF TypeInv, DecoderInv

LEMMA TypesHold ==
  ASSUME TypeInv
  PROVE  TypeOK
<1> USE DEF TypeInv
<1>1. Sequence(out \o sending, Kinds)
  BY SequenceConcat DEF DecoderInv, EventsInv
<1>2. {e.kind : e \in ToSet(out \o sending)} \subseteq Kinds
  BY <1>1 DEF Sequence, ToSet
<1>3. DecoderTypeOK
  <2>1. Length \in Nat
    BY FramesCounted DEF DecoderInv, Length
  <2>2. arrived \in 0..Length
    BY <2>1 DEF BytesInv, DecoderInv, RangeInv
  <2> QED BY <1>2, <2>2 DEF DecoderTypeOK, BytesInv, DecoderInv, RangeInv, EventsInv, Outcomes,
                            Kinds
<1>4. connects \in 0..MaxConnectRetries /\ fives \in 0..Max5xxRetries
      /\ pc \in {"send", "process", "fail", "done"} /\ sends \in Nat
  BY DEF RetryInv, CountersInv, PerRound, MaxConnectRetries, Max5xxRetries
<1> QED BY <1>3, <1>4 DEF TypeOK, PolicyInv, ChannelInv

(* Whatever bodies of these frames a server sends, and however they are    *)
(* cut: the decoders' and the runner's state keeps its types - a call is   *)
(* accumulated in its own slot, no frame is parsed that the body does not  *)
(* have, no retry goes beyond its policy, and the channel holds no more    *)
(* events than it has room for (openai.rs, framing.rs, stream_runner.rs).  *)
THEOREM TypesAreKept == Spec => []TypeOK
<1>1. TypeInv /\ [Next]_vars => TypeInv'
  BY TypeStep
<1>2. TypeInv => TypeOK
  BY TypesHold
<1> QED BY TypeInit, <1>1, <1>2, PTL DEF Spec
=============================================================================
