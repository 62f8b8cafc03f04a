---------------------------- MODULE FrameStream ----------------------------
(***************************************************************************)
(* From received bytes to frames: the three codecs of src/src/codec, the   *)
(* one that calls a function of the application (bridge/c.cc), and         *)
(* ParseInput, which applies one of them to the receive buffer within a    *)
(* budget of messages per task (client_connection.cc).  A byte is a digit  *)
(* of the base Base, 256 in the code; the stream reaches the connection in *)
(* pieces of any size.                                                     *)
(***************************************************************************)
EXTENDS SliceBuffer

CONSTANTS
  Codecs,               \* records with a field kind, see Decode
  Streams,              \* what the peer may send: sequences of bytes
  Base,
  INT64_MAX, SIZE_MAX,
  kParseMessageBudget

ASSUME FrameAssumption ==
  /\ Base \in Nat \ {0, 1} /\ INT64_MAX \in Nat /\ SIZE_MAX \in Nat
  /\ kParseMessageBudget \in Nat \ {0}
  /\ \A c \in Codecs : c.kind = "length" =>
       /\ c.length_field_offset + c.length_field_length <= c.header_len
       /\ c.length_field_length >= 1

VARIABLES
  codec, stream,
  arrived,       \* bytes of stream that recv has returned
  recv_buffer_,
  delivered,     \* the frames given to OnMessage
  tasks,         \* posted parse continuations
  parse_continuation_pending_,
  status         \* "connected", "error" or "released"

vars == <<codec, stream, arrived, recv_buffer_, delivered, tasks,
          parse_continuation_pending_, status>>

Init ==
  /\ codec \in Codecs
  /\ stream \in Streams
  /\ arrived = 0
  /\ recv_buffer_ = EmptyBuffer
  /\ delivered = <<>>
  /\ tasks = 0
  /\ parse_continuation_pending_ = FALSE
  /\ status = "connected"

-----------------------------------------------------------------------------
(* Codecs *)

Result(result, consumed) == [result |-> result, consumed |-> consumed]

\* Mutant: the frame ends at the last delimiter received.
DelimiterDecodeLast(c, data) ==
  LET found == {i \in DOMAIN data : data[i] = c.delimiter}
  IN  IF found = {} THEN Result("kNeedMoreData", 0)
      ELSE Result("kSuccess", CHOOSE i \in found : \A j \in found : i >= j)

DelimiterDecode(c, data) ==
  LET found == {i \in DOMAIN data : data[i] = c.delimiter}
  IN  IF found = {} THEN Result("kNeedMoreData", 0)
      ELSE Result("kSuccess", CHOOSE i \in found : \A j \in found : i <= j)

FixedLengthDecode(c, data) ==
  Result(IF Len(data) < c.fixed_length THEN "kNeedMoreData" ELSE "kSuccess", c.fixed_length)

ReadLengthValue(c, data) ==
  LET bytes == SubSeq(data, 1, c.length_field_length)
      msb_first == IF c.network_to_host THEN bytes ELSE Reverse(bytes)
  IN  FoldLeft(LAMBDA value, byte : value * Base + byte, 0, msb_first)

LengthFieldDecode(c, data) ==
  LET body_length ==
        ReadLengthValue(c, SubSeq(data, c.length_field_offset + 1, Len(data)))
      consumed == c.header_len + body_length
  IN  IF Len(data) < c.header_len THEN Result("kNeedMoreData", 0)
      ELSE IF body_length >= INT64_MAX \/ body_length > SIZE_MAX - c.header_len
        THEN Result("kError", 0)
      ELSE Result(IF Len(data) < consumed THEN "kNeedMoreData" ELSE "kSuccess", consumed)

\* connx_decode_callback_s: the application's function, which here looks at the
\* first byte and may answer anything.
CallbackDecode(c, data) == c.answers[data[1]]

Decode(c, data) ==
  CASE c.kind = "delimiter" -> DelimiterDecode(c, data)
    [] c.kind = "fixed"     -> FixedLengthDecode(c, data)
    [] c.kind = "length"    -> LengthFieldDecode(c, data)
    [] c.kind = "callback"  -> CallbackDecode(c, data)

-----------------------------------------------------------------------------
(* ParseInput *)

\* Mutant: a frame that ends where the received bytes end is taken for an error.
UnusableOffByOne(d, left) == d.result = "kError" \/ d.consumed = 0 \/ d.consumed >= left

Unusable(d, left) == d.result = "kError" \/ d.consumed = 0 \/ d.consumed > left

\* The loop over the merged bytes from an offset on: the offset it reaches, the
\* frames it delivers and the status it leaves.  The handler of the last of
\* `upto` messages releases the client.
RECURSIVE ParseLoop(_, _, _, _)
ParseLoop(merged, offset, frames, upto) ==
  LET rest == SubSeq(merged, offset + 1, Len(merged))
      d == Decode(codec, rest)
      end(s) == [offset |-> offset, frames |-> frames, status |-> s]
  IN  IF Len(frames) = upto THEN end("released")
      ELSE IF rest = <<>> \/ Len(frames) = kParseMessageBudget THEN end("connected")
      ELSE IF d.result = "kNeedMoreData" THEN end("connected")
      ELSE IF Unusable(d, Len(rest)) THEN end("error")
      ELSE ParseLoop(merged, offset + d.consumed,
                     Append(frames, SubSeq(rest, 1, d.consumed)), upto)

\* Mutant: a parser out of budget schedules no continuation.
YieldsNever(p, buffer) == FALSE

Yields(p, buffer) ==
  Len(p.frames) >= kParseMessageBudget /\ GetBufferLength(buffer) > 0

\* ParseInput on the given buffer, when `queued` continuations are posted.
\* upto = 0 stands for a handler that does not release the client.
ParseInput(buffer, queued) ==
  \E upto \in 0 .. kParseMessageBudget :
    LET p == ParseLoop(Merge(buffer), 0, <<>>,
                       IF upto = 0 THEN kParseMessageBudget + 1 ELSE upto)
        left == MoveHeader(buffer, p.offset)
        yields == p.status = "connected" /\ Yields(p, left)
    IN  /\ upto # 0 => p.status = "released"
        /\ delivered' = delivered \o p.frames
        /\ status' = p.status
        /\ recv_buffer_' = IF p.status = "connected" THEN left ELSE EmptyBuffer
        /\ parse_continuation_pending_' = yields
        /\ tasks' = IF yields THEN queued + 1 ELSE queued

HandleReadable ==
  /\ status = "connected"
  /\ \E n \in 1 .. Len(stream) - arrived :
       /\ arrived' = arrived + n
       /\ ParseInput(AddSlice(recv_buffer_, SubSeq(stream, arrived + 1, arrived + n)), tasks)
  /\ UNCHANGED <<codec, stream>>

ContinueTask ==
  /\ tasks > 0
  /\ IF status = "connected"
       THEN ParseInput(recv_buffer_, tasks - 1)
       ELSE /\ tasks' = tasks - 1
            /\ UNCHANGED <<recv_buffer_, delivered, parse_continuation_pending_, status>>
  /\ UNCHANGED <<codec, stream, arrived>>

Next == HandleReadable \/ ContinueTask

Spec == Init /\ [][Next]_vars

-----------------------------------------------------------------------------
(* Properties.  They are stated with what a frame of each codec is, and not *)
(* with Decode.                                                             *)

\* The value that a length field declares, by the weight of its digits.
Declared(c, s) ==
  LET n == c.length_field_length
      weight(i) == Base ^ (IF c.network_to_host THEN n - i ELSE i - 1)
  IN  FoldFunction(+, 0, [i \in 1 .. n |-> s[c.length_field_offset + i] * weight(i)])

BadHeader(c, s) ==
  /\ c.kind = "length"
  /\ Len(s) >= c.header_len
  /\ Declared(c, s) >= INT64_MAX \/ Declared(c, s) + c.header_len > SIZE_MAX

\* The application's function calls it an error, or says that it took no byte, or
\* more than there are.
BadAnswer(c, s) ==
  /\ c.kind = "callback"
  /\ s # <<>>
  /\ \/ c.answers[s[1]].result = "kError"
     \/ c.answers[s[1]].result = "kSuccess" /\ c.answers[s[1]].consumed \notin 1 .. Len(s)

\* A frame of the delimiter codec ends with the delimiter: so say its code
\* (delimiter_codec.cc:20) and the repository's test (test_integration.cc:171).
\* The comment at connx/c.h:106 says otherwise, see DelimiterLeftOut.
IsFrame(c, s) ==
  CASE c.kind = "delimiter" ->
         s # <<>> /\ \A i \in DOMAIN s : (s[i] = c.delimiter) <=> (i = Len(s))
    [] c.kind = "fixed"     -> Len(s) = c.fixed_length
    [] c.kind = "length"    ->
         /\ Len(s) >= c.header_len
         /\ ~BadHeader(c, s)
         /\ Len(s) = c.header_len + Declared(c, s)
    [] c.kind = "callback"  -> s # <<>> /\ c.answers[s[1]] = Result("kSuccess", Len(s))

Undelivered ==
  SubSeq(stream, Len(FlattenSeq(delivered)) + 1, arrived)

\* However recv cuts the stream and wherever the parser yields, what OnMessage is
\* given are frames, one after the other from the first byte received, none
\* skipped, repeated or cut.  ParseInput closes the connection for a protocol
\* error only when the first header it has not delivered declares a body no
\* buffer can hold, or the application's function gave an answer it cannot use.
\* A frame of the delimiter codec is taken to include its delimiter (see IsFrame);
\* that connx/c.h promises it without is what DelimiterLeftOut is about.
DeliversTheStream ==
  /\ status = "error" => BadHeader(codec, Undelivered) \/ BadAnswer(codec, Undelivered)
  /\ IsPrefix(FlattenSeq(delivered), SubSeq(stream, 1, arrived))
  /\ \A i \in DOMAIN delivered : IsFrame(codec, delivered[i])

\* A parser at rest (connected, no continuation posted) has left behind neither a
\* complete frame nor a header or an answer it must reject: the peer need not send
\* another byte for ParseInput to see it.
NothingLeftBehind ==
  status = "connected" /\ tasks = 0 =>
    /\ ~BadHeader(codec, Undelivered) /\ ~BadAnswer(codec, Undelivered)
    /\ \A n \in 1 .. Len(Undelivered) : ~IsFrame(codec, SubSeq(Undelivered, 1, n))

\* The receive buffer of a connected client holds the bytes that were received and
\* not delivered, in order and however they were cut into slices; length_, which
\* ParseInput and MoveHeader trust, counts them, and no slice is empty.
BufferHoldsTheRest ==
  status = "connected" =>
    /\ Merge(recv_buffer_) = Undelivered
    /\ GetBufferLength(recv_buffer_) = Len(Undelivered)
    /\ \A i \in DOMAIN recv_buffer_.ds : recv_buffer_.ds[i] # <<>>

\* What connx/c.h:106 says of connx_codec_new_delimiter: "The delimiter itself is
\* not included in the decoded frame data."  It is not so: DelimiterCodec::Decode
\* counts the delimiter as consumed, and ParseInput hands OnMessage all that was.
DelimiterLeftOut ==
  codec.kind = "delimiter" => \A i \in DOMAIN delivered : codec.delimiter \notin Range(delivered[i])
=============================================================================
