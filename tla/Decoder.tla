------------------------------ MODULE Decoder ------------------------------
(***************************************************************************)
(* szBinary_decoder_t (src/src/szBinary_decoder.hpp): frames out of a byte *)
(* stream that arrives in chunks cut anywhere.                             *)
(*                                                                         *)
(* A byte is its position in the stream of the connection; what matters of *)
(* its contents is what a frame says where the decoder looks: the length   *)
(* in its header and whether its checksum is right.  A decoder that takes  *)
(* the middle of a frame for a header finds any length and any checksum.   *)
(* Lengths stay below 2^31, where `int' holds them.                        *)
(***************************************************************************)
EXTENDS Integers, Sequences

CONSTANTS
  HeadSize,             \* sizeof(SZB_Head): 8
  TailSize,             \* sizeof(SZB_Tail): 4
  MaxBody,              \* bound: the longest body
  MaxFrames,            \* bound: frames in one connection
  MaxChunk              \* MAX_BUFFER_SIZE, the most a read returns

ASSUME DecoderAssumption ==
  /\ {HeadSize, TailSize, MaxChunk} \subseteq Nat \ {0}
  /\ {MaxBody, MaxFrames} \subseteq Nat

VARIABLES
  stream,               \* the frames the peer sends on this connection
  begin, end,           \* the bytes of the chunk that decode has not consumed
  state,                \* state_
  buffered,             \* decodeBuffer_.size()
  bodySize,             \* bodySize_
  fresh,                \* history: where the decoder last started from nothing
  handled               \* history: where the frames began it handled since

stateVars == <<state, buffered, bodySize>>
vars == <<stream, begin, end, stateVars, fresh, handled>>

Frames == [body : 0..MaxBody, intact : BOOLEAN]
Streams == UNION { [1..n -> Frames] : n \in 0..MaxFrames }

\* Where frame k of the stream begins; the last one is where the stream ends.
Starts ==
  LET at[k \in 1..Len(stream) + 1] ==
        IF k = 1 THEN 0 ELSE at[k - 1] + HeadSize + stream[k - 1].body + TailSize
  IN  at
StreamEnd == Starts[Len(stream) + 1]

\* Where the bytes in decodeBuffer_ begin, and whether that is frame k.
FrameBegin == begin - buffered
AtFrame(k) == Starts[k] = FrameBegin
Misaligned == \A k \in 1..Len(stream) : ~AtFrame(k)

-----------------------------------------------------------------------------
Reset ==
  /\ state' = "HEAD"
  /\ buffered' = 0
  /\ bodySize' = 0

(* The same without a look at the end of the chunk. *)
ConsumePastEnd(lack) ==
  /\ begin' = begin + lack
  /\ buffered' = buffered + lack

\* consume: as many of the bytes the current part lacks as the chunk has.
Consume(lack) ==
  LET count == IF end - begin >= lack THEN lack ELSE end - begin
  IN  /\ begin' = begin + count
      /\ buffered' = buffered + count

HeadLack == HeadSize - buffered
BodyLack == bodySize - buffered + HeadSize
TailLack == bodySize + HeadSize + TailSize - buffered
Has(lack) == end - begin >= lack

(* Steps with a bug in them, for the properties stated below. *)
ConsumeBodyIfAny ==
  /\ begin < end /\ state = "BODY" /\ BodyLack > 0 /\ Has(BodyLack)
  /\ Consume(BodyLack)
  /\ state' = "TAIL"
  /\ UNCHANGED <<stream, end, bodySize, fresh, handled>>

RejectWithoutReset ==
  /\ begin < end /\ state = "TAIL" /\ Has(TailLack)
  /\ Misaligned \/ \E k \in 1..Len(stream) : AtFrame(k) /\ ~stream[k].intact
  /\ begin' = end
  /\ fresh' = end
  /\ handled' = <<>>
  /\ buffered' = buffered + TailLack
  /\ UNCHANGED <<stream, end, state, bodySize>>

-----------------------------------------------------------------------------
Init ==
  /\ stream \in Streams
  /\ begin = 0 /\ end = 0
  /\ state = "HEAD" /\ buffered = 0 /\ bodySize = 0
  /\ fresh = 0
  /\ handled = <<>>

(* handleRead: decode is called with the chunk that was read. *)
Decode(count) ==
  /\ begin = end
  /\ end + count <= StreamEnd
  /\ end' = end + count
  /\ UNCHANGED <<stream, begin, stateVars, fresh, handled>>

(* The chunk ends within the header, body or tail the decoder is at. *)
ConsumeSome ==
  /\ begin < end
  /\ LET lack == CASE state = "HEAD" -> HeadLack
                   [] state = "BODY" -> BodyLack
                   [] state = "TAIL" -> TailLack
     IN  ~Has(lack) /\ Consume(lack)
  /\ UNCHANGED <<stream, end, state, bodySize, fresh, handled>>

(* The header is complete: get_uint32 at its second word. *)
ConsumeHead ==
  /\ begin < end /\ state = "HEAD" /\ Has(HeadLack)
  /\ Consume(HeadLack)
  /\ state' = "BODY"
  /\ \/ \E k \in 1..Len(stream) : AtFrame(k) /\ bodySize' = stream[k].body
     \/ Misaligned /\ bodySize' \in 0..MaxBody
  /\ UNCHANGED <<stream, end, fresh, handled>>

(* The body is complete, an empty one as soon as there is a byte to look at.*)
ConsumeBody ==
  /\ begin < end /\ state = "BODY" /\ Has(BodyLack)
  /\ Consume(BodyLack)
  /\ state' = "TAIL"
  /\ UNCHANGED <<stream, end, bodySize, fresh, handled>>

(* The frame is complete and its checksum is right: handle it. *)
HandleFrame ==
  /\ begin < end /\ state = "TAIL" /\ Has(TailLack)
  /\ Misaligned \/ \E k \in 1..Len(stream) : AtFrame(k) /\ stream[k].intact
  /\ begin' = begin + TailLack
  /\ handled' = Append(handled, FrameBegin)
  /\ Reset
  /\ UNCHANGED <<stream, end, fresh>>

(* Its checksum is wrong: decode returns -1, which handleRead ignores; the  *)
(* rest of the chunk is gone.                                               *)
RejectFrame ==
  /\ begin < end /\ state = "TAIL" /\ Has(TailLack)
  /\ Misaligned \/ \E k \in 1..Len(stream) : AtFrame(k) /\ ~stream[k].intact
  /\ begin' = end
  /\ fresh' = end
  /\ handled' = <<>>
  /\ Reset
  /\ UNCHANGED <<stream, end>>

(* handleTimer(RECONNECT_TIMER) resets the decoder for a new connection. *)
Reconnect ==
  /\ begin = end
  /\ stream' \in Streams
  /\ begin' = 0 /\ end' = 0
  /\ Reset
  /\ fresh' = 0
  /\ handled' = <<>>

ConsumeStep == ConsumeSome \/ ConsumeHead \/ ConsumeBody \/ HandleFrame \/ RejectFrame

Next ==
  \/ \E count \in 1..MaxChunk : Decode(count)
  \/ ConsumeStep
  \/ Reconnect

Spec == Init /\ [][Next]_vars

\* decode is a loop that runs until it returns.
FairSpec == Spec /\ WF_vars(ConsumeStep)
-----------------------------------------------------------------------------
(* The types; the decoder reads no byte behind the chunk, never holds more  *)
(* than the part of a frame that goes with its state, and holds no byte     *)
(* from before it last started anew.                                        *)
TypeOK ==
  /\ stream \in Streams
  /\ begin \in Nat /\ end \in Nat /\ begin <= end
  /\ bodySize \in 0..MaxBody
  /\ \/ state = "HEAD" /\ buffered \in 0..HeadSize - 1 /\ bodySize = 0
     \/ state = "BODY" /\ buffered \in HeadSize..HeadSize + bodySize
     \/ state = "TAIL" /\ buffered \in HeadSize + bodySize..HeadSize + bodySize + TailSize - 1
  /\ fresh \in Nat /\ fresh + buffered <= begin
  /\ handled \in Seq(Nat)

\* Where the frames begin that lie between two positions of the stream.
FramesWithin(from, to) ==
  LET indices == { k \in 1..Len(stream) : Starts[k] >= from /\ Starts[k + 1] <= to }
      first == CHOOSE k \in indices : \A j \in indices : k <= j
      count == IF indices = {} THEN 0 ELSE CHOOSE n \in 1..Len(stream) :
                 indices = first..first + n - 1
  IN  [i \in 1..count |-> Starts[first + i - 1]]

(* However the stream is cut into chunks, every frame is handled whole, in  *)
(* order, once, and as soon as its last byte is there - from the start of   *)
(* the connection, and again after a checksum error whose chunk ended at    *)
(* the end of a frame (szBinary_decoder.hpp:101-104, input_service:111).    *)
FramesAreHandled ==
  (\E k \in 1..Len(stream) + 1 : Starts[k] = fresh) => handled = FramesWithin(fresh, begin)

(* decode returns: no sequence of lengths makes it loop without consuming.  *)
DecodeReturns == begin < end ~> begin = end
=============================================================================
