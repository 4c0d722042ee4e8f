-------------------------- MODULE WritePathProofs --------------------------
(***************************************************************************)
(* The buffers of WritePath and what is sent from them, for every bound on *)
(* the completion queue, on the writes outstanding and on what is sent.    *)
(***************************************************************************)
EXTENDS WritePath, SequenceTheorems, TLAPS

\* The session, with what InputSessionProofs proves about it.
SP == INSTANCE InputSessionProofs

\* A message as the peer should get it.
Good(message) == [message |-> message, order |-> "network", sum |-> "right"]

EncInv(enc) ==
  /\ enc \in EncoderType(MessageKinds)
  /\ enc.size[enc.wait] = 0
  /\ \A b \in Buffers : enc.mem[b] # <<>> => WellEncoded(enc.mem[b][1])

-----------------------------------------------------------------------------
(* The encoder.                                                             *)
LEMMA OtherBuffer ==
  \A b \in Buffers : 1 - b \in Buffers /\ 1 - b # b /\ \A c \in Buffers : c = b \/ c = 1 - b
  BY DEF Buffers

LEMMA GoodFrame ==
  ASSUME NEW message \in MessageKinds
  PROVE  Good(message) \in Frames(MessageKinds) /\ WellEncoded(Good(message))
  BY DEF Good, Frames, Orders, WellEncoded

(* A message that is encoded into an empty wait buffer comes first in it,   *)
(* and is well encoded.                                                     *)
LEMMA EncodeFacts ==
  ASSUME NEW enc, EncInv(enc), NEW message \in MessageKinds
  PROVE  \E memory \in Seq(Frames(MessageKinds)) :
           /\ memory # <<>> /\ memory[1] = Good(message)
           /\ Encode(enc, message) = [mem |-> [enc.mem EXCEPT ![enc.wait] = memory],
                                      size |-> [enc.size EXCEPT ![enc.wait] = 1],
                                      wait |-> enc.wait]
<1>1. /\ enc.wait \in Buffers /\ enc.size[enc.wait] = 0
      /\ enc.mem \in [Buffers -> Seq(Frames(MessageKinds))]
      /\ enc.mem[enc.wait] \in Seq(Frames(MessageKinds))
  BY DEF EncInv, EncoderType
<1>2. Waiting(enc) = <<>>
  BY <1>1, SubSeqProperties DEF Waiting
<1> DEFINE raw == <<[message |-> message, order |-> "host", sum |-> "wrong"]>>
           converted == [raw EXCEPT ![1].order = Swapped(@), ![1].sum = "wrong"]
           summed == [converted EXCEPT ![1].sum = "right"]
           rest == SubSeq(enc.mem[enc.wait], 2, Len(enc.mem[enc.wait]))
<1>3. Append(Waiting(enc), [message |-> message, order |-> "host", sum |-> "wrong"]) = raw
      /\ Len(raw) = 1
  BY <1>2
<1>4. converted = <<[message |-> message, order |-> "network", sum |-> "wrong"]>>
  BY DEF Swapped
<1>5. summed = <<Good(message)>>
  <2> HIDE DEF converted
  <2>1. QED BY <1>4 DEF Good
<1>6. Encode(enc, message) = [enc EXCEPT !.mem[enc.wait] = summed \o rest, !.size[enc.wait] = 1]
  BY <1>2, <1>3 DEF Encode
<1>7. rest \in Seq(Frames(MessageKinds))
  BY <1>1, SubSeqProperties
<1> HIDE DEF raw, converted, summed, rest
<1>8. /\ <<Good(message)>> \o rest \in Seq(Frames(MessageKinds))
      /\ <<Good(message)>> \o rest # <<>>
      /\ (<<Good(message)>> \o rest)[1] = Good(message)
  <2>1. <<Good(message)>> \in Seq(Frames(MessageKinds)) /\ Len(<<Good(message)>>) = 1
    BY GoodFrame
  <2>2. QED
    BY <2>1, <1>7, ConcatProperties
<1>9. Encode(enc, message) = [mem |-> [enc.mem EXCEPT ![enc.wait] = <<Good(message)>> \o rest],
                              size |-> [enc.size EXCEPT ![enc.wait] = 1],
                              wait |-> enc.wait]
  BY <1>5, <1>6 DEF EncInv, EncoderType
<1>10. QED
  BY <1>8, <1>9

(* What Send does to the encoder: it starts the next message in the buffer  *)
(* whose write is the older one, and leaves the other buffer alone.         *)
LEMMA SendFacts ==
  ASSUME NEW enc, EncInv(enc), NEW message \in MessageKinds
  PROVE  LET next == Flush(Encode(enc, message))
         IN  /\ EncInv(next)
             /\ next.wait = 1 - enc.wait
             /\ next.mem[1 - enc.wait] = enc.mem[1 - enc.wait]
             /\ next.mem[enc.wait] # <<>> /\ next.mem[enc.wait][1] = Good(message)
             /\ Encode(enc, message).wait = enc.wait
             /\ Waiting(Encode(enc, message)) = <<Good(message)>>
<1>1. /\ enc.wait \in Buffers /\ 1 - enc.wait \in Buffers /\ 1 - enc.wait # enc.wait
      /\ enc.mem \in [Buffers -> Seq(Frames(MessageKinds))]
      /\ enc.size \in [Buffers -> Nat]
      /\ \A b \in Buffers : enc.mem[b] # <<>> => WellEncoded(enc.mem[b][1])
  BY OtherBuffer DEF EncInv, EncoderType
<1>2. PICK memory \in Seq(Frames(MessageKinds)) :
        /\ memory # <<>> /\ memory[1] = Good(message)
        /\ Encode(enc, message) = [mem |-> [enc.mem EXCEPT ![enc.wait] = memory],
                                   size |-> [enc.size EXCEPT ![enc.wait] = 1],
                                   wait |-> enc.wait]
  BY EncodeFacts
<1> DEFINE mem == [enc.mem EXCEPT ![enc.wait] = memory]
           filled == [enc.size EXCEPT ![enc.wait] = 1]
           cleared == [filled EXCEPT ![1 - enc.wait] = 0]
           next == [mem |-> mem, size |-> cleared, wait |-> 1 - enc.wait]
<1>3. Flush(Encode(enc, message)) = next
  <2> DEFINE encoded == [mem |-> mem, size |-> filled, wait |-> enc.wait]
             flushed == Flush(encoded)
  <2>1. Encode(enc, message) = encoded
    BY <1>2
  <2>2. flushed = [encoded EXCEPT !.size = cleared, !.wait = 1 - enc.wait]
    BY DEF Flush
  <2> HIDE DEF flushed, mem, filled, cleared
  <2>3. flushed = next
    BY <2>2
  <2>4. QED
    BY <2>1, <2>3 DEF flushed
<1>4. EncInv(next)
  <2>1. /\ mem \in [Buffers -> Seq(Frames(MessageKinds))]
        /\ cleared \in [Buffers -> Nat] /\ cleared[1 - enc.wait] = 0
        /\ \A b \in Buffers : mem[b] # <<>> => WellEncoded(mem[b][1])
    BY <1>1, <1>2, GoodFrame
  <2> HIDE DEF mem, cleared
  <2>2. QED
    BY <1>1, <2>1 DEF EncInv, EncoderType
<1>5. Waiting(Encode(enc, message)) = <<Good(message)>>
  <2>1. Waiting(Encode(enc, message)) = SubSeq(memory, 1, 1)
    BY <1>1, <1>2 DEF Waiting
  <2>2. Len(memory) \in Nat \ {0}
    BY <1>2, EmptySeq, LenProperties
  <2>3. QED
    BY <1>2, <2>1, <2>2
<1>6. /\ next.wait = 1 - enc.wait
      /\ next.mem[1 - enc.wait] = enc.mem[1 - enc.wait]
      /\ next.mem[enc.wait] = memory
  BY <1>1
<1>7. Encode(enc, message).wait = enc.wait
  BY <1>2
<1> HIDE DEF next
<1>8. QED
  BY <1>2, <1>3, <1>4, <1>5, <1>6, <1>7

(* Reset empties the buffers, not their memory.                             *)
LEMMA ResetFacts ==
  ASSUME NEW enc, EncInv(enc)
  PROVE  EncInv(Reset(enc)) /\ Reset(enc).mem = enc.mem
  BY DEF EncInv, EncoderType, Reset, Buffers

-----------------------------------------------------------------------------
(* The writes.                                                              *)

\* What the first message in the buffer of a write is.
FirstIn(enc, write) == enc.mem[write.buffer][1]

\* A write that is outstanding: of one message, not sent yet.  Since it was
\* started its buffer was the write buffer, then the wait buffer.
Sound(enc, write) ==
  /\ write \in Write
  /\ write.length = Parts /\ write.sent < Parts
  /\ Len(write.bytes) = 1
  /\ enc.mem[write.buffer] # <<>>
  /\ write.later = 0 => write.buffer = 1 - enc.wait
  /\ write.later = 1 => write.buffer = enc.wait
  /\ write.later < 2 => FirstIn(enc, write) = write.bytes[1]

OutInv(enc, writes) ==
  /\ writes \in Seq(Write)
  /\ \A i \in 1..Len(writes) : Sound(enc, writes[i])

LEMMA TouchedFacts ==
  ASSUME NEW write \in Write
  PROVE  /\ Touched(write) \in Write
         /\ Touched(write).buffer = write.buffer /\ Touched(write).length = write.length
         /\ Touched(write).sent = write.sent /\ Touched(write).bytes = write.bytes
         /\ Touched(write).later = IF write.later < 2 THEN write.later + 1 ELSE 2
  BY DEF Touched, Write

(* One more message is encoded: what was in the write buffer is now in the  *)
(* wait buffer, and what was there may be overwritten.                      *)
LEMMA TouchedSound ==
  ASSUME NEW enc, EncInv(enc), NEW write, Sound(enc, write), NEW message \in MessageKinds
  PROVE  Sound(Flush(Encode(enc, message)), Touched(write))
<1> DEFINE next == Flush(Encode(enc, message))
<1>1. /\ next.wait = 1 - enc.wait
      /\ next.mem[1 - enc.wait] = enc.mem[1 - enc.wait]
      /\ next.mem[enc.wait] # <<>>
  BY SendFacts
<1>2. enc.wait \in Buffers /\ write \in Write /\ write.buffer \in Buffers /\ write.later \in 0..2
  BY DEF EncInv, EncoderType, Sound, Write
<1> HIDE DEF next
<1> SUFFICES Sound(next, Touched(write))
  BY DEF next
<1>3. next.mem[write.buffer] # <<>>
  BY <1>1, <1>2, OtherBuffer DEF Sound
<1>4. CASE write.later = 0
  BY <1>1, <1>2, <1>3, <1>4, TouchedFacts DEF Sound, FirstIn
<1>5. CASE write.later # 0
  BY <1>1, <1>2, <1>3, <1>5, TouchedFacts DEF Sound, FirstIn
<1>6. QED
  BY <1>4, <1>5

-----------------------------------------------------------------------------
(* The session.  Each step here is one of its steps, or leaves it alone.    *)
LEMMA SessionAssumptions == SP!SessionAssumption /\ SP!AsioAssumption
  BY WritePathAssumption DEF WritePathAssumption, SP!SessionAssumption, SP!AsioAssumption

LEMMA StepOfSession ==
  ASSUME [Next]_vars
  PROVE  [S!Next]_(S!vars)
<1> USE DEF S!vars, S!history, sessionVars
<1>1. CASE HandleConnect
  BY <1>1 DEF HandleConnect, S!Next, S!Handler
<1>2. CASE NoDelayFails
  BY <1>2 DEF NoDelayFails, S!Next, S!Handler
<1>3. CASE Heartbeat
  BY <1>3 DEF Heartbeat, S!Next, S!Handler
<1>4. CASE Reconnect
  BY <1>4 DEF Reconnect, S!Next, S!Handler
<1>5. CASE ReconnectUnresolved
  BY <1>5 DEF ReconnectUnresolved, S!Next, S!Handler
<1>6. CASE OtherHandler
  BY <1>6 DEF OtherHandler, S!Next, S!Handler
<1>7. ASSUME NEW i \in DOMAIN out, KernelTakes(i) \/ KernelTakesLast(i)
      PROVE  [S!Next]_(S!vars)
  BY <1>7 DEF KernelTakes, KernelTakesLast, S!Event, S!Next, S!Environment
<1>8. CASE WriteFails
  BY <1>8 DEF WriteFails, S!Event, S!Next, S!Environment
<1>9. CASE OtherEvent
  BY <1>9 DEF OtherEvent, S!Event, S!Next, S!Environment
<1>10. CASE UNCHANGED vars
  BY <1>10 DEF vars
<1>11. QED
  BY <1>1, <1>2, <1>3, <1>4, <1>5, <1>6, <1>7, <1>8, <1>9, <1>10 DEF Next

(* The two instances of the session are the same.                           *)
LEMMA SameSteps ==
  /\ (S!Drop => SP!Drop) /\ (S!HandleConnect => SP!HandleConnect)
  /\ (S!NoDelayFails => SP!NoDelayFails) /\ (S!HandleConnectError => SP!HandleConnectError)
  /\ (S!HandleRead => SP!HandleRead) /\ (S!DoRead => SP!DoRead)
  /\ (S!HandleReadError => SP!HandleReadError)
  /\ \A message : S!HandleMessage(message) => SP!HandleMessage(message)
  /\ (S!HandleWrite => SP!HandleWrite) /\ (S!HandleWriteError => SP!HandleWriteError)
  /\ (S!Reconnect => SP!Reconnect) /\ (S!ReconnectUnresolved => SP!ReconnectUnresolved)
  /\ \A sends : S!Heartbeat(sends) => SP!Heartbeat(sends)
  /\ S!Environment => SP!Environment
<1> USE DEF S!Completion, SP!Completion, S!Queued, SP!Queued, S!CancelTimer,
            SP!CancelTimer, S!SetTimer, SP!SetTimer, S!AsyncRead, SP!AsyncRead,
            S!AsyncWrite, SP!AsyncWrite, S!Aborts, SP!Aborts, S!AsyncConnect,
            SP!AsyncConnect, S!Completed, SP!Completed, S!Taken, SP!Taken, S!Idle, SP!Idle,
            S!InHandleRead, SP!InHandleRead, S!Send, SP!Send, S!Abandon, SP!Abandon,
            S!Noted, SP!Noted, S!history, SP!history, S!RECONNECT_TIMER,
            SP!RECONNECT_TIMER, S!HEARTBEAT_TIMER, SP!HEARTBEAT_TIMER
<1>1. S!Drop => SP!Drop
  BY DEF S!Drop, SP!Drop, S!Timers, SP!Timers
<1>2. (S!HandleConnect => SP!HandleConnect) /\ (S!NoDelayFails => SP!NoDelayFails)
      /\ (S!HandleConnectError => SP!HandleConnectError)
  BY DEF S!HandleConnect, SP!HandleConnect, S!NoDelayFails, SP!NoDelayFails,
         S!HandleConnectError, SP!HandleConnectError
<1>3. (S!HandleRead => SP!HandleRead) /\ (S!DoRead => SP!DoRead)
      /\ (S!HandleReadError => SP!HandleReadError)
  BY DEF S!HandleRead, SP!HandleRead, S!DoRead, SP!DoRead, S!HandleReadError, SP!HandleReadError
<1>4. ASSUME NEW message PROVE S!HandleMessage(message) => SP!HandleMessage(message)
  BY DEF S!HandleMessage, SP!HandleMessage
<1>5. (S!HandleWrite => SP!HandleWrite) /\ (S!HandleWriteError => SP!HandleWriteError)
  BY DEF S!HandleWrite, SP!HandleWrite, S!HandleWriteError, SP!HandleWriteError
<1>6. (S!Reconnect => SP!Reconnect) /\ (S!ReconnectUnresolved => SP!ReconnectUnresolved)
  BY DEF S!Reconnect, SP!Reconnect, S!ReconnectUnresolved, SP!ReconnectUnresolved
<1>7. ASSUME NEW sends PROVE S!Heartbeat(sends) => SP!Heartbeat(sends)
  BY DEF S!Heartbeat, SP!Heartbeat
<1>8. S!Environment => SP!Environment
  BY DEF S!Environment, SP!Environment, S!ConnectSucceeds, SP!ConnectSucceeds, S!ConnectFails,
         SP!ConnectFails, S!LinkBreaks, SP!LinkBreaks, S!DataArrives, SP!DataArrives,
         S!ReadFails, SP!ReadFails, S!WriteSucceeds, SP!WriteSucceeds, S!WriteFails,
         SP!WriteFails, S!TimerExpires, SP!TimerExpires, S!Timers, SP!Timers,
         S!KeepsUp, SP!KeepsUp
<1>9. QED
  BY <1>1, <1>2, <1>3, <1>4, <1>5, <1>6, <1>7, <1>8

LEMMA SameSession == [S!Next]_(S!vars) => [SP!Next]_(SP!vars)
<1>1. S!Handler => SP!Handler
  BY SameSteps DEF S!Handler, SP!Handler
<1>2. QED
  BY <1>1, SameSteps DEF S!Next, SP!Next, S!vars, SP!vars, S!history, SP!history

LEMMA SameSessionInit == S!Init => SP!Init
  BY DEF S!Init, SP!Init, S!AsyncConnect, SP!AsyncConnect, S!SetTimer, SP!SetTimer, S!CancelTimer,
         SP!CancelTimer, S!Queued, SP!Queued, S!Completion, SP!Completion, S!Aborts,
         SP!Aborts, S!Idle, SP!Idle, S!RECONNECT_TIMER, SP!RECONNECT_TIMER

LEMMA SessionHolds == Spec => [](SP!IInv /\ SP!Undisturbed)
<1>1. Init => SP!Init
  BY SameSessionInit DEF Init
<1>2. [Next]_vars => [SP!Next]_(SP!vars)
  BY StepOfSession, SameSession
<1>3. Spec => SP!Spec
  BY <1>1, <1>2, PTL DEF Spec, SP!Spec
<1>4. SP!Spec => [](SP!IInv /\ SP!Undisturbed)
  BY SP!SpecUndisturbed, SessionAssumptions
<1>5. QED
  BY <1>3, <1>4, PTL

\* How a step treats the connection and the number of writes on it.
SameLink == io'.link = io.link
NoNewLink ==
  /\ io'.link = "up" => io.link \in {"up", "connecting"}
  /\ io'.link = "connecting" => io.link = "connecting"

(* What the steps of the session do to the connection and its writes.       *)
LEMMA SessionSteps ==
  ASSUME io \in S!IoType, io.connecting <=> io.link = "connecting"
  PROVE  /\ S!HandleConnect => SameLink /\ io'.writes = io.writes + 1
         /\ S!NoDelayFails => io'.link = "null" /\ io'.writes = 0
         /\ S!Heartbeat(TRUE) => SameLink /\ io'.writes = io.writes + 1
         /\ S!Heartbeat(FALSE) => SameLink /\ io'.writes = io.writes
         /\ S!Reconnect => io'.link = "connecting" /\ io'.writes = 0
         /\ S!ReconnectUnresolved => SameLink /\ io'.writes = io.writes
<1> USE DEF SameLink, S!IoType, S!Taken, S!SetTimer, S!CancelTimer, S!Queued, S!AsyncRead,
            S!AsyncWrite, S!AsyncConnect, S!Send, S!Idle
<1>1. S!HandleConnect => SameLink /\ io'.writes = io.writes + 1
  BY DEF S!HandleConnect
<1>2. S!NoDelayFails => io'.link = "null" /\ io'.writes = 0
  BY DEF S!NoDelayFails
<1>3. S!Heartbeat(TRUE) => SameLink /\ io'.writes = io.writes + 1
  BY DEF S!Heartbeat
<1>4. S!Heartbeat(FALSE) => SameLink /\ io'.writes = io.writes
  BY DEF S!Heartbeat
<1>5. S!Reconnect => io'.link = "connecting" /\ io'.writes = 0
  BY DEF S!Reconnect
<1>6. S!ReconnectUnresolved => SameLink /\ io'.writes = io.writes
  BY DEF S!ReconnectUnresolved
<1>7. QED
  BY <1>1, <1>2, <1>3, <1>4, <1>5, <1>6

(* The handlers that send nothing, and what happens between the handlers.   *)
LEMMA OtherSteps ==
  ASSUME io \in S!IoType, io.connecting <=> io.link = "connecting"
  PROVE  /\ OtherHandler => SameLink /\ io'.writes = io.writes
         /\ S!WriteSucceeds =>
              io.link = "up" /\ SameLink /\ io.writes > 0 /\ io'.writes = io.writes - 1
         /\ S!WriteFails =>
              io.link # "up" /\ SameLink /\ io.writes > 0 /\ io'.writes = io.writes - 1
         /\ OtherEvent => NoNewLink /\ io'.writes = io.writes
<1> USE DEF SameLink, S!IoType, S!Taken, S!SetTimer, S!CancelTimer, S!Queued, S!AsyncRead,
            S!Abandon, S!Links
<1>1. S!Drop => SameLink /\ io'.writes = io.writes
  BY DEF S!Drop
<1>2. S!HandleConnectError \/ S!HandleReadError \/ S!HandleWriteError
        => SameLink /\ io'.writes = io.writes
  BY DEF S!HandleConnectError, S!HandleReadError, S!HandleWriteError
<1>3. S!HandleRead \/ S!DoRead \/ S!HandleWrite => SameLink /\ io'.writes = io.writes
  BY DEF S!HandleRead, S!DoRead, S!HandleWrite
<1>4. ASSUME NEW message \in {"logon", "logout", "other"}
      PROVE  S!HandleMessage(message) => SameLink /\ io'.writes = io.writes
  BY DEF S!HandleMessage
<1>5. S!WriteSucceeds =>
        io.link = "up" /\ SameLink /\ io.writes > 0 /\ io'.writes = io.writes - 1
  BY DEF S!WriteSucceeds
<1>6. S!WriteFails =>
        io.link # "up" /\ SameLink /\ io.writes > 0 /\ io'.writes = io.writes - 1
  BY DEF S!WriteFails
<1>7. OtherEvent => NoNewLink /\ io'.writes = io.writes
  BY DEF OtherEvent, S!Event, NoNewLink, S!ConnectSucceeds, S!ConnectFails, S!LinkBreaks,
         S!DataArrives, S!ReadFails, S!TimerExpires
<1>8. QED
  BY <1>1, <1>2, <1>3, <1>4, <1>5, <1>6, <1>7 DEF OtherHandler

-----------------------------------------------------------------------------
(* The invariant.                                                           *)
Pieces == [frame : Frames(MessageKinds), part : 1..Parts]

\* The pieces on the wire are parts of good messages, each behind the part
\* before it.
Orderly(pieces) ==
  \A i \in 1..Len(pieces) :
    /\ pieces[i].part = ((i - 1) % Parts) + 1
    /\ pieces[i].part > 1 => pieces[i].frame = pieces[i - 1].frame

\* On a connection where no write was started behind another one, the wire ends
\* where the write that is outstanding goes on.
WireInv ==
  ~overlapped =>
    /\ Orderly(wire)
    /\ Len(out) <= 1
    /\ io.link = "connecting" => wire = <<>>
    /\ io.link \in {"connecting", "up"} =>
         IF out = <<>> THEN Len(wire) % Parts = 0
         ELSE /\ Len(wire) % Parts = out[1].sent
              /\ out[1].sent > 0 => wire[Len(wire)].frame = FirstIn(encoder, out[1])

SendInv ==
  /\ EncInv(encoder)
  /\ OutInv(encoder, out)
  /\ wire \in Seq(Pieces) /\ \A i \in 1..Len(wire) : WellEncoded(wire[i].frame)
  /\ overlapped \in BOOLEAN
  /\ io.writes = Len(out)
  /\ WireInv

LEMMA InitInv == Init => SendInv
<1> SUFFICES ASSUME Init PROVE SendInv
  OBVIOUS
<1>1. EncInv(NewEncoder)
  <2>1. <<>> \in Seq(Frames(MessageKinds))
    OBVIOUS
  <2>2. QED
    BY <2>1 DEF NewEncoder, EncInv, EncoderType, Buffers
<1>2. io.writes = 0
  BY DEF Init, S!Init, S!AsyncConnect, S!SetTimer, S!CancelTimer, S!Queued, S!Idle
<1>3. OutInv(encoder, out) /\ wire \in Seq(Pieces) /\ Len(wire) = 0 /\ Len(out) = 0
  BY DEF Init, OutInv
<1>4. WireInv
  <2>1. Len(wire) % Parts = 0
    BY <1>3 DEF Parts
  <2>2. Orderly(wire)
    BY <1>3 DEF Orderly
  <2>3. QED
    BY <1>3, <2>1, <2>2 DEF Init, WireInv
<1>5. encoder = NewEncoder /\ overlapped \in BOOLEAN
  BY DEF Init
<1>6. \A i \in 1..Len(wire) : WellEncoded(wire[i].frame)
  BY <1>3
<1>7. io.writes = Len(out)
  BY <1>2, <1>3
<1> HIDE DEF Init
<1>8. QED
  BY <1>1, <1>3, <1>4, <1>5, <1>6, <1>7, Zenon DEF SendInv

(* The writes, after one more.                                              *)
LEMMA SentWrites ==
  ASSUME SendInv, NEW message \in MessageKinds, Send(message)
  PROVE  /\ EncInv(encoder)' /\ OutInv(encoder, out)'
         /\ Len(out') = Len(out) + 1
         /\ overlapped' = (overlapped \/ out # <<>>)
         /\ UNCHANGED wire
         /\ out'[Len(out) + 1].sent = 0
         /\ out'[Len(out) + 1].bytes[1] = Good(message)
         /\ FirstIn(encoder', out'[Len(out) + 1]) = Good(message)
<1> DEFINE encoded == Encode(encoder, message)
           next == Flush(encoded)
           write == [buffer |-> encoder.wait, length |-> Parts, sent |-> 0,
                     bytes |-> <<Good(message)>>, later |-> 0]
           touched == [i \in DOMAIN out |-> Touched(out[i])]
<1>1. /\ EncInv(next) /\ next.wait = 1 - encoder.wait
      /\ next.mem[encoder.wait] # <<>> /\ next.mem[encoder.wait][1] = Good(message)
      /\ encoded.wait = encoder.wait /\ Waiting(encoded) = <<Good(message)>>
  BY SendFacts DEF SendInv
<1>2. /\ encoder' = next /\ out' = Append(touched, write)
      /\ overlapped' = (overlapped \/ out # <<>>) /\ UNCHANGED wire
  <2>1. Parts * Len(Waiting(encoded)) = Parts
    BY <1>1 DEF Parts
  <2>2. QED
    BY <1>1, <2>1 DEF Send
<1>3. /\ out \in Seq(Write) /\ Len(out) \in Nat /\ DOMAIN out = 1..Len(out)
      /\ \A i \in 1..Len(out) : Sound(encoder, out[i])
  BY LenProperties DEF SendInv, OutInv
<1>4. \A i \in 1..Len(out) : touched[i] \in Write /\ Sound(next, touched[i])
  <2> TAKE i \in 1..Len(out)
  <2>1. out[i] \in Write /\ Sound(encoder, out[i]) /\ EncInv(encoder)
    BY <1>3 DEF SendInv, Sound
  <2>2. touched[i] = Touched(out[i])
    BY <1>3
  <2> HIDE DEF touched
  <2>3. QED
    BY <2>1, <2>2, TouchedFacts, TouchedSound
<1>5. touched \in Seq(Write) /\ Len(touched) = Len(out)
  BY <1>3, <1>4
<1>6. write \in Write /\ Sound(next, write)
  <2>1. encoder.wait \in Buffers
    BY DEF SendInv, EncInv, EncoderType
  <2>2. <<Good(message)>> \in Seq(Frames(MessageKinds)) /\ Len(<<Good(message)>>) = 1
    BY GoodFrame
  <2>3. write \in Write
    BY <2>1, <2>2 DEF Write, Parts
  <2>4. 1 - (1 - encoder.wait) = encoder.wait
    BY <2>1 DEF Buffers
  <2> HIDE DEF next
  <2>5. QED
    BY <1>1, <2>2, <2>3, <2>4 DEF Sound, FirstIn, Parts
<1> HIDE DEF touched, write, next
<1>7. /\ Append(touched, write) \in Seq(Write) /\ Len(Append(touched, write)) = Len(out) + 1
      /\ Append(touched, write)[Len(out) + 1] = write
      /\ \A i \in 1..Len(out) : Append(touched, write)[i] = touched[i]
  BY <1>5, <1>6, AppendProperties
<1>8. OutInv(next, Append(touched, write))
  BY <1>3, <1>4, <1>6, <1>7 DEF OutInv
<1>9. write.sent = 0 /\ write.bytes[1] = Good(message)
      /\ FirstIn(next, write) = next.mem[encoder.wait][1]
  BY DEF write, FirstIn
<1>10. QED
  BY <1>1, <1>2, <1>7, <1>8, <1>9

(* A heartbeat or a logon: with nothing outstanding before it, it is the    *)
(* only write; behind another one, writes overlap from then on.             *)
LEMMA SendStep ==
  ASSUME SendInv, NEW message \in MessageKinds, Send(message),
         SameLink, io'.writes = io.writes + 1
  PROVE  SendInv'
<1>1. /\ EncInv(encoder)' /\ OutInv(encoder, out)' /\ Len(out') = Len(out) + 1
      /\ overlapped' = (overlapped \/ out # <<>>) /\ UNCHANGED wire
      /\ out'[Len(out) + 1].sent = 0
  BY SentWrites
<1>2. WireInv'
  <2> SUFFICES ASSUME ~overlapped' PROVE WireInv'
    BY DEF WireInv
  <2>1. ~overlapped /\ out = <<>> /\ Len(out) = 0
    BY <1>1
  <2>2. Len(out') = 1 /\ out'[1].sent = 0
    BY <1>1, <2>1
  <2>3. out' # <<>>
    BY <2>2
  <2>4. QED
    BY <1>1, <2>1, <2>2, <2>3 DEF SendInv, WireInv, SameLink
<1>3. QED
  BY <1>1, <1>2 DEF SendInv

(* A step that touches neither the encoder nor the writes.                  *)
LEMMA QuietStep ==
  ASSUME SendInv, UNCHANGED sendVars, SameLink \/ NoNewLink, io'.writes = io.writes
  PROVE  SendInv'
<1>1. WireInv'
  <2>1. /\ io'.link = "connecting" => io.link = "connecting"
        /\ io'.link \in {"connecting", "up"} => io.link \in {"connecting", "up"}
    BY DEF SameLink, NoNewLink
  <2>2. QED
    BY <2>1 DEF SendInv, WireInv, sendVars
<1>2. QED
  BY <1>1 DEF SendInv, sendVars

(* The connection is gone, and with it its writes.                          *)
LEMMA ClosedStep ==
  ASSUME SendInv, out' = <<>>, io'.writes = 0,
         \/ UNCHANGED <<encoder, wire, overlapped>> /\ io'.link = "null"
         \/ encoder' = Reset(encoder) /\ wire' = <<>> /\ overlapped' = FALSE
  PROVE  SendInv'
<1>1. OutInv(encoder, out)' /\ Len(out') = 0
  BY DEF OutInv
<1>2. EncInv(encoder)'
  BY ResetFacts DEF SendInv
<1>3. wire' \in Seq(Pieces) /\ (\A i \in 1..Len(wire') : WellEncoded(wire'[i].frame))
      /\ overlapped' \in BOOLEAN
  <2>1. CASE UNCHANGED <<encoder, wire, overlapped>>
    BY <2>1 DEF SendInv
  <2>2. CASE wire' = <<>> /\ overlapped' = FALSE
    <3>1. wire' \in Seq(Pieces) /\ \A i \in 1..Len(wire') : WellEncoded(wire'[i].frame)
      BY <2>2
    <3>2. overlapped' \in BOOLEAN
      BY <2>2
    <3>3. QED
      BY <3>1, <3>2
  <2>3. QED
    BY <2>1, <2>2
<1>4. WireInv'
  <2>1. CASE UNCHANGED <<encoder, wire, overlapped>> /\ io'.link = "null"
    BY <1>1, <2>1 DEF SendInv, WireInv
  <2>2. CASE wire' = <<>>
    <3>1. Len(wire') = 0 /\ Len(wire') % Parts = 0
      BY <2>2 DEF Parts
    <3>2. Orderly(wire)'
      BY <3>1 DEF Orderly
    <3>3. QED
      BY <1>1, <2>2, <3>1, <3>2 DEF WireInv
  <2>3. QED
    BY <2>1, <2>2
<1>5. QED
  BY <1>1, <1>2, <1>3, <1>4 DEF SendInv

(* The encoder is reset under the writes: none of them counts as intact.    *)
LEMMA UnresolvedStep ==
  ASSUME SendInv, encoder' = Reset(encoder), UNCHANGED <<wire, overlapped>>,
         out' = [i \in DOMAIN out |-> [out[i] EXCEPT !.later = 2]],
         SameLink, io'.writes = io.writes
  PROVE  SendInv'
<1>1. /\ out \in Seq(Write) /\ DOMAIN out = 1..Len(out) /\ Len(out) \in Nat
      /\ \A i \in 1..Len(out) : out[i] \in Write /\ Sound(encoder, out[i])
  BY LenProperties DEF SendInv, OutInv, Sound
<1>2. EncInv(encoder') /\ encoder'.mem = encoder.mem
  BY ResetFacts DEF SendInv
<1>3. ASSUME NEW write \in Write, Sound(encoder, write),
             NEW late, late = [write EXCEPT !.later = 2]
      PROVE  /\ late \in Write /\ Sound(encoder', late)
             /\ late.sent = write.sent /\ FirstIn(encoder', late) = FirstIn(encoder, write)
  <2>1. /\ late \in Write /\ late.later = 2 /\ late.sent = write.sent
        /\ late.length = write.length /\ late.bytes = write.bytes /\ late.buffer = write.buffer
    BY <1>3 DEF Write
  <2>2. QED
    BY <1>2, <1>3, <2>1 DEF Sound, FirstIn
<1>4. \A i \in 1..Len(out) : /\ out'[i] \in Write /\ Sound(encoder', out'[i])
                             /\ out'[i].sent = out[i].sent
                             /\ FirstIn(encoder', out'[i]) = FirstIn(encoder, out[i])
  <2> TAKE i \in 1..Len(out)
  <2>1. out'[i] = [out[i] EXCEPT !.later = 2] /\ out[i] \in Write /\ Sound(encoder, out[i])
    BY <1>1
  <2>2. QED
    BY <1>3, <2>1
<1>5. out' \in Seq(Write) /\ Len(out') = Len(out)
  BY <1>1, <1>4
<1>6. OutInv(encoder, out)'
  BY <1>4, <1>5 DEF OutInv
<1>7. WireInv'
  <2>1. out = <<>> <=> out' = <<>>
    BY <1>1, <1>5, EmptySeq
  <2>2. out # <<>> => 1 \in 1..Len(out)
    BY <1>1, EmptySeq
  <2>3. QED
    BY <1>4, <1>5, <2>1, <2>2 DEF SendInv, WireInv, SameLink
<1>8. QED
  BY <1>2, <1>5, <1>6, <1>7 DEF SendInv

(* The piece the kernel takes of a write is a part of a good message.       *)
LEMMA PartFacts ==
  ASSUME SendInv, NEW i \in DOMAIN out
  PROVE  /\ i \in 1..Len(out) /\ out[i] \in Write /\ Sound(encoder, out[i])
         /\ out[i].sent \in 0..1 /\ out[i].length = 2
         /\ Part(i) = [frame |-> FirstIn(encoder, out[i]), part |-> out[i].sent + 1]
         /\ Part(i) \in Pieces /\ WellEncoded(Part(i).frame)
<1>1. i \in 1..Len(out) /\ out[i] \in Write /\ Sound(encoder, out[i])
  BY DEF SendInv, OutInv, Sound
<1>2. out[i].sent \in 0..1 /\ out[i].length = 2 /\ out[i].buffer \in Buffers
  BY <1>1 DEF Sound, Write, Parts
<1>3. out[i].sent \div Parts = 0 /\ out[i].sent % Parts = out[i].sent
  BY <1>2 DEF Parts
<1>4. Part(i) = [frame |-> FirstIn(encoder, out[i]), part |-> out[i].sent + 1]
  BY <1>3 DEF Part, FirstIn
<1>5. FirstIn(encoder, out[i]) \in Frames(MessageKinds) /\ WellEncoded(FirstIn(encoder, out[i]))
  <2>1. /\ encoder.mem[out[i].buffer] \in Seq(Frames(MessageKinds))
        /\ encoder.mem[out[i].buffer] # <<>>
        /\ WellEncoded(encoder.mem[out[i].buffer][1])
    BY <1>1, <1>2 DEF SendInv, EncInv, EncoderType, Sound
  <2>2. 1 \in 1..Len(encoder.mem[out[i].buffer])
    BY <2>1, EmptySeq, LenProperties
  <2>3. QED
    BY <2>1, <2>2, ElementOfSeq DEF FirstIn
<1>6. out[i].sent + 1 \in 1..Parts
  BY <1>2 DEF Parts
<1>7. QED
  BY <1>1, <1>2, <1>4, <1>5, <1>6 DEF Pieces

(* One more piece on the wire.                                              *)
LEMMA WireGrows ==
  ASSUME SendInv, NEW piece \in Pieces, WellEncoded(piece.frame), wire' = Append(wire, piece)
  PROVE  /\ wire' \in Seq(Pieces) /\ \A i \in 1..Len(wire') : WellEncoded(wire'[i].frame)
         /\ Len(wire) \in Nat /\ Len(wire') = Len(wire) + 1 /\ wire'[Len(wire')] = piece
         /\ Orderly(wire) /\ piece.part = (Len(wire) % Parts) + 1
            /\ (piece.part > 1 => piece.frame = wire[Len(wire)].frame) => Orderly(wire')
<1>1. /\ wire' \in Seq(Pieces) /\ Len(wire) \in Nat /\ Len(wire') = Len(wire) + 1
      /\ wire'[Len(wire) + 1] = piece
      /\ \A i \in 1..Len(wire) : wire'[i] = wire[i] /\ WellEncoded(wire[i].frame)
  BY AppendProperties, LenProperties DEF SendInv
<1>2. \A i \in 1..Len(wire') : i \in 1..Len(wire) \/ i = Len(wire) + 1
  BY <1>1
<1>3. ASSUME Orderly(wire), piece.part = (Len(wire) % Parts) + 1,
             piece.part > 1 => piece.frame = wire[Len(wire)].frame
      PROVE  Orderly(wire')
  <2> SUFFICES ASSUME NEW i \in 1..Len(wire')
               PROVE  /\ wire'[i].part = ((i - 1) % Parts) + 1
                      /\ wire'[i].part > 1 => wire'[i].frame = wire'[i - 1].frame
    BY DEF Orderly
  <2>1. CASE i \in 1..Len(wire) /\ i > 1
    <3>1. i - 1 \in 1..Len(wire)
      BY <1>1, <2>1
    <3>2. QED
      BY <1>1, <1>3, <2>1, <3>1 DEF Orderly
  <2>2. CASE i \in 1..Len(wire) /\ i = 1
    <3>1. wire'[i] = wire[i] /\ wire[i].part = 1
      BY <1>1, <1>3, <2>2 DEF Orderly, Parts
    <3>2. QED
      BY <2>2, <3>1 DEF Parts
  <2>3. CASE i = Len(wire) + 1
    <3>1. i - 1 = Len(wire) /\ wire'[i] = piece
      BY <1>1, <2>3
    <3>2. CASE Len(wire) = 0
      BY <1>1, <1>3, <3>1, <3>2 DEF Parts
    <3>3. CASE Len(wire) # 0
      <4>1. Len(wire) \in 1..Len(wire)
        BY <1>1, <3>3
      <4>2. QED
        BY <1>1, <1>3, <3>1, <4>1
    <3>4. QED
      BY <3>2, <3>3
  <2>4. (i \in 1..Len(wire) /\ i > 1) \/ (i \in 1..Len(wire) /\ i = 1) \/ i = Len(wire) + 1
    BY <1>1, <1>2
  <2>5. QED
    BY <2>1, <2>2, <2>3, <2>4, Zenon
<1>4. QED
  BY <1>1, <1>2, <1>3

(* The first part of a write.                                               *)
LEMMA TakesStep ==
  ASSUME SendInv, NEW i \in DOMAIN out, KernelTakes(i)
  PROVE  SendInv'
<1>1. /\ i \in 1..Len(out) /\ out[i] \in Write /\ Sound(encoder, out[i])
      /\ out[i].sent \in 0..1 /\ out[i].length = 2
      /\ Part(i) = [frame |-> FirstIn(encoder, out[i]), part |-> out[i].sent + 1]
      /\ Part(i) \in Pieces /\ WellEncoded(Part(i).frame)
  BY PartFacts
<1>2. /\ io.link = "up" /\ out[i].sent + 1 < out[i].length
      /\ wire' = Append(wire, Part(i))
      /\ out' = [out EXCEPT ![i].sent = out[i].sent + 1]
      /\ UNCHANGED <<io, encoder, overlapped>>
  BY DEF KernelTakes, MayTake, sessionVars
<1>3. /\ out \in Seq(Write) /\ Len(out) \in Nat
      /\ \A j \in 1..Len(out) : out[j] \in Write /\ Sound(encoder, out[j])
  BY LenProperties DEF SendInv, OutInv, Sound
<1>4. out[i].sent = 0 /\ out[i].sent + 1 = 1
  BY <1>1, <1>2
<1> DEFINE taken == [out[i] EXCEPT !.sent = 1]
<1>5. /\ taken \in Write /\ taken.sent = 1 /\ taken.buffer = out[i].buffer
      /\ taken.length = out[i].length /\ taken.bytes = out[i].bytes
      /\ taken.later = out[i].later
  BY <1>1 DEF Write
<1>6. out' = [out EXCEPT ![i] = taken]
  BY <1>2, <1>4
<1> HIDE DEF taken
<1>7. Sound(encoder, taken) /\ FirstIn(encoder, taken) = FirstIn(encoder, out[i])
  BY <1>1, <1>5 DEF Sound, FirstIn, Parts
<1>8. /\ out' \in Seq(Write) /\ Len(out') = Len(out) /\ out'[i] = taken
      /\ \A j \in 1..Len(out) : j # i => out'[j] = out[j]
  BY <1>1, <1>3, <1>5, <1>6
<1>9. OutInv(encoder, out)'
  BY <1>2, <1>3, <1>7, <1>8 DEF OutInv
<1>10. /\ wire' \in Seq(Pieces) /\ \A j \in 1..Len(wire') : WellEncoded(wire'[j].frame)
       /\ Len(wire) \in Nat /\ Len(wire') = Len(wire) + 1 /\ wire'[Len(wire')] = Part(i)
       /\ Orderly(wire) /\ Part(i).part = (Len(wire) % Parts) + 1
            /\ (Part(i).part > 1 => Part(i).frame = wire[Len(wire)].frame) => Orderly(wire')
  BY <1>1, <1>2, WireGrows
<1>11. WireInv'
  <2> SUFFICES ASSUME ~overlapped PROVE WireInv'
    BY <1>2 DEF WireInv
  <2>1. i = 1 /\ out # <<>> /\ Len(out) = 1
    <3>1. Len(out) <= 1
      BY DEF SendInv, WireInv
    <3>2. i = 1 /\ Len(out) = 1
      <4>1. i \in 1..Len(out)
        BY <1>1
      <4>2. Len(out) \in Nat
        BY <1>3
      <4>3. \A n \in Nat : n <= 1 /\ i \in 1..n => i = 1 /\ n = 1
        OBVIOUS
      <4>4. QED
        BY <3>1, <4>1, <4>2, <4>3
    <3>3. out # <<>>
      BY <3>2
    <3>4. QED
      BY <3>2, <3>3
  <2>2. Orderly(wire) /\ Len(wire) % Parts = 0
    BY <1>2, <1>4, <2>1 DEF SendInv, WireInv
  <2>3. Part(i).part = 1 /\ Part(i).frame = FirstIn(encoder, out[i])
    BY <1>1, <1>4
  <2>4. Orderly(wire')
    BY <1>10, <2>2, <2>3
  <2>5. Len(wire') % Parts = 1
    BY <1>10, <2>2 DEF Parts
  <2>6. out'[1].sent = 1 /\ FirstIn(encoder', out'[1]) = wire'[Len(wire')].frame
    BY <1>2, <1>5, <1>7, <1>8, <1>10, <2>1, <2>3
  <2>7. io'.link # "connecting" /\ Len(out') = 1 /\ out' # <<>>
    BY <1>2, <1>8, <2>1
  <2>8. QED
    BY <2>4, <2>5, <2>6, <2>7 DEF WireInv
<1>12. QED
  BY <1>2, <1>8, <1>9, <1>10, <1>11 DEF SendInv

(* What is left when a write is complete.                                   *)
LEMMA WithoutFacts ==
  ASSUME SendInv, NEW i \in 1..Len(out), out' = Without(i), UNCHANGED encoder
  PROVE  OutInv(encoder, out)' /\ Len(out) \in Nat /\ Len(out') = Len(out) - 1
<1>1. /\ out \in Seq(Write) /\ Len(out) \in Nat
      /\ \A j \in 1..Len(out) : Sound(encoder, out[j])
  BY LenProperties DEF SendInv, OutInv
<1> DEFINE before == SubSeq(out, 1, i - 1)
           behind == SubSeq(out, i + 1, Len(out))
<1>2. /\ before \in Seq(Write) /\ Len(before) = i - 1
      /\ \A j \in 1..Len(before) : before[j] = out[j]
  BY <1>1, SubSeqProperties
<1>3. /\ behind \in Seq(Write) /\ Len(behind) = Len(out) - i
      /\ \A j \in 1..Len(behind) : behind[j] = out[i + j]
  BY <1>1, SubSeqProperties
<1>4. out' = before \o behind
  BY DEF Without
<1> HIDE DEF before, behind
<1>5. /\ out' \in Seq(Write) /\ Len(out') = Len(out) - 1
      /\ \A j \in 1..Len(out') : out'[j] = IF j <= i - 1 THEN before[j] ELSE behind[j - (i - 1)]
  <2>1. /\ before \o behind \in Seq(Write)
        /\ Len(before \o behind) = Len(before) + Len(behind)
        /\ \A j \in 1..Len(before) + Len(behind) : (before \o behind)[j] =
             IF j <= Len(before) THEN before[j] ELSE behind[j - Len(before)]
    BY <1>2, <1>3, ConcatProperties
  <2>2. Len(before) + Len(behind) = Len(out) - 1
    BY <1>1, <1>2, <1>3
  <2>3. QED
    BY <1>2, <1>4, <2>1, <2>2
<1>6. \A j \in 1..Len(out') : Sound(encoder, out'[j])
  <2> TAKE j \in 1..Len(out')
  <2>1. CASE j <= i - 1
    BY <1>1, <1>2, <1>5, <2>1
  <2>2. CASE j > i - 1
    <3>1. j - (i - 1) \in 1..Len(behind) /\ i + (j - (i - 1)) \in 1..Len(out)
      BY <1>1, <1>3, <1>5, <2>2
    <3>2. out'[j] = behind[j - (i - 1)]
      BY <1>1, <1>5, <2>2
    <3>3. QED
      BY <1>1, <1>3, <3>1, <3>2
  <2>3. QED
    BY <1>1, <1>5, <2>1, <2>2
<1>7. QED
  BY <1>1, <1>5, <1>6 DEF OutInv

(* The last part of a write.                                                *)
LEMMA TakesLastStep ==
  ASSUME SendInv, NEW i \in DOMAIN out, KernelTakesLast(i), io.link = "up",
         SameLink, io'.writes = io.writes - 1
  PROVE  SendInv'
<1>1. /\ i \in 1..Len(out) /\ out[i] \in Write /\ Sound(encoder, out[i])
      /\ out[i].sent \in 0..1 /\ out[i].length = 2
      /\ Part(i) = [frame |-> FirstIn(encoder, out[i]), part |-> out[i].sent + 1]
      /\ Part(i) \in Pieces /\ WellEncoded(Part(i).frame)
  BY PartFacts
<1>2. /\ out[i].sent + 1 = out[i].length
      /\ wire' = Append(wire, Part(i)) /\ out' = Without(i)
      /\ UNCHANGED <<encoder, overlapped>>
  BY DEF KernelTakesLast
<1>3. OutInv(encoder, out)' /\ Len(out) \in Nat /\ Len(out') = Len(out) - 1
  BY <1>1, <1>2, WithoutFacts
<1>4. /\ wire' \in Seq(Pieces) /\ \A j \in 1..Len(wire') : WellEncoded(wire'[j].frame)
      /\ Len(wire) \in Nat /\ Len(wire') = Len(wire) + 1 /\ wire'[Len(wire')] = Part(i)
      /\ Orderly(wire) /\ Part(i).part = (Len(wire) % Parts) + 1
           /\ (Part(i).part > 1 => Part(i).frame = wire[Len(wire)].frame) => Orderly(wire')
  BY <1>1, <1>2, WireGrows
<1>5. WireInv'
  <2> SUFFICES ASSUME ~overlapped PROVE WireInv'
    BY <1>2 DEF WireInv
  <2>1. Len(out) <= 1 /\ out[i].sent = 1
    BY <1>1, <1>2 DEF SendInv, WireInv
  <2>2. i = 1 /\ Len(out) = 1 /\ Len(out') = 0
    BY <1>1, <1>3, <2>1
  <2>3. out # <<>>
    BY <2>2
  <2>4. Orderly(wire) /\ Len(wire) % Parts = 1 /\ wire[Len(wire)].frame = FirstIn(encoder, out[i])
    BY <2>1, <2>2, <2>3 DEF SendInv, WireInv
  <2>5. Part(i).part = 2 /\ Part(i).frame = FirstIn(encoder, out[i])
    BY <1>1, <2>1
  <2>6. Orderly(wire')
    BY <1>4, <2>4, <2>5
  <2>7. Len(wire') % Parts = 0
    BY <1>4, <2>4 DEF Parts
  <2>8. out' = <<>>
    <3>1. out' \in Seq(Write)
      BY <1>3 DEF OutInv
    <3>2. QED
      BY <2>2, <3>1, EmptySeq
  <2>9. io'.link # "connecting"
    BY DEF SameLink
  <2>10. QED
    BY <2>2, <2>6, <2>7, <2>8, <2>9 DEF WireInv
<1>6. io'.writes = Len(out')
  BY <1>3 DEF SendInv
<1>7. QED
  BY <1>2, <1>3, <1>4, <1>5, <1>6 DEF SendInv

(* A write that fails: the connection is not up, and nothing more is sent.  *)
LEMMA FailsStep ==
  ASSUME SendInv, out' = Tail(out), UNCHANGED <<encoder, wire, overlapped>>,
         io.link # "up", SameLink, io.writes > 0, io'.writes = io.writes - 1
  PROVE  SendInv'
<1>1. /\ out \in Seq(Write) /\ Len(out) \in Nat /\ Len(out) > 0
      /\ \A j \in 1..Len(out) : Sound(encoder, out[j])
  BY LenProperties DEF SendInv, OutInv
<1>2. out # <<>>
  BY <1>1
<1>3. /\ out' \in Seq(Write) /\ Len(out') = Len(out) - 1
      /\ \A j \in 1..Len(out') : out'[j] = out[j + 1]
  BY <1>1, <1>2, HeadTailProperties
<1>4. \A j \in 1..Len(out') : Sound(encoder, out'[j])
  <2> TAKE j \in 1..Len(out')
  <2>1. j + 1 \in 1..Len(out)
    BY <1>1, <1>3
  <2>2. QED
    BY <1>1, <1>3, <2>1
<1>5. OutInv(encoder, out)'
  BY <1>3, <1>4 DEF OutInv
<1>6. WireInv'
  <2> SUFFICES ASSUME ~overlapped PROVE WireInv'
    BY DEF WireInv
  <2>1. Orderly(wire) /\ Len(out) <= 1 /\ (io.link = "connecting" => wire = <<>>)
    BY DEF SendInv, WireInv
  <2>2. Len(out') = 0 /\ out' = <<>>
    BY <1>1, <1>3, <2>1, EmptySeq
  <2>3. wire = <<>> => Len(wire) % Parts = 0
    BY DEF Parts
  <2>4. io'.link # "up"
    BY DEF SameLink
  <2>5. QED
    BY <2>1, <2>2, <2>3, <2>4 DEF WireInv, SameLink
<1>7. io'.writes = Len(out')
  BY <1>3 DEF SendInv
<1>8. QED
  BY <1>3, <1>5, <1>6, <1>7 DEF SendInv

\* The session's part of its types, in the terms of this module.
LEMMA SessionTypes ==
  ASSUME SP!IInv
  PROVE  S!TypeOK /\ io \in S!IoType /\ (io.connecting <=> io.link = "connecting")
  BY DEF SP!IInv, SP!TypeOK, S!TypeOK, SP!IoType, S!IoType, SP!Links, S!Links,
         SP!Completions, S!Completions, SP!Timers, S!Timers,
         SP!RECONNECT_TIMER, S!RECONNECT_TIMER, SP!HEARTBEAT_TIMER, S!HEARTBEAT_TIMER

LEMMA NextInv == SP!IInv /\ SendInv /\ [Next]_vars => SendInv'
<1> SUFFICES ASSUME SP!IInv, SendInv, [Next]_vars PROVE SendInv'
  OBVIOUS
<1>1. io \in S!IoType /\ (io.connecting <=> io.link = "connecting")
  BY SessionTypes
<1>2. "logon" \in MessageKinds /\ "heartbeat" \in MessageKinds
  BY DEF MessageKinds
<1>3. CASE HandleConnect
  BY <1>1, <1>2, <1>3, SessionSteps, SendStep DEF HandleConnect
<1>4. CASE NoDelayFails
  BY <1>1, <1>4, SessionSteps, ClosedStep DEF NoDelayFails
<1>5. CASE Heartbeat
  <2>1. CASE S!Heartbeat(TRUE) /\ Send("heartbeat")
    BY <1>1, <1>2, <2>1, SessionSteps, SendStep
  <2>2. CASE S!Heartbeat(FALSE) /\ UNCHANGED sendVars
    BY <1>1, <2>2, SessionSteps, QuietStep
  <2>3. QED
    BY <1>5, <2>1, <2>2 DEF Heartbeat
<1>6. CASE Reconnect
  BY <1>1, <1>6, SessionSteps, ClosedStep DEF Reconnect
<1>7. CASE ReconnectUnresolved
  BY <1>1, <1>7, SessionSteps, UnresolvedStep DEF ReconnectUnresolved
<1>8. CASE OtherHandler
  <2>1. UNCHANGED sendVars
    BY <1>8 DEF OtherHandler
  <2>2. QED
    BY <1>1, <1>8, <2>1, OtherSteps, QuietStep
<1>9. ASSUME NEW i \in DOMAIN out, KernelTakes(i) PROVE SendInv'
  BY <1>9, TakesStep
<1>10. ASSUME NEW i \in DOMAIN out, KernelTakesLast(i) PROVE SendInv'
  <2>1. S!WriteSucceeds
    BY <1>10 DEF KernelTakesLast, S!Event
  <2>2. QED
    BY <1>1, <1>10, <2>1, OtherSteps, TakesLastStep
<1>11. CASE WriteFails
  <2>1. S!WriteFails /\ out' = Tail(out) /\ UNCHANGED <<encoder, wire, overlapped>>
    BY <1>11 DEF WriteFails, S!Event
  <2>2. QED
    BY <1>1, <2>1, OtherSteps, FailsStep
<1>12. CASE OtherEvent
  <2>1. UNCHANGED sendVars
    BY <1>12 DEF OtherEvent
  <2>2. QED
    BY <1>1, <1>12, <2>1, OtherSteps, QuietStep
<1>13. CASE UNCHANGED vars
  <2>1. UNCHANGED sendVars /\ UNCHANGED io
    BY <1>13 DEF vars, sessionVars
  <2>2. SameLink /\ io'.writes = io.writes
    BY <2>1 DEF SameLink
  <2>3. QED
    BY <2>1, <2>2, QuietStep
<1>14. QED
  BY <1>3, <1>4, <1>5, <1>6, <1>7, <1>8, <1>9, <1>10, <1>11, <1>12, <1>13 DEF Next

LEMMA SpecInv == Spec => [](SP!IInv /\ SendInv)
BY InitInv, NextInv, SessionHolds, PTL DEF Spec

-----------------------------------------------------------------------------
(* What the server gets first.                                              *)

\* On a connection without overlapping writes the buffer of the write holds
\* what was flushed.  Undisturbed, nothing is sent before the logon is encoded,
\* by handleConnect; and nothing else is a logon.
LogonInv ==
  ~overlapped =>
    /\ out # <<>> => FirstIn(encoder, out[1]) = out[1].bytes[1]
    /\ ~disturbed =>
         /\ \A i \in 1..Len(wire) : wire[i].frame.message = "logon" <=> i <= Parts
         /\ SP!ToConnect(io) => wire = <<>> /\ out = <<>>
         /\ io.link = "up" /\ ~SP!ToConnect(io) =>
              IF out = <<>> THEN Len(wire) >= Parts
              ELSE out[1].bytes[1].message = "logon" <=> Len(wire) < Parts

\* The session neither starts a connection nor gets to know that one is made.
GoesOn ==
  ~disturbed' =>
    /\ ~disturbed
    /\ SP!ToConnect(io') => SP!ToConnect(io)
    /\ io'.link = "up" /\ ~SP!ToConnect(io') => io.link = "up" /\ ~SP!ToConnect(io)

LEMMA SteadyGoesOn ==
  ASSUME SP!IInv, SP!Undisturbed, SP!Steady, SameLink \/ NoNewLink
  PROVE  GoesOn
<1> SUFFICES ASSUME ~disturbed' PROVE GoesOn
  BY DEF GoesOn
<1>1. SP!TypeOK /\ (io.connecting <=> io.link = "connecting")
  BY DEF SP!IInv, SP!TypeOK
<1>2. /\ ~disturbed
      /\ SP!ToConnect(io') => SP!ToConnect(io)
      /\ io'.link = "up" /\ SP!ToConnect(io) => SP!ToConnect(io')
  BY <1>1, SP!ConnectStays, SessionAssumptions
<1>3. io'.link = "up" => io.link \in {"up", "connecting"}
  BY DEF SameLink, NoNewLink
<1>4. io.link = "connecting" => SP!ToConnect(io)
  BY <1>1 DEF SP!ToConnect
<1>5. QED
  BY <1>2, <1>3, <1>4 DEF GoesOn

LEMMA StepsAreSteady ==
  /\ OtherHandler => SP!Steady
  /\ OtherEvent => SP!Steady
  /\ S!Event(S!WriteSucceeds) => SP!Steady
  /\ S!Event(S!WriteFails) => SP!Steady
  /\ S!ReconnectUnresolved => SP!Steady
  /\ \A sends \in BOOLEAN : S!Heartbeat(sends) => SP!Steady
<1>2. OtherHandler => SP!Steady
  BY SameSteps DEF OtherHandler, SP!Steady, SP!TakesOne
<1>3. /\ OtherEvent => S!Environment /\ UNCHANGED <<frames, S!history>>
      /\ S!Event(S!WriteSucceeds) => S!Environment /\ UNCHANGED <<frames, S!history>>
      /\ S!Event(S!WriteFails) => S!Environment /\ UNCHANGED <<frames, S!history>>
  BY DEF OtherEvent, S!Event, S!Environment
<1>4. S!Environment /\ UNCHANGED <<frames, S!history>> => SP!Steady
  BY SameSteps DEF SP!Steady, S!history, SP!history
<1>5. S!ReconnectUnresolved => SP!Steady
  BY SameSteps DEF SP!Steady, SP!TakesOne
<1>6. \A sends \in BOOLEAN : S!Heartbeat(sends) => SP!Steady
  BY SameSteps DEF SP!Steady, SP!TakesOne
<1>7. QED
  BY <1>2, <1>3, <1>4, <1>5, <1>6

LEMMA LogonInit == Init => LogonInv
<1> SUFFICES ASSUME Init PROVE LogonInv
  OBVIOUS
<1>1. out = <<>> /\ wire = <<>> /\ Len(wire) = 0
  BY DEF Init
<1>2. io.link # "up"
  BY DEF Init, S!Init, S!AsyncConnect, S!SetTimer, S!CancelTimer, S!Queued, S!Idle
<1>3. QED
  BY <1>1, <1>2 DEF LogonInv

(* The session goes on and the writes are the same, but for what is counted *)
(* of the messages after them.                                              *)
LEMMA QuietLogon ==
  ASSUME LogonInv, GoesOn, UNCHANGED <<wire, overlapped>>,
         out = <<>> <=> out' = <<>>,
         out # <<>> => /\ out'[1].bytes = out[1].bytes
                       /\ FirstIn(encoder', out'[1]) = FirstIn(encoder, out[1])
  PROVE  LogonInv'
<1>1. CASE out = <<>>
  BY <1>1 DEF LogonInv, GoesOn
<1>2. CASE out # <<>>
  BY <1>2 DEF LogonInv, GoesOn
<1>3. QED
  BY <1>1, <1>2

\* A message is handed to the socket, with nothing outstanding before it.
LEMMA SendLogon ==
  ASSUME SendInv, NEW message \in MessageKinds, Send(message), ~overlapped'
  PROVE  /\ ~overlapped /\ out = <<>> /\ wire' = wire /\ out' # <<>>
         /\ out'[1].bytes[1] = Good(message) /\ FirstIn(encoder', out'[1]) = Good(message)
<1>1. /\ OutInv(encoder, out)' /\ Len(out') = Len(out) + 1
      /\ overlapped' = (overlapped \/ out # <<>>)
      /\ UNCHANGED wire
      /\ out'[Len(out) + 1].bytes[1] = Good(message)
      /\ FirstIn(encoder', out'[Len(out) + 1]) = Good(message)
  BY SentWrites
<1>2. ~overlapped /\ out = <<>> /\ Len(out) = 0
  BY <1>1
<1>3. Len(out) + 1 = 1 /\ Len(out') = 1
  BY <1>1, <1>2
<1>4. out' # <<>>
  BY <1>3
<1>5. QED
  BY <1>1, <1>2, <1>3, <1>4

LEMMA ConnectedStep ==
  ASSUME SP!IInv, SP!Undisturbed, SendInv, LogonInv, HandleConnect
  PROVE  LogonInv'
<1> SUFFICES ASSUME ~overlapped' PROVE LogonInv'
  BY DEF LogonInv
<1>1. SP!HandleConnect /\ Send("logon") /\ SP!TypeOK
  BY SameSteps DEF HandleConnect, SP!IInv
<1>2. /\ ~overlapped /\ out = <<>> /\ wire' = wire /\ out' # <<>>
      /\ out'[1].bytes[1] = Good("logon") /\ FirstIn(encoder', out'[1]) = Good("logon")
  BY <1>1, SendLogon DEF MessageKinds
<1>3. ASSUME ~disturbed' PROVE ~disturbed /\ SP!ToConnect(io) /\ ~SP!ToConnect(io')
  BY <1>1, <1>3, SP!ConnectEnds, SessionAssumptions
<1>4. ASSUME ~disturbed' PROVE wire = <<>> /\ Len(wire) = 0
  BY <1>2, <1>3, <1>4 DEF LogonInv
<1>5. Good("logon").message = "logon"
  BY DEF Good
<1>6. QED
  BY <1>2, <1>3, <1>4, <1>5 DEF LogonInv, Parts

LEMMA HeartbeatStep ==
  ASSUME SP!IInv, SP!Undisturbed, SendInv, LogonInv, S!Heartbeat(TRUE), Send("heartbeat"), SameLink
  PROVE  LogonInv'
<1> SUFFICES ASSUME ~overlapped' PROVE LogonInv'
  BY DEF LogonInv
<1>1. SP!Heartbeat(TRUE) /\ SP!TypeOK /\ SP!Steady
  BY SameSteps, StepsAreSteady DEF SP!IInv
<1>2. /\ ~overlapped /\ out = <<>> /\ wire' = wire /\ out' # <<>>
      /\ out'[1].bytes[1] = Good("heartbeat") /\ FirstIn(encoder', out'[1]) = Good("heartbeat")
  BY SendLogon DEF MessageKinds
<1>3. GoesOn
  BY <1>1, SteadyGoesOn
<1>4. ASSUME ~disturbed' PROVE ~disturbed /\ ~SP!ToConnect(io) /\ ~SP!ToConnect(io')
  <2>1. ~SP!ToConnect(io)
    BY <1>1, <1>4, SP!HeartbeatsFollow, SessionAssumptions
  <2>2. QED
    BY <1>3, <1>4, <2>1 DEF GoesOn
<1>5. Good("heartbeat").message # "logon"
  BY DEF Good
<1>6. Len(wire) \in Nat
  BY LenProperties DEF SendInv
<1>7. ASSUME ~disturbed', io'.link = "up" PROVE Len(wire) >= Parts
  BY <1>2, <1>4, <1>7 DEF LogonInv, SameLink
<1>8. ASSUME ~disturbed', io'.link = "up" PROVE ~(Len(wire) < Parts)
  BY <1>6, <1>7, <1>8 DEF Parts
<1>9. QED
  BY <1>2, <1>4, <1>5, <1>8 DEF LogonInv

LEMMA NewConnectionStep ==
  ASSUME SP!IInv, SendInv, LogonInv, Reconnect \/ NoDelayFails,
         io'.link # "up"
  PROVE  LogonInv'
<1>1. out' = <<>>
  BY DEF Reconnect, NoDelayFails
<1>2. CASE Reconnect
  <2>1. wire' = <<>> /\ Len(wire') = 0
    BY <1>2 DEF Reconnect
  <2>2. QED
    BY <1>1, <2>1 DEF LogonInv
<1>3. CASE NoDelayFails
  <2>1. UNCHANGED <<wire, overlapped, disturbed>>
    BY <1>3 DEF NoDelayFails, S!NoDelayFails, S!history
  <2>2. io' = [S!Idle EXCEPT !.link = "null"]
    BY <1>3 DEF NoDelayFails, S!NoDelayFails
  <2>3. ~io'.connecting /\ io'.queue = <<>>
    BY <2>2 DEF S!Idle
  <2>4. ~SP!ToConnect(io')
    BY <2>3 DEF SP!ToConnect
  <2>5. QED
    BY <1>1, <2>1, <2>4 DEF LogonInv
<1>4. QED
  BY <1>2, <1>3

\* A piece is sent while no write is behind another one.
LEMMA PieceFacts ==
  ASSUME SendInv, LogonInv, ~overlapped, NEW i \in DOMAIN out, io.link = "up"
  PROVE  /\ i = 1 /\ out # <<>> /\ Len(out) = 1
         /\ Part(i).frame = out[1].bytes[1]
         /\ Len(wire) \in Nat /\ Len(wire) % 2 = out[1].sent /\ out[1].sent \in 0..1
         /\ ~disturbed => ~SP!ToConnect(io)
                          /\ (Part(i).frame.message = "logon" <=> Len(wire) < 2)
<1>1. /\ i \in 1..Len(out) /\ out[i].sent \in 0..1
      /\ Part(i) = [frame |-> FirstIn(encoder, out[i]), part |-> out[i].sent + 1]
  BY PartFacts
<1>2. Len(out) <= 1 /\ Len(out) \in Nat /\ Len(wire) \in Nat
  BY LenProperties DEF SendInv, OutInv, WireInv
<1>3. i = 1 /\ Len(out) = 1
  <2>1. \A n \in Nat : n <= 1 /\ i \in 1..n => i = 1 /\ n = 1
    OBVIOUS
  <2>2. QED
    BY <1>1, <1>2, <2>1
<1>4. out # <<>>
  BY <1>3
<1>5. Part(i).frame = out[1].bytes[1]
  BY <1>1, <1>3, <1>4 DEF LogonInv
<1>6. Len(wire) % 2 = out[1].sent
  BY <1>4 DEF SendInv, WireInv, Parts
<1>7. ASSUME ~disturbed PROVE ~SP!ToConnect(io) /\ (Part(i).frame.message = "logon" <=> Len(wire) < 2)
  <2>1. ~SP!ToConnect(io)
    BY <1>4, <1>7 DEF LogonInv
  <2>2. QED
    BY <1>4, <1>5, <1>7, <2>1 DEF LogonInv, Parts
<1>8. QED
  BY <1>1, <1>2, <1>3, <1>4, <1>5, <1>6, <1>7

\* The piece is on the wire now.
LEMMA PieceSent ==
  ASSUME SendInv, NEW piece, wire' = Append(wire, piece),
         \A i \in 1..Len(wire) : wire[i].frame.message = "logon" <=> i <= 2,
         piece.frame.message = "logon" <=> Len(wire) < 2
  PROVE  \A i \in 1..Len(wire') : wire'[i].frame.message = "logon" <=> i <= 2
<1>1. /\ Len(wire) \in Nat /\ Len(wire') = Len(wire) + 1 /\ wire'[Len(wire) + 1] = piece
      /\ \A i \in 1..Len(wire) : wire'[i] = wire[i]
  BY AppendProperties, LenProperties DEF SendInv
<1> SUFFICES ASSUME NEW i \in 1..Len(wire')
             PROVE  wire'[i].frame.message = "logon" <=> i <= 2
  OBVIOUS
<1>2. CASE i \in 1..Len(wire)
  BY <1>1, <1>2
<1>3. CASE i = Len(wire) + 1
  BY <1>1, <1>3
<1>4. QED
  BY <1>1, <1>2, <1>3

LEMMA TakesLogonStep ==
  ASSUME SendInv, LogonInv, NEW i \in DOMAIN out, KernelTakes(i)
  PROVE  LogonInv'
<1>1. /\ io.link = "up" /\ out[i].sent + 1 < out[i].length
      /\ wire' = Append(wire, Part(i))
      /\ out' = [out EXCEPT ![i].sent = out[i].sent + 1]
      /\ UNCHANGED <<io, disturbed, encoder, overlapped>>
  BY DEF KernelTakes, MayTake, sessionVars
<1> SUFFICES ASSUME ~overlapped PROVE LogonInv'
  BY <1>1 DEF LogonInv
<1>2. /\ i = 1 /\ out # <<>> /\ Len(out) = 1
      /\ Part(i).frame = out[1].bytes[1]
      /\ Len(wire) \in Nat /\ Len(wire) % 2 = out[1].sent /\ out[1].sent \in 0..1
      /\ ~disturbed => ~SP!ToConnect(io)
                       /\ (Part(i).frame.message = "logon" <=> Len(wire) < 2)
  BY <1>1, PieceFacts
<1>3. out[1] \in Write /\ out[1].length = 2 /\ FirstIn(encoder, out[1]) = out[1].bytes[1]
  BY <1>2, PartFacts DEF LogonInv
<1>4. /\ out' # <<>> /\ out'[1].bytes = out[1].bytes
      /\ FirstIn(encoder', out'[1]) = FirstIn(encoder, out[1])
  <2>1. out \in Seq(Write) /\ 1 \in DOMAIN out
    BY <1>2 DEF SendInv, OutInv
  <2>2. out'[1] = [out[1] EXCEPT !.sent = out[1].sent + 1] /\ DOMAIN out' = DOMAIN out
    BY <1>1, <1>2, <2>1
  <2>3. out'[1].bytes = out[1].bytes /\ out'[1].buffer = out[1].buffer
    BY <1>3, <2>2 DEF Write
  <2>4. out' # <<>>
    BY <2>1, <2>2
  <2>5. QED
    BY <1>1, <2>3, <2>4 DEF FirstIn
<1>5. Len(wire') = Len(wire) + 1
  BY <1>1, AppendProperties DEF SendInv
<1>6. ASSUME ~disturbed
      PROVE  /\ \A j \in 1..Len(wire') : wire'[j].frame.message = "logon" <=> j <= 2
             /\ out'[1].bytes[1].message = "logon" <=> Len(wire') < 2
  <2>1. \A j \in 1..Len(wire) : wire[j].frame.message = "logon" <=> j <= 2
    BY <1>6 DEF LogonInv, Parts
  <2>2. \A j \in 1..Len(wire') : wire'[j].frame.message = "logon" <=> j <= 2
    BY <1>1, <1>2, <1>6, <2>1, PieceSent
  <2>3. Len(wire) % 2 = 0
    BY <1>1, <1>2, <1>3
  <2>4. Len(wire) < 2 <=> Len(wire') < 2
    BY <1>2, <1>5, <2>3
  <2>5. QED
    BY <1>2, <1>4, <1>6, <2>2, <2>4
<1>7. QED
  BY <1>1, <1>2, <1>3, <1>4, <1>6 DEF LogonInv, Parts

LEMMA TakesLastLogonStep ==
  ASSUME SendInv, LogonInv, NEW i \in DOMAIN out, KernelTakesLast(i), GoesOn
  PROVE  LogonInv'
<1>1. /\ io.link = "up" /\ out[i].sent + 1 = out[i].length
      /\ wire' = Append(wire, Part(i)) /\ out' = Without(i)
      /\ UNCHANGED <<encoder, overlapped>>
  BY DEF KernelTakesLast, MayTake
<1> SUFFICES ASSUME ~overlapped PROVE LogonInv'
  BY <1>1 DEF LogonInv
<1>2. /\ i = 1 /\ out # <<>> /\ Len(out) = 1
      /\ Part(i).frame = out[1].bytes[1]
      /\ Len(wire) \in Nat /\ Len(wire) % 2 = out[1].sent /\ out[1].sent \in 0..1
      /\ ~disturbed => ~SP!ToConnect(io)
                       /\ (Part(i).frame.message = "logon" <=> Len(wire) < 2)
  BY <1>1, PieceFacts
<1>3. out[1].sent = 1
  BY <1>1, <1>2, PartFacts
<1>4. out' = <<>>
  <2>1. OutInv(encoder, out)' /\ Len(out') = Len(out) - 1
    BY <1>1, <1>2, WithoutFacts
  <2>2. out' \in Seq(Write) /\ Len(out') = 0
    BY <1>2, <2>1 DEF OutInv
  <2>3. QED
    BY <2>2, EmptySeq
<1>5. Len(wire') = Len(wire) + 1
  BY <1>1, AppendProperties DEF SendInv
<1>6. Len(wire') >= 2
  BY <1>2, <1>3, <1>5
<1>7. ASSUME ~disturbed'
      PROVE  /\ \A j \in 1..Len(wire') : wire'[j].frame.message = "logon" <=> j <= 2
             /\ ~SP!ToConnect(io')
  <2>1. ~disturbed /\ (SP!ToConnect(io') => SP!ToConnect(io))
    BY <1>7 DEF GoesOn
  <2>2. \A j \in 1..Len(wire) : wire[j].frame.message = "logon" <=> j <= 2
    BY <2>1 DEF LogonInv, Parts
  <2>3. \A j \in 1..Len(wire') : wire'[j].frame.message = "logon" <=> j <= 2
    BY <1>1, <1>2, <2>1, <2>2, PieceSent
  <2>4. QED
    BY <1>2, <2>1, <2>3
<1>8. QED
  BY <1>1, <1>4, <1>6, <1>7 DEF LogonInv, Parts

LEMMA FailsLogonStep ==
  ASSUME SendInv, LogonInv, out' = Tail(out), UNCHANGED <<wire, overlapped>>,
         io.writes > 0, io'.link # "up", GoesOn
  PROVE  LogonInv'
<1> SUFFICES ASSUME ~overlapped PROVE LogonInv'
  BY DEF LogonInv
<1>1. out \in Seq(Write) /\ Len(out) = 1
  <2>1. out \in Seq(Write) /\ Len(out) \in Nat /\ Len(out) <= 1 /\ Len(out) > 0
    BY LenProperties DEF SendInv, OutInv, WireInv
  <2>2. \A n \in Nat : n <= 1 /\ n > 0 => n = 1
    OBVIOUS
  <2>3. QED
    BY <2>1, <2>2
<1>2. out' = <<>>
  <2>1. out # <<>>
    BY <1>1
  <2>2. out' \in Seq(Write) /\ Len(out') = 0
    BY <1>1, <2>1, HeadTailProperties
  <2>3. QED
    BY <2>2, EmptySeq
<1>3. QED
  BY <1>2 DEF LogonInv, GoesOn

LEMMA LogonNext ==
  SP!IInv /\ SP!Undisturbed /\ SendInv /\ LogonInv /\ [Next]_vars => LogonInv'
<1> SUFFICES ASSUME SP!IInv, SP!Undisturbed, SendInv, LogonInv, [Next]_vars PROVE LogonInv'
  OBVIOUS
<1>1. io \in S!IoType /\ (io.connecting <=> io.link = "connecting")
  BY SessionTypes
<1>q. ASSUME UNCHANGED sendVars, GoesOn PROVE LogonInv'
  BY <1>q, QuietLogon DEF sendVars
<1>2. CASE HandleConnect
  BY <1>2, ConnectedStep
<1>3. CASE NoDelayFails \/ Reconnect
  <2>1. io'.link # "up"
    BY <1>1, <1>3, SessionSteps DEF NoDelayFails, Reconnect
  <2>2. QED
    BY <1>3, <2>1, NewConnectionStep
<1>4. CASE Heartbeat
  <2>1. CASE S!Heartbeat(TRUE) /\ Send("heartbeat")
    BY <1>1, <2>1, SessionSteps, HeartbeatStep
  <2>2. CASE S!Heartbeat(FALSE) /\ UNCHANGED sendVars
    <3>1. SP!Steady
      BY <2>2, StepsAreSteady
    <3>2. SameLink
      BY <1>1, <2>2, SessionSteps
    <3>3. QED
      BY <1>q, <2>2, <3>1, <3>2, SteadyGoesOn
  <2>3. QED
    BY <1>4, <2>1, <2>2 DEF Heartbeat
<1>5. CASE ReconnectUnresolved
  <2>1. /\ S!ReconnectUnresolved /\ encoder' = Reset(encoder) /\ UNCHANGED <<wire, overlapped>>
        /\ out' = [i \in DOMAIN out |-> [out[i] EXCEPT !.later = 2]]
    BY <1>5 DEF ReconnectUnresolved
  <2>2. GoesOn
    BY <1>1, <2>1, SessionSteps, StepsAreSteady, SteadyGoesOn
  <2>3. encoder'.mem = encoder.mem
    BY <2>1, ResetFacts DEF SendInv
  <2>4. DOMAIN out' = DOMAIN out /\ out \in Seq(Write)
    BY <2>1 DEF SendInv, OutInv
  <2>5. out = <<>> <=> out' = <<>>
    BY <2>1, <2>4
  <2>6. ASSUME out # <<>>
        PROVE  /\ out'[1].bytes = out[1].bytes
               /\ FirstIn(encoder', out'[1]) = FirstIn(encoder, out[1])
    <3>1. 1 \in DOMAIN out
      BY <2>4, <2>6, EmptySeq, LenProperties
    <3>2. out[1] \in Write /\ out'[1] = [out[1] EXCEPT !.later = 2]
      BY <2>1, <2>4, <3>1
    <3>3. out'[1].bytes = out[1].bytes /\ out'[1].buffer = out[1].buffer
      BY <3>2 DEF Write
    <3>4. QED
      BY <2>3, <3>3 DEF FirstIn
  <2>7. QED
    BY <2>1, <2>2, <2>5, <2>6, QuietLogon
<1>6. CASE OtherHandler
  <2>1. UNCHANGED sendVars
    BY <1>6 DEF OtherHandler
  <2>2. QED
    BY <1>1, <1>6, <1>q, <2>1, OtherSteps, StepsAreSteady, SteadyGoesOn
<1>7. ASSUME NEW i \in DOMAIN out, KernelTakes(i) PROVE LogonInv'
  BY <1>7, TakesLogonStep
<1>8. ASSUME NEW i \in DOMAIN out, KernelTakesLast(i) PROVE LogonInv'
  <2>1. S!Event(S!WriteSucceeds) /\ S!WriteSucceeds
    BY <1>8 DEF KernelTakesLast, S!Event
  <2>2. GoesOn
    BY <1>1, <2>1, OtherSteps, StepsAreSteady, SteadyGoesOn
  <2>3. QED
    BY <1>8, <2>2, TakesLastLogonStep
<1>9. CASE WriteFails
  <2>1. /\ S!Event(S!WriteFails) /\ S!WriteFails /\ out' = Tail(out)
        /\ UNCHANGED <<wire, overlapped>>
    BY <1>9 DEF WriteFails, S!Event
  <2>2. GoesOn
    BY <1>1, <2>1, OtherSteps, StepsAreSteady, SteadyGoesOn
  <2>3. io.writes > 0 /\ io'.link # "up"
    BY <1>1, <2>1, OtherSteps DEF SameLink
  <2>4. QED
    BY <2>1, <2>2, <2>3, FailsLogonStep
<1>10. CASE OtherEvent
  <2>1. UNCHANGED sendVars
    BY <1>10 DEF OtherEvent
  <2>2. QED
    BY <1>1, <1>10, <1>q, <2>1, OtherSteps, StepsAreSteady, SteadyGoesOn
<1>11. CASE UNCHANGED vars
  <2>1. UNCHANGED sendVars /\ UNCHANGED <<io, disturbed>>
    BY <1>11 DEF vars, sessionVars
  <2>2. GoesOn
    BY <2>1 DEF GoesOn
  <2>3. QED
    BY <1>q, <2>1, <2>2
<1>12. QED
  BY <1>2, <1>3, <1>4, <1>5, <1>6, <1>7, <1>8, <1>9, <1>10, <1>11 DEF Next

LEMMA SpecLogon == Spec => [](SendInv /\ LogonInv)
<1>1. Init => SendInv /\ LogonInv
  BY InitInv, LogonInit
<1>2. SP!IInv /\ SP!Undisturbed /\ SendInv /\ LogonInv /\ [Next]_vars => (SendInv /\ LogonInv)'
  BY NextInv, LogonNext
<1>3. QED
  BY <1>1, <1>2, SessionHolds, PTL DEF Spec

-----------------------------------------------------------------------------
(* For every bound: the variables have their types, and the writes that are *)
(* listed here are the ones the socket counts (szBinary_encoder.hpp:29-129, *)
(* socket_t.cpp:193-202).                                                   *)
THEOREM TypeCorrect == Spec => []TypeOK
<1>1. ASSUME SP!IInv, SendInv PROVE TypeOK
  <2>1. \A i \in DOMAIN wire :
          wire[i].frame \in Frames(MessageKinds) /\ wire[i].part \in 1..Parts
    <3>1. wire \in Seq(Pieces)
      BY <1>1 DEF SendInv
    <3>2. \A i \in DOMAIN wire : wire[i] \in Pieces
      BY <3>1
    <3>3. QED
      BY <3>2 DEF Pieces
  <2>2. QED
    BY <1>1, <2>1, SessionTypes DEF TypeOK, SendInv, EncInv, OutInv
<1>2. QED
  BY <1>1, SpecInv, PTL

(* For every bound: a buffer the socket sends from is not touched before    *)
(* the second message after it (szBinary_encoder.hpp:122-129).              *)
THEOREM BuffersSuffice == Spec => []OutstandingIsIntact
<1>1. ASSUME SendInv PROVE OutstandingIsIntact
  <2> SUFFICES ASSUME NEW i \in DOMAIN out, out[i].later < 2
               PROVE  SubSeq(encoder.mem[out[i].buffer], 1, Len(out[i].bytes)) = out[i].bytes
    BY DEF OutstandingIsIntact
  <2>1. i \in 1..Len(out) /\ out[i] \in Write /\ Sound(encoder, out[i])
    BY <1>1, PartFacts
  <2>2. /\ out[i].bytes \in Seq(Frames(MessageKinds)) /\ Len(out[i].bytes) = 1
        /\ encoder.mem[out[i].buffer][1] = out[i].bytes[1]
    BY <2>1 DEF Sound, FirstIn, Write
  <2>3. encoder.mem[out[i].buffer] \in Seq(Frames(MessageKinds)) /\ encoder.mem[out[i].buffer] # <<>>
    BY <1>1, <2>1 DEF SendInv, EncInv, EncoderType, Sound, Write
  <2>4. 1 \in 1..Len(encoder.mem[out[i].buffer])
    BY <2>3, EmptySeq, LenProperties
  <2>5. QED
    BY <2>2, <2>3, <2>4
<1>2. QED
  BY <1>1, SpecInv, PTL

(* For every bound: on a connection where no write was started behind       *)
(* another one the peer gets whole and well encoded messages                *)
(* (szBinary_encoder.hpp:36-121, socket_t.cpp:193-202).                     *)
THEOREM PeerGetsWholeMessages == Spec => []WireIsWhole
<1>1. ASSUME SendInv PROVE WireIsWhole
  <2>1. DOMAIN wire = 1..Len(wire)
    BY <1>1 DEF SendInv
  <2>2. QED
    BY <1>1, <2>1 DEF SendInv, WireInv, Orderly, WireIsWhole
<1>2. QED
  BY <1>1, SpecInv, PTL

(* For every bound: the logon that handleConnect sends is the first message *)
(* on a connection and the only logon, while writes do not overlap and no   *)
(* left-over of an earlier connection was handled                           *)
(* (szBinary_input_service.cpp:82-98, 133-170).                             *)
THEOREM LogonIsFirst == Spec => []LogonComesFirst
<1>1. ASSUME SendInv, LogonInv PROVE LogonComesFirst
  <2>1. DOMAIN wire = 1..Len(wire)
    BY <1>1 DEF SendInv
  <2>2. QED
    BY <1>1, <2>1 DEF LogonInv, LogonComesFirst
<1>2. QED
  BY <1>1, SpecLogon, PTL
=============================================================================
