----------------------------- MODULE WritePath -----------------------------
(***************************************************************************)
(* What the session sends (src/src/szBinary_input_service.cpp): its        *)
(* handlers encode a logon or a heartbeat, flush the encoder and hand the  *)
(* buffer to async_write, which does not copy it.  While the kernel takes  *)
(* the bytes, part by part, the session goes on, and its next messages are *)
(* encoded into the same two buffers.                                      *)
(*                                                                         *)
(* The session and its socket are those of InputSession; here each of      *)
(* their steps also does what it does to the encoder and the writes.       *)
(***************************************************************************)
EXTENDS Encoder

CONSTANTS
  MaxQueue, MaxFrames, MaxWrites, NoDelayMayFail,         \* InputSession
  MaxSends              \* bound: for a heartbeat on a connection that is up, of the
                        \* parts sent and the writes outstanding before it

ASSUME WritePathAssumption ==
  /\ MaxQueue \in Nat /\ MaxFrames \in Nat /\ MaxWrites \in Nat \ {0}
  /\ NoDelayMayFail \in BOOLEAN
  /\ MaxSends \in Nat

VARIABLES
  io, frames, loggedOn, loggedOut, disturbed,             \* InputSession
  encoder,
  out,          \* the writes outstanding on the connection, oldest first
  wire,         \* history: what the peer was sent on this connection
  overlapped    \* history: a write was started behind another one on it

S == INSTANCE InputSession

sendVars == <<encoder, out, wire, overlapped>>
sessionVars == <<io, frames, loggedOn, loggedOut, disturbed>>
vars == <<sessionVars, sendVars>>

MessageKinds == {"logon", "heartbeat"}

\* A write: the buffer it points to, how much of it there is to send in parts
\* and was sent; and as history what it held when it was flushed, and how many
\* messages were encoded since (no more than two are counted).
Parts == 2
Write == [buffer : Buffers, length : Nat, sent : Nat, bytes : Seq(Frames(MessageKinds)),
          later : 0..2]

Touched(write) == [write EXCEPT !.later = IF @ < 2 THEN @ + 1 ELSE 2]

-----------------------------------------------------------------------------
(* With a bug in it: nothing is handed to the socket.                       *)
SendToNobody(message) ==
  /\ encoder' = Flush(Encode(encoder, message))
  /\ UNCHANGED <<out, wire, overlapped>>

(* sendLogon, sendHeartBeat: encode; and doWrite: flush, async_write.       *)
Send(message) ==
  LET encoded == Encode(encoder, message)
      write == [buffer |-> encoded.wait, length |-> Parts * Len(Waiting(encoded)),
                sent |-> 0, bytes |-> Waiting(encoded), later |-> 0]
  IN  /\ encoder' = Flush(encoded)
      /\ out' = Append([i \in DOMAIN out |-> Touched(out[i])], write)
      /\ overlapped' = (overlapped \/ out # <<>>)
      /\ UNCHANGED wire

-----------------------------------------------------------------------------
Init ==
  /\ S!Init
  /\ encoder = NewEncoder
  /\ out = <<>> /\ wire = <<>> /\ overlapped = FALSE

HandleConnect == S!HandleConnect /\ Send("logon")

NoDelayFails ==
  /\ S!NoDelayFails
  /\ out' = <<>>
  /\ UNCHANGED <<encoder, wire, overlapped>>

Heartbeat ==
  \/ /\ io.link = "up" => Len(wire) + Len(out) < MaxSends
     /\ S!Heartbeat(TRUE)
     /\ Send("heartbeat")
  \/ S!Heartbeat(FALSE) /\ UNCHANGED sendVars

(* The encoder is reset; then the old socket is closed under its writes.    *)
Reconnect ==
  /\ S!Reconnect
  /\ encoder' = Reset(encoder)
  /\ out' = <<>> /\ wire' = <<>> /\ overlapped' = FALSE

(* The encoder is reset although the old connection goes on.                *)
ReconnectUnresolved ==
  /\ S!ReconnectUnresolved
  /\ encoder' = Reset(encoder)
  /\ out' = [i \in DOMAIN out |-> [out[i] EXCEPT !.later = 2]]
  /\ UNCHANGED <<wire, overlapped>>

\* The handlers that send nothing.
OtherHandler ==
  /\ \/ S!Drop \/ S!HandleConnectError
     \/ S!HandleRead \/ S!DoRead \/ S!HandleReadError
     \/ \E message \in {"logon", "logout", "other"} : S!HandleMessage(message)
     \/ S!HandleWrite \/ S!HandleWriteError
  /\ UNCHANGED sendVars

\* The next part of the i-th write, as it is in the buffer now.  A write that
\* waits for the socket waits behind the ones before it.
Part(i) ==
  LET k == out[i].sent
  IN  [frame |-> encoder.mem[out[i].buffer][(k \div Parts) + 1], part |-> (k % Parts) + 1]

MayTake(i) == io.link = "up" /\ \A j \in 1..(i - 1) : out[j].sent > 0

Without(i) == SubSeq(out, 1, i - 1) \o SubSeq(out, i + 1, Len(out))

KernelTakes(i) ==
  /\ MayTake(i)
  /\ out[i].sent + 1 < out[i].length
  /\ wire' = Append(wire, Part(i))
  /\ out' = [out EXCEPT ![i].sent = @ + 1]
  /\ UNCHANGED <<sessionVars, encoder, overlapped>>

KernelTakesLast(i) ==
  /\ MayTake(i)
  /\ out[i].sent + 1 = out[i].length
  /\ S!Event(S!WriteSucceeds)
  /\ wire' = Append(wire, Part(i))
  /\ out' = Without(i)
  /\ UNCHANGED <<encoder, overlapped>>

WriteFails ==
  /\ S!Event(S!WriteFails)
  /\ out' = Tail(out)
  /\ UNCHANGED <<encoder, wire, overlapped>>

OtherEvent ==
  /\ S!Event(\/ S!ConnectSucceeds \/ S!ConnectFails \/ S!LinkBreaks
             \/ S!DataArrives \/ S!ReadFails
             \/ \E timer \in S!Timers : S!TimerExpires(timer))
  /\ UNCHANGED sendVars

Next ==
  \/ HandleConnect \/ NoDelayFails
  \/ Heartbeat
  \/ Reconnect \/ ReconnectUnresolved
  \/ OtherHandler
  \/ \E i \in DOMAIN out : KernelTakes(i) \/ KernelTakesLast(i)
  \/ WriteFails
  \/ OtherEvent

Spec == Init /\ [][Next]_vars
-----------------------------------------------------------------------------
(* The types; the session has as many writes outstanding as there are here. *)
TypeOK ==
  /\ S!TypeOK
  /\ encoder \in EncoderType(MessageKinds)
  /\ out \in Seq(Write)
  /\ \A i \in DOMAIN wire : wire[i].frame \in Frames(MessageKinds) /\ wire[i].part \in 1..Parts
  /\ overlapped \in BOOLEAN
  /\ io.writes = Len(out)

(* A buffer that the socket is sending is left alone until the second       *)
(* message after it is encoded, or the encoder is reset: two buffers are    *)
(* enough for one write outstanding, with one more message on its way       *)
(* (szBinary_encoder.hpp:122-129).                                          *)
OutstandingIsIntact ==
  \A i \in DOMAIN out :
    out[i].later < 2 =>
      SubSeq(encoder.mem[out[i].buffer], 1, Len(out[i].bytes)) = out[i].bytes

(* What the peer receives are whole, well encoded messages, one behind the  *)
(* other, on a connection where no write was started behind another one.    *)
WireIsWhole ==
  ~overlapped =>
    \A i \in DOMAIN wire :
      /\ wire[i].part = ((i - 1) % Parts) + 1
      /\ WellEncoded(wire[i].frame)
      /\ wire[i].part > 1 => wire[i].frame = wire[i - 1].frame

(* The first thing a server gets on a connection is the logon, and it gets  *)
(* it once, unless writes overlap or a left-over of an earlier connection   *)
(* comes in between, such as a heartbeat timer that had expired already.    *)
LogonComesFirst ==
  ~overlapped /\ ~disturbed =>
    \A i \in DOMAIN wire : wire[i].frame.message = "logon" <=> i <= Parts
=============================================================================
