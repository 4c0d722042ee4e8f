------------------------------ MODULE Encoder ------------------------------
(***************************************************************************)
(* szBinary_encoder_t (src/src/szBinary_encoder.hpp): two buffers, one     *)
(* that messages are appended to (wait_buffer_ptr_) and one that was       *)
(* handed to the socket (write_buffer_ptr_), which flush swaps.  The calls *)
(* are operators from a state of the encoder to the next.                  *)
(*                                                                         *)
(* A buffer is what its memory holds and its size: clear sets the size to  *)
(* zero and leaves the bytes, which the next push_back overwrites.  A      *)
(* message in a buffer is a frame: its kind, the byte order of the numbers *)
(* in its header, and whether the checksum in its tail is the one of its   *)
(* bytes.                                                                  *)
(***************************************************************************)
EXTENDS Integers, Sequences

Orders == {"host", "network"}
Frames(messages) == [message : messages, order : Orders, sum : {"right", "wrong"}]

\* What the peer can read.
WellEncoded(frame) == frame.order = "network" /\ frame.sum = "right"

Buffers == {0, 1}
EncoderType(messages) ==
  [mem : [Buffers -> Seq(Frames(messages))], size : [Buffers -> Nat], wait : Buffers]

NewEncoder ==
  [mem |-> [b \in Buffers |-> <<>>], size |-> [b \in Buffers |-> 0], wait |-> 0]

\* What the wait buffer holds.
Waiting(enc) == SubSeq(enc.mem[enc.wait], 1, enc.size[enc.wait])

Swapped(order) == IF order = "host" THEN "network" ELSE "host"

\* Operations with a bug in them, for the properties of WritePath.
FlushWithoutClear(enc) == [enc EXCEPT !.wait = 1 - @]
FlushWithoutSwap(enc) == [enc EXCEPT !.size[enc.wait] = 0]
ResetWithoutClear(enc) == [enc EXCEPT !.wait = 0]

(* encode: the message is appended to the wait buffer; but the header that  *)
(* is converted, and the bytes that are summed, are those at the beginning  *)
(* of the buffer.                                                           *)
Encode(enc, message) ==
  LET held == Waiting(enc)
      raw == Append(held, [message |-> message, order |-> "host", sum |-> "wrong"])
      converted == [raw EXCEPT ![1].order = Swapped(@), ![1].sum = "wrong"]
      summed == [converted EXCEPT ![Len(raw)].sum = IF held = <<>> THEN "right" ELSE "wrong"]
      rest == SubSeq(enc.mem[enc.wait], Len(raw) + 1, Len(enc.mem[enc.wait]))
  IN  [enc EXCEPT !.mem[enc.wait] = summed \o rest, !.size[enc.wait] = Len(raw)]

(* flush returns the wait buffer, clears the other one and swaps the two.   *)
Flush(enc) == [enc EXCEPT !.size[1 - enc.wait] = 0, !.wait = 1 - @]

(* reset: both buffers are cleared, and the first one is the wait buffer.   *)
Reset(enc) == [enc EXCEPT !.size = [b \in Buffers |-> 0], !.wait = 0]
=============================================================================
