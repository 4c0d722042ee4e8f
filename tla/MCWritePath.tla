----------------------------- MODULE MCWritePath -----------------------------
(* A view of WritePath for TLC, of what a step or an invariant still reads: *)
(* not the bytes in a buffer that no write points to, which are overwritten *)
(* first; not what was sent on a connection that is lost, and cannot be     *)
(* sent more; not whether a logout was handled, which only a property of    *)
(* InputSession asks.                                                       *)
EXTENDS WritePath

InUse(b) == \E i \in DOMAIN out : out[i].buffer = b

View ==
  <<io, frames, loggedOn, disturbed,
    encoder.wait, [b \in Buffers |-> IF InUse(b) THEN encoder.mem[b] ELSE <<>>],
    out, IF io.link = "up" THEN <<wire, overlapped>> ELSE <<>> >>
=============================================================================
