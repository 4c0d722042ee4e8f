----------------------------- MODULE AsioSocket -----------------------------
(***************************************************************************)
(* socket_t (src/src/socket_t.cpp) on its io_service: one TCP socket that  *)
(* is connected again and again, two timers, and the queue of completions  *)
(* whose handlers the single thread of the io_service runs one by one.     *)
(*                                                                         *)
(* The program's calls are operators from a state of the socket to the     *)
(* next, since one handler makes several.  What Boost.Asio, the kernel and *)
(* the peer do between the handlers are the actions at the end; they are   *)
(* modelled from how socket_t uses them.  Asio reports every operation     *)
(* exactly once: with its result or, when the socket is closed or the      *)
(* timer cancelled under it, as aborted.  A completion that is queued      *)
(* already is not taken back.  Time is left out: an armed timer expires    *)
(* some time.                                                              *)
(***************************************************************************)
EXTENDS Integers, Sequences

CONSTANT MaxQueue       \* bound: no event comes in behind so many completions

ASSUME AsioAssumption == MaxQueue \in Nat

VARIABLE io             \* the socket, its timers and the queue

RECONNECT_TIMER == "RECONNECT_TIMER"
HEARTBEAT_TIMER == "HEARTBEAT_TIMER"
Timers == {RECONNECT_TIMER, HEARTBEAT_TIMER}

\* The completion of an operation.  `current': no connect was started since.
Completion(op, ec) == [op |-> op, ec |-> ec, current |-> TRUE]
Completions == [op : {"connect", "read", "write"} \cup Timers,
                ec : {"ok", "error", "aborted"}, current : BOOLEAN]

\* null: the socket object is gone, and with it the process that used it.
Links == {"closed", "connecting", "up", "down", "null"}

IoType == [link : Links, connecting : BOOLEAN, reads : Nat, writes : Nat,
           armed : SUBSET Timers, queue : Seq(Completions)]

Idle == [link |-> "closed", connecting |-> FALSE, reads |-> 0, writes |-> 0,
         armed |-> {}, queue |-> <<>>]

-----------------------------------------------------------------------------
Queued(s, completion) == [s EXCEPT !.queue = Append(@, completion)]

\* deadline_timer::cancel: a waiting handler is queued as aborted.
CancelTimer(s, timer) ==
  IF timer \in s.armed
  THEN Queued([s EXCEPT !.armed = @ \ {timer}], Completion(timer, "aborted"))
  ELSE s

\* An expiry of the timer that is queued stays queued.
SetTimer(s, timer) == [CancelTimer(s, timer) EXCEPT !.armed = @ \cup {timer}]

AsyncRead(s) == [s EXCEPT !.reads = @ + 1]
AsyncWrite(s) == [s EXCEPT !.writes = @ + 1]

\* What is queued when the socket is closed under its operations.
Aborts(s) ==
  [i \in 1..s.reads |-> Completion("read", "aborted")] \o
  [i \in 1..s.writes |-> Completion("write", "aborted")] \o
  IF s.connecting THEN <<Completion("connect", "aborted")>> ELSE <<>>

\* A connect with a bug in it: the old connection is not closed.
AsyncConnectOverOld(s) ==
  [s EXCEPT !.connecting = TRUE,
            !.queue = [i \in 1..Len(@) |-> [@[i] EXCEPT !.current = FALSE]]]

\* async_connect of Boost.Asio first closes the socket, then opens it anew.
AsyncConnect(s) ==
  [s EXCEPT
    !.link = "connecting", !.connecting = TRUE, !.reads = 0, !.writes = 0,
    !.queue = [i \in 1..Len(@) |-> [@[i] EXCEPT !.current = FALSE]] \o Aborts(s)]

\* The handler that is to run next, taken from the queue.
Completed(op, ec) ==
  io.queue # <<>> /\ Head(io.queue).op = op /\ Head(io.queue).ec = ec
Taken == [io EXCEPT !.queue = Tail(@)]

\* Bound: the thread is not held up for longer than that.
KeepsUp == Len(io.queue) < MaxQueue

Outstanding(op, ec) ==
  \E i \in 1..Len(io.queue) : io.queue[i].op = op /\ io.queue[i].ec = ec

-----------------------------------------------------------------------------
ConnectSucceeds ==
  /\ KeepsUp
  /\ io.connecting
  /\ io' = Queued([io EXCEPT !.connecting = FALSE, !.link = "up"],
                  Completion("connect", "ok"))

ConnectFails ==
  /\ KeepsUp
  /\ io.connecting
  /\ io' = Queued([io EXCEPT !.connecting = FALSE, !.link = "down"],
                  Completion("connect", "error"))

LinkBreaks ==
  /\ io.link = "up"
  /\ io' = [io EXCEPT !.link = "down"]

DataArrives ==
  /\ KeepsUp
  /\ io.link = "up"
  /\ io.reads > 0
  /\ io' = Queued([io EXCEPT !.reads = @ - 1], Completion("read", "ok"))

ReadFails ==
  /\ KeepsUp
  /\ io.link # "up"
  /\ io.reads > 0
  /\ io' = Queued([io EXCEPT !.reads = @ - 1], Completion("read", "error"))

WriteSucceeds ==
  /\ KeepsUp
  /\ io.link = "up"
  /\ io.writes > 0
  /\ io' = Queued([io EXCEPT !.writes = @ - 1], Completion("write", "ok"))

WriteFails ==
  /\ KeepsUp
  /\ io.link # "up"
  /\ io.writes > 0
  /\ io' = Queued([io EXCEPT !.writes = @ - 1], Completion("write", "error"))

TimerExpires(timer) ==
  /\ KeepsUp
  /\ timer \in io.armed
  /\ io' = Queued([io EXCEPT !.armed = @ \ {timer}], Completion(timer, "ok"))

Environment ==
  \/ ConnectSucceeds \/ ConnectFails
  \/ LinkBreaks
  \/ DataArrives \/ ReadFails
  \/ WriteSucceeds \/ WriteFails
  \/ \E timer \in Timers : TimerExpires(timer)
=============================================================================
