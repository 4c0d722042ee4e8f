---------------------------- MODULE InputSession ----------------------------
(***************************************************************************)
(* The session of sz_binary_input_service_t                                *)
(* (src/src/szBinary_input_service.cpp) over its socket_t: connect, log    *)
(* on, read, keep the connection alive, and connect again three seconds    *)
(* after an error or a logout.                                             *)
(*                                                                         *)
(* Each handler is one action; it takes the completion that is next in the *)
(* queue.  Only handleRead is several, because it calls the session back   *)
(* for every frame of the chunk it decodes while completions are queued    *)
(* behind it: HandleRead, then HandleMessage for each frame, then DoRead.  *)
(***************************************************************************)
EXTENDS AsioSocket, FiniteSets

CONSTANTS
  MaxFrames,            \* bound: frames in one chunk
  MaxWrites,            \* bound: a heartbeat is sent behind fewer writes only
  NoDelayMayFail        \* whether set_option may fail on a connected socket

ASSUME SessionAssumption ==
  /\ MaxFrames \in Nat
  /\ MaxWrites \in Nat \ {0}
  /\ NoDelayMayFail \in BOOLEAN

VARIABLES
  frames,               \* frames left in the chunk handleRead decodes, or -1
  \* history, since the last connect was started:
  loggedOn,             \* a logon message was handled
  loggedOut,            \* a logout message was handled
  disturbed             \* a left-over of an earlier connection was handled

history == <<loggedOn, loggedOut, disturbed>>
vars == <<io, frames, history>>

InHandleRead == frames >= 0

-----------------------------------------------------------------------------
\* sendLogon and sendHeartBeat: encode, flush, async_write.
Send(s) == AsyncWrite(s)

\* The error path that handleRead, handleWrite and a logout message share.
Abandon(s) == SetTimer(CancelTimer(s, HEARTBEAT_TIMER), RECONNECT_TIMER)

\* A completion of an earlier connection may act on this one; and so may the
\* heartbeat timer, if it was not cancelled with the connection it belonged to.
Noted ==
  /\ disturbed' = (disturbed \/ ~Head(io.queue).current)
  /\ UNCHANGED <<loggedOn, loggedOut>>

(* Handlers with a bug in them, for the properties stated below. *)
DoReadNotAtAll ==
  /\ frames = 0
  /\ frames' = -1
  /\ UNCHANGED <<io, history>>

HandleReadErrorOnlyCancels ==
  /\ ~InHandleRead
  /\ Completed("read", "error")
  /\ io' = CancelTimer(Taken, HEARTBEAT_TIMER)
  /\ Noted
  /\ UNCHANGED frames

HandleWriteReads ==
  /\ ~InHandleRead
  /\ Completed("write", "ok")
  /\ io' = AsyncRead(Taken)
  /\ UNCHANGED <<frames, history>>

LogoutOnlyCancels(message) ==
  /\ frames > 0
  /\ frames' = frames - 1
  /\ \/ /\ message = "logon"
        /\ io' = SetTimer(io, HEARTBEAT_TIMER)
        /\ loggedOn' = TRUE
        /\ UNCHANGED loggedOut
     \/ /\ message = "logout"
        /\ io' = CancelTimer(io, HEARTBEAT_TIMER)
        /\ loggedOut' = TRUE
        /\ UNCHANGED loggedOn
     \/ /\ message = "other"
        /\ UNCHANGED <<io, loggedOn, loggedOut>>
  /\ UNCHANGED disturbed

ReconnectWithoutCancel ==
  /\ ~InHandleRead
  /\ Completed(RECONNECT_TIMER, "ok")
  /\ io' = AsyncConnect(Taken)
  /\ loggedOn' = FALSE /\ loggedOut' = FALSE /\ disturbed' = FALSE
  /\ UNCHANGED frames

HeartbeatOnce(sends) ==
  /\ ~InHandleRead
  /\ Completed(HEARTBEAT_TIMER, "ok")
  /\ io' = IF sends THEN Send(Taken) ELSE Taken
  /\ Noted
  /\ UNCHANGED frames

-----------------------------------------------------------------------------
(* run(), on the main thread: doConnect, before the io_service has a thread.*)
Init ==
  /\ io \in {AsyncConnect(Idle), SetTimer(Idle, RECONNECT_TIMER)}
  /\ frames = -1
  /\ loggedOn = FALSE
  /\ loggedOut = FALSE
  /\ disturbed = FALSE

(* connnectHandle, readHandle, writeHandle and timerHandle drop what was    *)
(* aborted.                                                                 *)
Drop ==
  /\ ~InHandleRead
  /\ \E op \in {"connect", "read", "write"} \cup Timers : Completed(op, "aborted")
  /\ io' = Taken
  /\ UNCHANGED <<frames, history>>

(* handleConnect(0): send the logon and start to read. *)
HandleConnect ==
  /\ ~InHandleRead
  /\ Completed("connect", "ok")
  /\ io' = AsyncRead(Send(Taken))
  /\ Noted
  /\ UNCHANGED frames

(* connnectHandle whose set_option fails resets the socket and reports      *)
(* success all the same; the logon goes through the null pointer.           *)
NoDelayFails ==
  /\ NoDelayMayFail
  /\ ~InHandleRead
  /\ Completed("connect", "ok")
  /\ io' = [Idle EXCEPT !.link = "null"]
  /\ UNCHANGED <<frames, history>>

HandleConnectError ==
  /\ ~InHandleRead
  /\ Completed("connect", "error")
  /\ io' = SetTimer(Taken, RECONNECT_TIMER)
  /\ Noted
  /\ UNCHANGED frames

(* handleRead with bytes: decode them, which takes the next two actions. *)
HandleRead ==
  /\ ~InHandleRead
  /\ Completed("read", "ok")
  /\ io' = Taken
  /\ frames' \in 0..MaxFrames
  /\ Noted

(* handlemessage_t, called by the decoder for a frame. *)
HandleMessage(message) ==
  /\ frames > 0
  /\ frames' = frames - 1
  /\ \/ /\ message = "logon"
        /\ io' = SetTimer(io, HEARTBEAT_TIMER)
        /\ loggedOn' = TRUE
        /\ UNCHANGED loggedOut
     \/ /\ message = "logout"
        /\ io' = Abandon(io)
        /\ loggedOut' = TRUE
        /\ UNCHANGED loggedOn
     \/ /\ message = "other"
        /\ UNCHANGED <<io, loggedOn, loggedOut>>
  /\ UNCHANGED disturbed

(* The end of handleRead, whatever decode returned. *)
DoRead ==
  /\ frames = 0
  /\ frames' = -1
  /\ io' = AsyncRead(io)
  /\ UNCHANGED history

HandleReadError ==
  /\ ~InHandleRead
  /\ Completed("read", "error")
  /\ io' = Abandon(Taken)
  /\ Noted
  /\ UNCHANGED frames

HandleWrite ==
  /\ ~InHandleRead
  /\ Completed("write", "ok")
  /\ io' = Taken
  /\ UNCHANGED <<frames, history>>

HandleWriteError ==
  /\ ~InHandleRead
  /\ Completed("write", "error")
  /\ io' = Abandon(Taken)
  /\ Noted
  /\ UNCHANGED frames

(* handleTimer(RECONNECT_TIMER): cancel, reset encoder and decoder, and     *)
(* doConnect.                                                               *)
Reconnect ==
  /\ ~InHandleRead
  /\ Completed(RECONNECT_TIMER, "ok")
  /\ io' = AsyncConnect(CancelTimer(Taken, RECONNECT_TIMER))
  /\ loggedOn' = FALSE /\ loggedOut' = FALSE /\ disturbed' = FALSE
  /\ UNCHANGED frames

(* The same when no address is found: handleConnect is called at once.      *)
ReconnectUnresolved ==
  /\ ~InHandleRead
  /\ Completed(RECONNECT_TIMER, "ok")
  /\ io' = SetTimer(CancelTimer(Taken, RECONNECT_TIMER), RECONNECT_TIMER)
  /\ Noted
  /\ UNCHANGED frames

(* handleTimer(HEARTBEAT_TIMER): arm it again; a heartbeat is sent if       *)
(* nothing was received for three seconds.                                  *)
Heartbeat(sends) ==
  /\ ~InHandleRead
  /\ Completed(HEARTBEAT_TIMER, "ok")
  /\ sends => io.writes < MaxWrites
  /\ LET armed == SetTimer(Taken, HEARTBEAT_TIMER)
     IN  io' = IF sends THEN Send(armed) ELSE armed
  /\ disturbed' = (disturbed \/ ~loggedOn \/ ~Head(io.queue).current)
  /\ UNCHANGED <<frames, loggedOn, loggedOut>>

Handler ==
  \/ Drop
  \/ HandleConnect \/ NoDelayFails \/ HandleConnectError
  \/ HandleRead \/ DoRead \/ HandleReadError
  \/ \E message \in {"logon", "logout", "other"} : HandleMessage(message)
  \/ HandleWrite \/ HandleWriteError
  \/ Reconnect \/ ReconnectUnresolved
  \/ \E sends \in BOOLEAN : Heartbeat(sends)

Next ==
  \/ Handler
  \/ Environment /\ UNCHANGED <<frames, history>>

Spec == Init /\ [][Next]_vars

Event(action) == action /\ UNCHANGED <<frames, history>>

\* A logout that sets the reconnect timer anew while it runs.
Logout == HandleMessage("logout")
Postponed == RECONNECT_TIMER \in io.armed /\ Logout

\* The io_service's thread runs what is queued; an attempt to connect ends, a
\* read on a connection that is not up fails; the reconnect timer expires when
\* it is armed, unless logouts set it anew time and again; and the address is
\* not unknown for ever.  Errors set it anew too, but not for ever: reads and
\* connects that can fail are used up; writes come from heartbeats, whose timer
\* has the same three seconds and, set again, is set after this one.
\* Strong fairness because the bound on the queue can hold an event up.

Fairness ==
  /\ WF_vars(Handler)
  /\ SF_vars(Reconnect)
  /\ SF_vars(Event(ConnectSucceeds \/ ConnectFails))
  /\ SF_vars(Event(ReadFails))
  /\ SF_vars(Event(TimerExpires(RECONNECT_TIMER)) \/ Postponed)

FairSpec == Spec /\ Fairness
-----------------------------------------------------------------------------
(* The types; a connect is outstanding exactly while the socket connects.   *)
TypeOK ==
  /\ io \in IoType
  /\ frames \in -1..MaxFrames
  /\ loggedOn \in BOOLEAN /\ loggedOut \in BOOLEAN /\ disturbed \in BOOLEAN
  /\ io.connecting <=> io.link = "connecting"

\* The session is about to connect again: the timer is armed, or expired.
Reconnecting == RECONNECT_TIMER \in io.armed \/ Outstanding(RECONNECT_TIMER, "ok")

(* There is always something that makes the session go on: a connect or a   *)
(* read that is outstanding or has completed, or the reconnect timer.       *)
(* Nothing but a completion wakes this program, and aborted ones are        *)
(* dropped, so a path that forgets to arm one of them ends the session.     *)
NeverStranded ==
  \/ io.link = "null"
  \/ io.connecting
  \/ io.reads > 0
  \/ InHandleRead
  \/ Reconnecting
  \/ \E op \in {"connect", "read"}, ec \in {"ok", "error"} : Outstanding(op, ec)

(* The client does not hang up a connection that is up unless the server    *)
(* logged it out, or a completion of an earlier connection came in late     *)
(* (the handlers cannot tell; socket_t.cpp:186-191, 214-219).               *)
HealthyIsKept ==
  [][Reconnect /\ io.link = "up" => loggedOut \/ disturbed \/ ~Head(io.queue).current]_vars

(* inputBuffer_ has one read on it, or is being decoded: with the same      *)
(* exception, where a second doRead shares the buffer with the first one.   *)
InputBufferHasOneUser ==
  ~disturbed =>
    LET done == {i \in DOMAIN io.queue :
                   io.queue[i].op = "read" /\ io.queue[i].ec # "aborted" /\ io.queue[i].current}
    IN  io.reads + Cardinality(done) + (IF InHandleRead THEN 1 ELSE 0) <= 1

(* A session that is logged on is watched: the heartbeat timer is armed or  *)
(* its handler queued, or else the session is about to connect again,       *)
(* however the error paths and a second logon interleave with the timer.    *)
LoggedOnIsWatched ==
  loggedOn =>
    \/ io.link = "null"
    \/ HEARTBEAT_TIMER \in io.armed
    \/ Outstanding(HEARTBEAT_TIMER, "ok")
    \/ Reconnecting

(* A connection that is lost, or could not be made, is made again.          *)
LossIsRepaired == io.link = "down" ~> io.link \in {"connecting", "null"}

(* A session the server has logged out is replaced by a new connection,     *)
(* even if the server leaves the old one open - unless it goes on sending   *)
(* logouts for ever, each of which sets the reconnect timer anew            *)
(* (szBinary_input_service.cpp:207-211).                                    *)
LogoutIsFollowed ==
  <>[](loggedOut /\ io.link # "null") => []<><<Logout>>_vars
=============================================================================
