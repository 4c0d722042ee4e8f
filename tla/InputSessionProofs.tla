------------------------- MODULE InputSessionProofs -------------------------
(***************************************************************************)
(* The session always has something that makes it go on, and watches a     *)
(* connection it is logged on to, however many completions are queued.     *)
(* Both invariants are inductive together with the types: each handler     *)
(* either arms what it needs or takes from the queue a completion that the *)
(* invariant does not rest on, and what is queued stays queued.            *)
(*                                                                         *)
(* Until a left-over of an earlier connection is handled there is one      *)
(* "token" that makes the session go on: the connect or the read that is   *)
(* outstanding, or its completion, or handleRead in the middle of a chunk. *)
(* From that it follows that one read at most uses the input buffer, and   *)
(* that a connection that is up is not given up without a reason.          *)
(***************************************************************************)
EXTENDS InputSession, SequenceTheorems, FiniteSetTheorems, TLAPS

\* A completion is queued in a state of the socket.
Waits(s, op, ec) == \E i \in 1..Len(s.queue) : s.queue[i].op = op /\ s.queue[i].ec = ec

\* Everything but the queue and the timers is the same.
SameSocket(s, t) ==
  s.link = t.link /\ s.connecting = t.connecting /\ s.reads = t.reads /\ s.writes = t.writes

\* Nothing is taken from the queue.
KeepsQueue(s, t) == \A op, ec : Waits(s, op, ec) => Waits(t, op, ec)

LEMMA TimersAre == /\ RECONNECT_TIMER \in Timers /\ HEARTBEAT_TIMER \in Timers
                   /\ RECONNECT_TIMER # HEARTBEAT_TIMER
  BY DEF Timers, RECONNECT_TIMER, HEARTBEAT_TIMER

LEMMA OutstandingWaits ==
  \A op, ec : Outstanding(op, ec) <=> Waits(io, op, ec)
  BY DEF Outstanding, Waits

\* What a completion queued at the end leaves as it was.
LEMMA QueuedFacts ==
  ASSUME NEW s \in IoType, NEW c \in Completions
  PROVE  /\ Queued(s, c) \in IoType
         /\ SameSocket(s, Queued(s, c)) /\ Queued(s, c).armed = s.armed
         /\ KeepsQueue(s, Queued(s, c))
         /\ Waits(Queued(s, c), c.op, c.ec)
<1>1. s.queue \in Seq(Completions) /\ Queued(s, c) = [s EXCEPT !.queue = Append(s.queue, c)]
  BY DEF IoType, Queued
<1>2. Append(s.queue, c) \in Seq(Completions) /\ Len(Append(s.queue, c)) = Len(s.queue) + 1
      /\ Append(s.queue, c)[Len(s.queue) + 1] = c
      /\ \A i \in 1..Len(s.queue) : Append(s.queue, c)[i] = s.queue[i]
  BY <1>1, AppendProperties
<1>3. Queued(s, c) \in IoType /\ SameSocket(s, Queued(s, c)) /\ Queued(s, c).armed = s.armed
      /\ Queued(s, c).queue = Append(s.queue, c)
  BY <1>1, <1>2 DEF IoType, SameSocket
<1>4. Len(s.queue) \in Nat
  BY <1>1, LenProperties
<1>5. KeepsQueue(s, Queued(s, c))
  <2> SUFFICES ASSUME NEW op, NEW ec, NEW i \in 1..Len(s.queue),
                      s.queue[i].op = op, s.queue[i].ec = ec
               PROVE  Waits(Queued(s, c), op, ec)
    BY DEF KeepsQueue, Waits
  <2>1. i \in 1..Len(Append(s.queue, c)) /\ Append(s.queue, c)[i] = s.queue[i]
    BY <1>2, <1>4
  <2> QED BY <1>3, <2>1 DEF Waits
<1>6. Waits(Queued(s, c), c.op, c.ec)
  <2>1. Len(s.queue) + 1 \in 1..Len(Append(s.queue, c))
    BY <1>2, <1>4
  <2> QED BY <1>2, <1>3, <2>1 DEF Waits
<1> QED BY <1>3, <1>5, <1>6

LEMMA CompletionTyped ==
  ASSUME NEW op \in {"connect", "read", "write"} \cup Timers, NEW ec \in {"ok", "error", "aborted"}
  PROVE  /\ Completion(op, ec) \in Completions
         /\ Completion(op, ec).op = op /\ Completion(op, ec).ec = ec
  BY DEF Completion, Completions

LEMMA CancelTimerFacts ==
  ASSUME NEW s \in IoType, NEW timer \in Timers
  PROVE  /\ CancelTimer(s, timer) \in IoType
         /\ SameSocket(s, CancelTimer(s, timer))
         /\ CancelTimer(s, timer).armed = s.armed \ {timer}
         /\ KeepsQueue(s, CancelTimer(s, timer))
<1>1. CASE timer \in s.armed
  <2> DEFINE t == [s EXCEPT !.armed = s.armed \ {timer}]
  <2>1. t \in IoType /\ SameSocket(s, t) /\ t.armed = s.armed \ {timer} /\ t.queue = s.queue
    BY DEF IoType, SameSocket
  <2>2. CancelTimer(s, timer) = Queued(t, Completion(timer, "aborted"))
    BY <1>1 DEF CancelTimer
  <2>3. Completion(timer, "aborted") \in Completions
    BY CompletionTyped
  <2>4. KeepsQueue(s, t)
    BY <2>1 DEF KeepsQueue, Waits
  <2> HIDE DEF t
  <2>5. /\ Queued(t, Completion(timer, "aborted")) \in IoType
        /\ SameSocket(t, Queued(t, Completion(timer, "aborted")))
        /\ Queued(t, Completion(timer, "aborted")).armed = t.armed
        /\ KeepsQueue(t, Queued(t, Completion(timer, "aborted")))
    BY <2>1, <2>3, QueuedFacts
  <2> QED BY <2>1, <2>2, <2>4, <2>5 DEF SameSocket, KeepsQueue
<1>2. CASE timer \notin s.armed
  BY <1>2 DEF CancelTimer, SameSocket, KeepsQueue, IoType
<1> QED BY <1>1, <1>2

LEMMA SetTimerFacts ==
  ASSUME NEW s \in IoType, NEW timer \in Timers
  PROVE  /\ SetTimer(s, timer) \in IoType
         /\ SameSocket(s, SetTimer(s, timer))
         /\ SetTimer(s, timer).armed = s.armed \cup {timer}
         /\ KeepsQueue(s, SetTimer(s, timer))
<1> DEFINE t == CancelTimer(s, timer)
<1>1. /\ t \in IoType /\ SameSocket(s, t) /\ t.armed = s.armed \ {timer}
      /\ KeepsQueue(s, t)
  BY CancelTimerFacts
<1>2. SetTimer(s, timer) = [t EXCEPT !.armed = t.armed \cup {timer}]
  BY DEF SetTimer
<1> HIDE DEF t
<1>3. /\ SetTimer(s, timer) \in IoType /\ SameSocket(t, SetTimer(s, timer))
      /\ SetTimer(s, timer).armed = t.armed \cup {timer}
      /\ SetTimer(s, timer).queue = t.queue
  BY <1>1, <1>2 DEF IoType, SameSocket
<1> QED BY <1>1, <1>3 DEF SameSocket, KeepsQueue, Waits

LEMMA AbandonFacts ==
  ASSUME NEW s \in IoType
  PROVE  /\ Abandon(s) \in IoType
         /\ SameSocket(s, Abandon(s))
         /\ RECONNECT_TIMER \in Abandon(s).armed
<1>1. CancelTimer(s, HEARTBEAT_TIMER) \in IoType /\ SameSocket(s, CancelTimer(s, HEARTBEAT_TIMER))
  BY TimersAre, CancelTimerFacts
<1> QED BY <1>1, TimersAre, SetTimerFacts DEF Abandon, SameSocket

LEMMA TakenFacts ==
  ASSUME io \in IoType, NEW op, NEW ec, Completed(op, ec)
  PROVE  /\ Taken \in IoType /\ SameSocket(io, Taken) /\ Taken.armed = io.armed
         /\ \A o, e : Waits(io, o, e) /\ <<o, e>> # <<op, ec>> => Waits(Taken, o, e)
<1>1. io.queue \in Seq(Completions) /\ io.queue # <<>> /\ Head(io.queue).op = op /\ Head(io.queue).ec = ec
  BY DEF IoType, Completed
<1>2. Tail(io.queue) \in Seq(Completions) /\ Len(Tail(io.queue)) = Len(io.queue) - 1
      /\ \A i \in 1..Len(Tail(io.queue)) : Tail(io.queue)[i] = io.queue[i + 1]
      /\ Head(io.queue) = io.queue[1] /\ Len(io.queue) \in Nat
  BY <1>1, HeadTailProperties, LenProperties
<1>3. Taken \in IoType /\ SameSocket(io, Taken) /\ Taken.armed = io.armed /\ Taken.queue = Tail(io.queue)
  BY <1>2 DEF IoType, SameSocket, Taken
<1>4. ASSUME NEW o, NEW e, Waits(io, o, e), <<o, e>> # <<op, ec>> PROVE Waits(Taken, o, e)
  <2>1. PICK i \in 1..Len(io.queue) : io.queue[i].op = o /\ io.queue[i].ec = e
    BY <1>4 DEF Waits
  <2>2. i # 1
    BY <1>1, <1>2, <1>4, <2>1
  <2>3. i - 1 \in 1..Len(Tail(io.queue)) /\ Tail(io.queue)[i - 1] = io.queue[i]
    BY <1>2, <2>2
  <2> QED BY <1>3, <2>1, <2>3 DEF Waits
<1> QED BY <1>3, <1>4

LEMMA AbortsTyped ==
  ASSUME NEW s \in IoType
  PROVE  Aborts(s) \in Seq(Completions)
<1> DEFINE Repeated(n, op) == [i \in 1..n |-> Completion(op, "aborted")]
<1>1. \A n \in Nat : Repeated(n, "read") \in Seq(Completions) /\ Repeated(n, "write") \in Seq(Completions)
  <2> TAKE n \in Nat
  <2>1. Completion("read", "aborted") \in Completions /\ Completion("write", "aborted") \in Completions
    BY CompletionTyped
  <2> QED BY <2>1, SeqDef
<1>2. (IF s.connecting THEN <<Completion("connect", "aborted")>> ELSE <<>>) \in Seq(Completions)
  <2>1. Completion("connect", "aborted") \in Completions
    BY CompletionTyped
  <2> QED BY <2>1
<1>3. s.reads \in Nat /\ s.writes \in Nat
  BY DEF IoType
<1>4. Repeated(s.reads, "read") \in Seq(Completions) /\ Repeated(s.writes, "write") \in Seq(Completions)
  BY <1>1, <1>3
<1>5. Repeated(s.reads, "read") \o Repeated(s.writes, "write") \in Seq(Completions)
  BY <1>4, ConcatProperties
<1>6. Aborts(s) = (Repeated(s.reads, "read") \o Repeated(s.writes, "write"))
                  \o IF s.connecting THEN <<Completion("connect", "aborted")>> ELSE <<>>
  BY DEF Aborts
<1> HIDE DEF Repeated
<1> QED BY <1>2, <1>5, <1>6, ConcatProperties

LEMMA AsyncConnectFacts ==
  ASSUME NEW s \in IoType
  PROVE  /\ AsyncConnect(s) \in IoType
         /\ AsyncConnect(s).link = "connecting" /\ AsyncConnect(s).connecting = TRUE
<1> DEFINE late == [i \in 1..Len(s.queue) |-> [s.queue[i] EXCEPT !.current = FALSE]]
<1>1. s.queue \in Seq(Completions) /\ Len(s.queue) \in Nat
  BY LenProperties DEF IoType
<1>2. \A i \in 1..Len(s.queue) : [s.queue[i] EXCEPT !.current = FALSE] \in Completions
  <2> TAKE i \in 1..Len(s.queue)
  <2>1. s.queue[i] \in Completions
    BY <1>1, ElementOfSeq
  <2> QED BY <2>1 DEF Completions
<1>3. late \in Seq(Completions)
  BY <1>1, <1>2, SeqDef
<1> DEFINE queue == late \o Aborts(s)
<1>4. queue \in Seq(Completions)
  <2> HIDE DEF late
  <2> QED BY <1>3, AbortsTyped, ConcatProperties
<1>5. AsyncConnect(s) = [s EXCEPT !.link = "connecting", !.connecting = TRUE, !.reads = 0, !.writes = 0,
                                  !.queue = queue]
  BY DEF AsyncConnect
<1> HIDE DEF queue
<1>6. s.armed \in SUBSET Timers
  BY DEF IoType
<1>7. AsyncConnect(s) = [link |-> "connecting", connecting |-> TRUE, reads |-> 0, writes |-> 0,
                         armed |-> s.armed, queue |-> queue]
  BY <1>5 DEF IoType
<1> QED BY <1>4, <1>6, <1>7 DEF IoType, Links

-----------------------------------------------------------------------------
\* The part of TypeOK that is about the socket.
IoOK == io \in IoType /\ (io.connecting <=> io.link = "connecting")

\* What is kept while the session waits for the reconnect timer, or for the
\* completion of a connect or a read.
StillWaits(s) ==
  \/ s.link = "null"
  \/ s.connecting
  \/ s.reads > 0
  \/ RECONNECT_TIMER \in s.armed
  \/ Waits(s, RECONNECT_TIMER, "ok")
  \/ \E op \in {"connect", "read"}, ec \in {"ok", "error"} : Waits(s, op, ec)

LEMMA NeverStrandedIs == NeverStranded <=> InHandleRead \/ StillWaits(io)
  BY OutstandingWaits DEF NeverStranded, StillWaits, Reconnecting

LEMMA IdleTyped == Idle \in IoType /\ Idle.link = "closed" /\ Idle.connecting = FALSE
<1>1. <<>> \in Seq(Completions)
  BY EmptySeq
<1> QED BY <1>1 DEF Idle, IoType, Links

LEMMA InitHolds == Init => TypeOK /\ NeverStranded /\ LoggedOnIsWatched
<1> SUFFICES ASSUME Init PROVE TypeOK /\ NeverStranded /\ LoggedOnIsWatched
  OBVIOUS
<1>0. frames \in -1..MaxFrames /\ loggedOn = FALSE /\ loggedOut = FALSE /\ disturbed = FALSE
  BY SessionAssumption DEF Init, SessionAssumption
<1>1. CASE io = AsyncConnect(Idle)
  <2>1. io \in IoType /\ io.link = "connecting" /\ io.connecting = TRUE
    BY <1>1, IdleTyped, AsyncConnectFacts
  <2> QED BY <1>0, <2>1 DEF TypeOK, NeverStranded, LoggedOnIsWatched
<1>2. CASE io = SetTimer(Idle, RECONNECT_TIMER)
  <2>1. io \in IoType /\ io.link = "closed" /\ io.connecting = FALSE /\ RECONNECT_TIMER \in io.armed
    BY <1>2, IdleTyped, TimersAre, SetTimerFacts DEF SameSocket
  <2> QED BY <1>0, <2>1 DEF TypeOK, NeverStranded, LoggedOnIsWatched, Reconnecting
<1> QED BY <1>1, <1>2 DEF Init

-----------------------------------------------------------------------------
\* What LoggedOnIsWatched says of the socket.
Watched(s) ==
  \/ s.link = "null"
  \/ s.armed \cap Timers # {}
  \/ \E timer \in Timers : Waits(s, timer, "ok")

LEMMA LoggedOnIsWatchedIs == LoggedOnIsWatched <=> (loggedOn => Watched(io))
  BY OutstandingWaits DEF LoggedOnIsWatched, Watched, Reconnecting, Timers

LEMMA PrimedViews ==
  /\ NeverStranded' <=> InHandleRead' \/ StillWaits(io')
  /\ LoggedOnIsWatched' <=> (loggedOn' => Watched(io'))
<1>1. \A op, ec : Outstanding(op, ec)' <=> Waits(io', op, ec)
  BY DEF Outstanding, Waits
<1>2. NeverStranded' <=> InHandleRead' \/ StillWaits(io')
  BY <1>1 DEF NeverStranded, StillWaits, Reconnecting
<1>3. LoggedOnIsWatched' <=> (loggedOn' => Watched(io'))
  BY <1>1 DEF LoggedOnIsWatched, Watched, Reconnecting, Timers
<1> QED BY <1>2, <1>3

\* Nothing that is waited for goes away when completions are only added.
LEMMA WaitsOn ==
  ASSUME NEW s, NEW t, SameSocket(s, t), s.armed \subseteq t.armed, KeepsQueue(s, t)
  PROVE  (StillWaits(s) => StillWaits(t)) /\ (Watched(s) => Watched(t))
  BY DEF SameSocket, KeepsQueue, StillWaits, Watched

\* Nor when the completion that is taken is not one of those waited for.
LEMMA WaitsOnTaken ==
  ASSUME io \in IoType, NEW op, NEW ec, Completed(op, ec)
  PROVE  /\ <<op, ec>> \notin {"connect", "read"} \X {"ok", "error"} /\ <<op, ec>> # <<RECONNECT_TIMER, "ok">>
              => (StillWaits(io) => StillWaits(Taken))
         /\ <<op, ec>> \notin Timers \X {"ok"} => (Watched(io) => Watched(Taken))
<1>1. /\ SameSocket(io, Taken) /\ Taken.armed = io.armed
      /\ \A o, e : Waits(io, o, e) /\ <<o, e>> # <<op, ec>> => Waits(Taken, o, e)
  BY TakenFacts
<1>2. ASSUME <<op, ec>> \notin {"connect", "read"} \X {"ok", "error"}, <<op, ec>> # <<RECONNECT_TIMER, "ok">>,
             StillWaits(io)
      PROVE  StillWaits(Taken)
  BY <1>1, <1>2 DEF StillWaits, SameSocket
<1>3. ASSUME <<op, ec>> \notin Timers \X {"ok"}, Watched(io)
      PROVE  Watched(Taken)
  BY <1>1, <1>3 DEF Watched, SameSocket
<1> QED BY <1>2, <1>3

\* What all the steps are shown to do.
GoesOn ==
  /\ io' \in IoType /\ (io'.connecting <=> io'.link = "connecting")
  /\ InHandleRead' \/ StillWaits(io')
  /\ loggedOn' => Watched(io')

\* Timers that are armed are enough for both.
LEMMA ArmedIsEnough ==
  ASSUME NEW s, RECONNECT_TIMER \in s.armed
  PROVE  StillWaits(s) /\ Watched(s)
  BY TimersAre DEF StillWaits, Watched

\* An event changes the socket and queues one completion.
LEMMA EventFacts ==
  ASSUME NEW t \in IoType, t.queue = io.queue, NEW c \in Completions, io' = Queued(t, c)
  PROVE  /\ io' \in IoType /\ SameSocket(t, io') /\ io'.armed = t.armed
         /\ \A op, ec : Waits(io, op, ec) => Waits(io', op, ec)
         /\ Waits(io', c.op, c.ec)
<1>1. \A op, ec : Waits(io, op, ec) => Waits(t, op, ec)
  BY DEF Waits
<1> QED BY <1>1, QueuedFacts DEF KeepsQueue

LEMMA EventGoesOn ==
  ASSUME TypeOK, NeverStranded, LoggedOnIsWatched, Environment, UNCHANGED <<frames, history>>
  PROVE  GoesOn
<1>1. /\ io \in IoType /\ (io.connecting <=> io.link = "connecting")
      /\ InHandleRead \/ StillWaits(io)
      /\ loggedOn => Watched(io)
  BY NeverStrandedIs, LoggedOnIsWatchedIs DEF TypeOK
<1>2. (InHandleRead' <=> InHandleRead) /\ loggedOn' = loggedOn
  BY DEF InHandleRead, history
<1>3. CASE ConnectSucceeds
  <2> DEFINE t == [io EXCEPT !.connecting = FALSE, !.link = "up"]
  <2>1. io.connecting
    BY <1>3 DEF ConnectSucceeds
  <2>2. t \in IoType /\ t.queue = io.queue /\ t.connecting = FALSE /\ t.link = "up" /\ t.armed = io.armed
    BY <1>1, <2>1 DEF IoType, Links
  <2>3. Completion("connect", "ok") \in Completions
        /\ Completion("connect", "ok").op = "connect" /\ Completion("connect", "ok").ec = "ok"
    BY CompletionTyped
  <2>4. io' = Queued(t, Completion("connect", "ok"))
    BY <1>3 DEF ConnectSucceeds
  <2> HIDE DEF t
  <2>5. /\ io' \in IoType /\ SameSocket(t, io') /\ io'.armed = t.armed
        /\ \A o, e : Waits(io, o, e) => Waits(io', o, e)
        /\ Waits(io', "connect", "ok")
    BY <2>2, <2>3, <2>4, EventFacts
  <2>6. io'.connecting <=> io'.link = "connecting"
    BY <1>1, <2>1, <2>2, <2>5 DEF SameSocket
  <2>7. StillWaits(io')
    BY <2>5 DEF StillWaits
  <2>8. loggedOn' => Watched(io')
    BY <1>1, <1>2, <2>1, <2>2, <2>5 DEF Watched, SameSocket
  <2> QED BY <2>5, <2>6, <2>7, <2>8 DEF GoesOn
<1>4. CASE ConnectFails
  <2> DEFINE t == [io EXCEPT !.connecting = FALSE, !.link = "down"]
  <2>1. io.connecting
    BY <1>4 DEF ConnectFails
  <2>2. t \in IoType /\ t.queue = io.queue /\ t.connecting = FALSE /\ t.link = "down" /\ t.armed = io.armed
    BY <1>1, <2>1 DEF IoType, Links
  <2>3. Completion("connect", "error") \in Completions
        /\ Completion("connect", "error").op = "connect" /\ Completion("connect", "error").ec = "error"
    BY CompletionTyped
  <2>4. io' = Queued(t, Completion("connect", "error"))
    BY <1>4 DEF ConnectFails
  <2> HIDE DEF t
  <2>5. /\ io' \in IoType /\ SameSocket(t, io') /\ io'.armed = t.armed
        /\ \A o, e : Waits(io, o, e) => Waits(io', o, e)
        /\ Waits(io', "connect", "error")
    BY <2>2, <2>3, <2>4, EventFacts
  <2>6. io'.connecting <=> io'.link = "connecting"
    BY <1>1, <2>1, <2>2, <2>5 DEF SameSocket
  <2>7. StillWaits(io')
    BY <2>5 DEF StillWaits
  <2>8. loggedOn' => Watched(io')
    BY <1>1, <1>2, <2>1, <2>2, <2>5 DEF Watched, SameSocket
  <2> QED BY <2>5, <2>6, <2>7, <2>8 DEF GoesOn
<1>5. CASE DataArrives
  <2> DEFINE t == [io EXCEPT !.reads = @ - 1]
  <2>1. io.reads > 0
    BY <1>5 DEF DataArrives
  <2>2. t \in IoType /\ t.queue = io.queue /\ t.connecting = io.connecting /\ t.link = io.link /\ t.armed = io.armed
    BY <1>1, <2>1 DEF IoType, Links
  <2>3. Completion("read", "ok") \in Completions
        /\ Completion("read", "ok").op = "read" /\ Completion("read", "ok").ec = "ok"
    BY CompletionTyped
  <2>4. io' = Queued(t, Completion("read", "ok"))
    BY <1>5 DEF DataArrives
  <2> HIDE DEF t
  <2>5. /\ io' \in IoType /\ SameSocket(t, io') /\ io'.armed = t.armed
        /\ \A o, e : Waits(io, o, e) => Waits(io', o, e)
        /\ Waits(io', "read", "ok")
    BY <2>2, <2>3, <2>4, EventFacts
  <2>6. io'.connecting <=> io'.link = "connecting"
    BY <1>1, <2>1, <2>2, <2>5 DEF SameSocket
  <2>7. StillWaits(io')
    BY <2>5 DEF StillWaits
  <2>8. loggedOn' => Watched(io')
    BY <1>1, <1>2, <2>1, <2>2, <2>5 DEF Watched, SameSocket
  <2> QED BY <2>5, <2>6, <2>7, <2>8 DEF GoesOn
<1>6. CASE ReadFails
  <2> DEFINE t == [io EXCEPT !.reads = @ - 1]
  <2>1. io.reads > 0
    BY <1>6 DEF ReadFails
  <2>2. t \in IoType /\ t.queue = io.queue /\ t.connecting = io.connecting /\ t.link = io.link /\ t.armed = io.armed
    BY <1>1, <2>1 DEF IoType, Links
  <2>3. Completion("read", "error") \in Completions
        /\ Completion("read", "error").op = "read" /\ Completion("read", "error").ec = "error"
    BY CompletionTyped
  <2>4. io' = Queued(t, Completion("read", "error"))
    BY <1>6 DEF ReadFails
  <2> HIDE DEF t
  <2>5. /\ io' \in IoType /\ SameSocket(t, io') /\ io'.armed = t.armed
        /\ \A o, e : Waits(io, o, e) => Waits(io', o, e)
        /\ Waits(io', "read", "error")
    BY <2>2, <2>3, <2>4, EventFacts
  <2>6. io'.connecting <=> io'.link = "connecting"
    BY <1>1, <2>1, <2>2, <2>5 DEF SameSocket
  <2>7. StillWaits(io')
    BY <2>5 DEF StillWaits
  <2>8. loggedOn' => Watched(io')
    BY <1>1, <1>2, <2>1, <2>2, <2>5 DEF Watched, SameSocket
  <2> QED BY <2>5, <2>6, <2>7, <2>8 DEF GoesOn
<1>7. CASE WriteSucceeds
  <2> DEFINE t == [io EXCEPT !.writes = @ - 1]
  <2>1. io.writes > 0
    BY <1>7 DEF WriteSucceeds
  <2>2. t \in IoType /\ t.queue = io.queue /\ t.connecting = io.connecting /\ t.link = io.link /\ t.armed = io.armed /\ t.reads = io.reads
    BY <1>1, <2>1 DEF IoType, Links
  <2>3. Completion("write", "ok") \in Completions
        /\ Completion("write", "ok").op = "write" /\ Completion("write", "ok").ec = "ok"
    BY CompletionTyped
  <2>4. io' = Queued(t, Completion("write", "ok"))
    BY <1>7 DEF WriteSucceeds
  <2> HIDE DEF t
  <2>5. /\ io' \in IoType /\ SameSocket(t, io') /\ io'.armed = t.armed
        /\ \A o, e : Waits(io, o, e) => Waits(io', o, e)
        /\ Waits(io', "write", "ok")
    BY <2>2, <2>3, <2>4, EventFacts
  <2>6. io'.connecting <=> io'.link = "connecting"
    BY <1>1, <2>1, <2>2, <2>5 DEF SameSocket
  <2>7. InHandleRead' \/ StillWaits(io')
    BY <1>1, <1>2, <2>1, <2>2, <2>5 DEF StillWaits, SameSocket
  <2>8. loggedOn' => Watched(io')
    BY <1>1, <1>2, <2>1, <2>2, <2>5 DEF Watched, SameSocket
  <2> QED BY <2>5, <2>6, <2>7, <2>8 DEF GoesOn
<1>8. CASE WriteFails
  <2> DEFINE t == [io EXCEPT !.writes = @ - 1]
  <2>1. io.writes > 0
    BY <1>8 DEF WriteFails
  <2>2. t \in IoType /\ t.queue = io.queue /\ t.connecting = io.connecting /\ t.link = io.link /\ t.armed = io.armed /\ t.reads = io.reads
    BY <1>1, <2>1 DEF IoType, Links
  <2>3. Completion("write", "error") \in Completions
        /\ Completion("write", "error").op = "write" /\ Completion("write", "error").ec = "error"
    BY CompletionTyped
  <2>4. io' = Queued(t, Completion("write", "error"))
    BY <1>8 DEF WriteFails
  <2> HIDE DEF t
  <2>5. /\ io' \in IoType /\ SameSocket(t, io') /\ io'.armed = t.armed
        /\ \A o, e : Waits(io, o, e) => Waits(io', o, e)
        /\ Waits(io', "write", "error")
    BY <2>2, <2>3, <2>4, EventFacts
  <2>6. io'.connecting <=> io'.link = "connecting"
    BY <1>1, <2>1, <2>2, <2>5 DEF SameSocket
  <2>7. InHandleRead' \/ StillWaits(io')
    BY <1>1, <1>2, <2>1, <2>2, <2>5 DEF StillWaits, SameSocket
  <2>8. loggedOn' => Watched(io')
    BY <1>1, <1>2, <2>1, <2>2, <2>5 DEF Watched, SameSocket
  <2> QED BY <2>5, <2>6, <2>7, <2>8 DEF GoesOn
<1>9. ASSUME NEW timer \in Timers, TimerExpires(timer) PROVE GoesOn
  <2> DEFINE t == [io EXCEPT !.armed = @ \ {timer}]
  <2>1. t \in IoType /\ t.queue = io.queue /\ SameSocket(io, t) /\ t.armed = io.armed \ {timer}
    BY <1>1 DEF IoType, SameSocket
  <2>2. Completion(timer, "ok") \in Completions
        /\ Completion(timer, "ok").op = timer /\ Completion(timer, "ok").ec = "ok"
    BY CompletionTyped
  <2>3. io' = Queued(t, Completion(timer, "ok"))
    BY <1>9 DEF TimerExpires
  <2> HIDE DEF t
  <2>4. /\ io' \in IoType /\ SameSocket(t, io') /\ io'.armed = t.armed
        /\ \A o, e : Waits(io, o, e) => Waits(io', o, e)
        /\ Waits(io', timer, "ok")
    BY <2>1, <2>2, <2>3, EventFacts
  <2>5. io'.connecting <=> io'.link = "connecting"
    BY <1>1, <2>1, <2>4 DEF SameSocket
  <2>6. InHandleRead' \/ StillWaits(io')
    BY <1>1, <1>2, <2>1, <2>4 DEF StillWaits, SameSocket
  <2>7. Watched(io')
    BY <2>4 DEF Watched
  <2> QED BY <2>4, <2>5, <2>6, <2>7 DEF GoesOn
<1>10. CASE LinkBreaks
  <2>1. io.link = "up" /\ io' = [io EXCEPT !.link = "down"]
    BY <1>10 DEF LinkBreaks
  <2>2. io' \in IoType /\ io'.link = "down" /\ io'.connecting = io.connecting /\ io'.reads = io.reads
        /\ io'.armed = io.armed /\ io'.queue = io.queue
    BY <1>1, <2>1 DEF IoType, Links
  <2>3. \A o, e : Waits(io, o, e) => Waits(io', o, e)
    BY <2>2 DEF Waits
  <2>4. InHandleRead' \/ StillWaits(io')
    BY <1>1, <1>2, <2>1, <2>2, <2>3 DEF StillWaits
  <2>5. loggedOn' => Watched(io')
    BY <1>1, <1>2, <2>1, <2>2, <2>3 DEF Watched
  <2> QED BY <1>1, <2>1, <2>2, <2>4, <2>5 DEF GoesOn
<1> QED BY <1>3, <1>4, <1>5, <1>6, <1>7, <1>8, <1>9, <1>10 DEF Environment

-----------------------------------------------------------------------------
LEMMA SendTyped ==
  ASSUME NEW s \in IoType
  PROVE  /\ AsyncWrite(s) \in IoType /\ AsyncRead(s) \in IoType
         /\ AsyncRead(s).reads > 0 /\ AsyncWrite(s).reads = s.reads
         /\ \A t \in {AsyncRead(s), AsyncWrite(s)} :
              t.link = s.link /\ t.connecting = s.connecting /\ t.armed = s.armed /\ t.queue = s.queue
  BY DEF IoType, AsyncWrite, AsyncRead

\* A write or a read started keeps what was waited for.
LEMMA SendWaitsOn ==
  ASSUME NEW s \in IoType, NEW t \in {AsyncRead(s), AsyncWrite(s)}
  PROVE  (Watched(s) => Watched(t)) /\ (StillWaits(s) => StillWaits(t))
<1>1. t.link = s.link /\ t.connecting = s.connecting /\ t.armed = s.armed /\ t.queue = s.queue
      /\ (t.reads > 0 \/ t.reads = s.reads)
  BY SendTyped
<1>2. \A op, ec : Waits(s, op, ec) => Waits(t, op, ec)
  BY <1>1 DEF Waits
<1> QED BY <1>1, <1>2 DEF Watched, StillWaits

\* The steps that arm the reconnect timer.
LEMMA AbandonGoesOn ==
  ASSUME IoOK, NEW s \in IoType, SameSocket(io, s),
         io' = Abandon(s) \/ io' = SetTimer(s, RECONNECT_TIMER)
  PROVE  GoesOn
<1>1. io' \in IoType /\ SameSocket(s, io') /\ RECONNECT_TIMER \in io'.armed
  BY AbandonFacts, SetTimerFacts, TimersAre
<1>2. SameSocket(io, io')
  BY <1>1 DEF SameSocket
<1>3. StillWaits(io') /\ Watched(io')
  BY <1>1, ArmedIsEnough
<1> QED BY <1>1, <1>2, <1>3 DEF GoesOn, IoOK, SameSocket

LEMMA HandlerGoesOn ==
  ASSUME TypeOK, NeverStranded, LoggedOnIsWatched, Handler
  PROVE  GoesOn
<1>1. /\ io \in IoType /\ (io.connecting <=> io.link = "connecting")
      /\ InHandleRead \/ StillWaits(io)
      /\ loggedOn => Watched(io)
  BY NeverStrandedIs, LoggedOnIsWatchedIs DEF TypeOK
<1>2. IoOK
  BY <1>1 DEF IoOK
<1>3. ASSUME NEW op, NEW ec, Completed(op, ec)
      PROVE  /\ Taken \in IoType /\ SameSocket(io, Taken) /\ Taken.armed = io.armed
             /\ Taken.connecting <=> Taken.link = "connecting"
  <2>1. Taken \in IoType /\ SameSocket(io, Taken) /\ Taken.armed = io.armed
    BY <1>1, <1>3, TakenFacts
  <2> QED BY <1>1, <2>1 DEF SameSocket
\* Handlers that only take the completion.
<1>4. ASSUME NEW op, NEW ec, Completed(op, ec), ~InHandleRead, io' = Taken, loggedOn' = loggedOn,
             <<op, ec>> \notin {"connect", "read"} \X {"ok", "error"}, <<op, ec>> # <<RECONNECT_TIMER, "ok">>,
             <<op, ec>> \notin Timers \X {"ok"}
      PROVE  GoesOn
  <2>1. /\ Taken \in IoType /\ (Taken.connecting <=> Taken.link = "connecting")
    BY <1>3, <1>4
  <2>2. (StillWaits(io) => StillWaits(Taken)) /\ (Watched(io) => Watched(Taken))
    BY <1>1, <1>4, WaitsOnTaken
  <2> QED BY <1>1, <1>4, <2>1, <2>2 DEF GoesOn
<1>5. CASE Drop
  <2>1. PICK op \in {"connect", "read", "write"} \cup Timers : Completed(op, "aborted")
    BY <1>5 DEF Drop
  <2>2. ~InHandleRead /\ io' = Taken /\ loggedOn' = loggedOn
    BY <1>5 DEF Drop, history
  <2> QED BY <1>4, <2>1, <2>2
<1>6. CASE HandleWrite
  <2>1. Completed("write", "ok") /\ ~InHandleRead /\ io' = Taken /\ loggedOn' = loggedOn
    BY <1>6 DEF HandleWrite, history
  <2> QED BY <1>4, <2>1 DEF Timers, RECONNECT_TIMER, HEARTBEAT_TIMER
<1>7. CASE HandleConnect
  <2>1. Completed("connect", "ok") /\ io' = AsyncRead(AsyncWrite(Taken)) /\ loggedOn' = loggedOn
    BY <1>7 DEF HandleConnect, Send, Noted
  <2>2. Taken \in IoType /\ (Taken.connecting <=> Taken.link = "connecting")
    BY <1>3, <2>1
  <2>a. <<"connect", "ok">> \notin Timers \X {"ok"}
    BY DEF Timers, RECONNECT_TIMER, HEARTBEAT_TIMER
  <2>3. Watched(io) => Watched(Taken)
    BY <1>1, <2>1, <2>a, WaitsOnTaken
  <2> DEFINE sent == AsyncWrite(Taken)
  <2>4. sent \in IoType /\ (sent.connecting <=> sent.link = "connecting")
        /\ (Watched(Taken) => Watched(sent))
    BY <2>2, SendTyped, SendWaitsOn
  <2>5. io' = AsyncRead(sent)
    BY <2>1
  <2> HIDE DEF sent
  <2>6. io' \in IoType /\ (io'.connecting <=> io'.link = "connecting") /\ io'.reads > 0
        /\ (Watched(sent) => Watched(io'))
    BY <2>4, <2>5, SendTyped, SendWaitsOn
  <2> QED BY <1>1, <2>1, <2>3, <2>4, <2>6 DEF GoesOn, StillWaits
<1>8. CASE NoDelayFails
  <2>1. io' = [Idle EXCEPT !.link = "null"]
    BY <1>8 DEF NoDelayFails
  <2>2. io' \in IoType /\ io'.link = "null" /\ io'.connecting = FALSE
    BY <2>1, IdleTyped DEF IoType, Links
  <2> QED BY <2>2 DEF GoesOn, StillWaits, Watched
<1>9. CASE HandleConnectError \/ HandleReadError \/ HandleWriteError
  <2>1. \E op, ec : Completed(op, ec)
    BY <1>9 DEF HandleConnectError, HandleReadError, HandleWriteError
  <2>2. Taken \in IoType /\ SameSocket(io, Taken)
    BY <1>3, <2>1
  <2>3. io' = Abandon(Taken) \/ io' = SetTimer(Taken, RECONNECT_TIMER)
    BY <1>9 DEF HandleConnectError, HandleReadError, HandleWriteError
  <2> QED BY <1>2, <2>2, <2>3, AbandonGoesOn
<1>10. CASE HandleRead
  <2>1. Completed("read", "ok") /\ io' = Taken /\ loggedOn' = loggedOn /\ frames' \in 0..MaxFrames
    BY <1>10 DEF HandleRead, Noted
  <2>2. Taken \in IoType /\ (Taken.connecting <=> Taken.link = "connecting")
    BY <1>3, <2>1
  <2>a. <<"read", "ok">> \notin Timers \X {"ok"}
    BY DEF Timers, RECONNECT_TIMER, HEARTBEAT_TIMER
  <2>3. Watched(io) => Watched(Taken)
    BY <1>1, <2>1, <2>a, WaitsOnTaken
  <2>4. InHandleRead'
    BY <2>1, SessionAssumption DEF InHandleRead, SessionAssumption
  <2> QED BY <1>1, <2>1, <2>2, <2>3, <2>4 DEF GoesOn
<1>11. ASSUME NEW message \in {"logon", "logout", "other"}, HandleMessage(message) PROVE GoesOn
  <2>1. InHandleRead'
    BY <1>11 DEF HandleMessage, InHandleRead, TypeOK
  <2>2. CASE message = "logon"
    <3>1. io' = SetTimer(io, HEARTBEAT_TIMER)
      BY <1>11, <2>2 DEF HandleMessage
    <3>2. io' \in IoType /\ SameSocket(io, io') /\ HEARTBEAT_TIMER \in io'.armed
      BY <1>1, <3>1, TimersAre, SetTimerFacts
    <3>3. Watched(io')
      BY <3>2, TimersAre DEF Watched
    <3> QED BY <1>1, <2>1, <3>2, <3>3 DEF GoesOn, SameSocket
  <2>3. CASE message = "logout"
    <3>1. io' = Abandon(io)
      BY <1>11, <2>3 DEF HandleMessage
    <3> QED BY <1>1, <1>2, <3>1, AbandonGoesOn DEF SameSocket
  <2>4. CASE message = "other"
    BY <1>1, <1>11, <2>1, <2>4 DEF HandleMessage, GoesOn
  <2> QED BY <2>2, <2>3, <2>4
<1>12. CASE DoRead
  <2>1. io' = AsyncRead(io) /\ loggedOn' = loggedOn
    BY <1>12 DEF DoRead, history
  <2>2. io' \in IoType /\ (io'.connecting <=> io'.link = "connecting") /\ io'.reads > 0
        /\ (Watched(io) => Watched(io'))
    BY <1>1, <2>1, SendTyped, SendWaitsOn
  <2> QED BY <1>1, <2>1, <2>2 DEF GoesOn, StillWaits
<1>13. CASE Reconnect \/ ReconnectUnresolved
  <2>1. Completed(RECONNECT_TIMER, "ok")
    BY <1>13 DEF Reconnect, ReconnectUnresolved
  <2> DEFINE s == CancelTimer(Taken, RECONNECT_TIMER)
  <2>2. s \in IoType /\ SameSocket(io, s)
    BY <1>3, <2>1, TimersAre, CancelTimerFacts DEF SameSocket
  <2>3. \/ io' = AsyncConnect(s) /\ loggedOn' = FALSE
        \/ io' = SetTimer(s, RECONNECT_TIMER)
    BY <1>13 DEF Reconnect, ReconnectUnresolved
  <2> HIDE DEF s
  <2>4. CASE io' = AsyncConnect(s) /\ loggedOn' = FALSE
    BY <2>2, <2>4, AsyncConnectFacts DEF GoesOn, StillWaits
  <2>5. CASE io' = SetTimer(s, RECONNECT_TIMER)
    BY <1>2, <2>2, <2>5, AbandonGoesOn
  <2> QED BY <2>3, <2>4, <2>5
<1>14. ASSUME NEW sends \in BOOLEAN, Heartbeat(sends) PROVE GoesOn
  <2>1. Completed(HEARTBEAT_TIMER, "ok") /\ ~InHandleRead
    BY <1>14 DEF Heartbeat
  <2>2. Taken \in IoType /\ (Taken.connecting <=> Taken.link = "connecting")
    BY <1>3, <2>1
  <2>3. StillWaits(Taken)
    BY <1>1, <2>1, WaitsOnTaken, TimersAre DEF Timers, RECONNECT_TIMER, HEARTBEAT_TIMER
  <2> DEFINE armed == SetTimer(Taken, HEARTBEAT_TIMER)
  <2>4. /\ armed \in IoType /\ SameSocket(Taken, armed) /\ armed.armed = Taken.armed \cup {HEARTBEAT_TIMER}
        /\ KeepsQueue(Taken, armed)
    BY <2>2, TimersAre, SetTimerFacts
  <2>5. io' = armed \/ io' = AsyncWrite(armed)
    BY <1>14 DEF Heartbeat, Send
  <2> HIDE DEF armed
  <2>6. StillWaits(armed) /\ Watched(armed)
    BY <2>3, <2>4, TimersAre, WaitsOn DEF Watched
  <2>7. /\ io' \in IoType /\ io'.link = armed.link /\ io'.connecting = armed.connecting
        /\ StillWaits(io') /\ Watched(io')
    BY <2>4, <2>5, <2>6, SendTyped, SendWaitsOn
  <2> QED BY <2>2, <2>4, <2>7 DEF GoesOn, SameSocket
<1> QED BY <1>5, <1>6, <1>7, <1>8, <1>9, <1>10, <1>11, <1>12, <1>13, <1>14 DEF Handler

-----------------------------------------------------------------------------
\* What the steps do to the variables beside the socket.
LEMMA OthersTyped ==
  ASSUME TypeOK, [Next]_vars
  PROVE  /\ frames' \in -1..MaxFrames
         /\ loggedOn' \in BOOLEAN /\ loggedOut' \in BOOLEAN /\ disturbed' \in BOOLEAN
<1>1. frames \in -1..MaxFrames /\ MaxFrames \in Nat
      /\ loggedOn \in BOOLEAN /\ loggedOut \in BOOLEAN /\ disturbed \in BOOLEAN
  BY SessionAssumption DEF SessionAssumption, TypeOK
<1> DEFINE Goal == /\ frames' \in -1..MaxFrames
                   /\ loggedOn' \in BOOLEAN /\ loggedOut' \in BOOLEAN /\ disturbed' \in BOOLEAN
<1>2. CASE (Environment /\ UNCHANGED <<frames, history>>) \/ UNCHANGED vars
  BY <1>1, <1>2 DEF vars, history
<1>3. CASE \/ Drop \/ HandleConnect \/ NoDelayFails \/ HandleConnectError \/ HandleReadError
           \/ HandleWrite \/ HandleWriteError \/ Reconnect \/ ReconnectUnresolved
  <2>1. frames' = frames
    BY <1>3 DEF Drop, HandleConnect, NoDelayFails, HandleConnectError, HandleReadError, HandleWrite,
                HandleWriteError, Reconnect, ReconnectUnresolved
  <2>2. \/ Noted
        \/ loggedOn' = loggedOn /\ loggedOut' = loggedOut /\ disturbed' = disturbed
        \/ loggedOn' = FALSE /\ loggedOut' = FALSE /\ disturbed' = FALSE
    BY <1>3 DEF Drop, HandleConnect, NoDelayFails, HandleConnectError, HandleReadError, HandleWrite,
                HandleWriteError, Reconnect, ReconnectUnresolved, history
  <2> QED BY <1>1, <2>1, <2>2 DEF Noted
<1>4. CASE HandleRead \/ DoRead
  <2>1. frames' \in -1..MaxFrames
    <3>1. frames' \in 0..MaxFrames \/ frames' = -1
      BY <1>4 DEF HandleRead, DoRead
    <3> QED BY <1>1, <3>1
  <2>2. \/ Noted
        \/ loggedOn' = loggedOn /\ loggedOut' = loggedOut /\ disturbed' = disturbed
    BY <1>4 DEF HandleRead, DoRead, history
  <2> QED BY <1>1, <2>1, <2>2 DEF Noted
<1>5. ASSUME NEW message \in {"logon", "logout", "other"}, HandleMessage(message) PROVE Goal
  <2>1. frames > 0 /\ frames' = frames - 1
    BY <1>5 DEF HandleMessage
  <2>2. frames' \in -1..MaxFrames
    BY <1>1, <2>1
  <2>3. disturbed' = disturbed /\ (loggedOn' = loggedOn \/ loggedOn' = TRUE)
        /\ (loggedOut' = loggedOut \/ loggedOut' = TRUE)
    BY <1>5 DEF HandleMessage
  <2> QED BY <1>1, <2>2, <2>3
<1>6. ASSUME NEW sends \in BOOLEAN, Heartbeat(sends) PROVE Goal
  <2>1. frames' = frames /\ loggedOn' = loggedOn /\ loggedOut' = loggedOut /\ disturbed' \in BOOLEAN
    BY <1>6 DEF Heartbeat
  <2> QED BY <1>1, <2>1
<1> QED BY <1>2, <1>3, <1>4, <1>5, <1>6 DEF Next, Handler

IInv == TypeOK /\ NeverStranded /\ LoggedOnIsWatched

LEMMA NextIInv == IInv /\ [Next]_vars => IInv'
<1> SUFFICES ASSUME IInv, [Next]_vars PROVE IInv'
  OBVIOUS
<1>1. CASE Next
  <2>1. GoesOn
    BY <1>1, EventGoesOn, HandlerGoesOn DEF IInv, Next
  <2>2. /\ frames' \in -1..MaxFrames
        /\ loggedOn' \in BOOLEAN /\ loggedOut' \in BOOLEAN /\ disturbed' \in BOOLEAN
    BY OthersTyped DEF IInv
  <2>3. TypeOK'
    BY <2>1, <2>2 DEF GoesOn, TypeOK
  <2>4. NeverStranded' /\ LoggedOnIsWatched'
    BY <2>1, PrimedViews DEF GoesOn
  <2> QED BY <2>3, <2>4 DEF IInv
<1>2. CASE UNCHANGED vars
  BY <1>2 DEF IInv, vars, history, TypeOK, NeverStranded, LoggedOnIsWatched, InHandleRead, Reconnecting, Outstanding
<1> QED BY <1>1, <1>2

LEMMA SpecIInv == Spec => []IInv
<1>1. Init => IInv
  BY InitHolds DEF IInv
<1> QED BY <1>1, NextIInv, PTL DEF Spec

(* Every state of the socket, its timers and the completion queue is one    *)
(* the handlers can be in; a connect is outstanding only while it connects  *)
(* (socket_t.cpp:52-76, szBinary_input_service.cpp:82-170).                 *)
THEOREM TypeCorrect == Spec => []TypeOK
<1>1. IInv => TypeOK
  BY DEF IInv
<1> QED BY <1>1, SpecIInv, PTL

(* No path through the handlers, of however many completions, forgets to    *)
(* arm what the session needs to go on (szBinary_input_service.cpp:82-170). *)
THEOREM SessionGoesOn == Spec => []NeverStranded
<1>1. IInv => NeverStranded
  BY DEF IInv
<1> QED BY <1>1, SpecIInv, PTL

(* While it is logged on the heartbeat timer runs, or the session is about  *)
(* to connect again (szBinary_input_service.cpp:100-106, 157-170, 205-213). *)
THEOREM LogonIsWatched == Spec => []LoggedOnIsWatched
<1>1. IInv => LoggedOnIsWatched
  BY DEF IInv
<1> QED BY <1>1, SpecIInv, PTL

-----------------------------------------------------------------------------
(* The session while no left-over of an earlier connection was handled.     *)

\* A completion of this connection whose handler will do something.
Live(c) == c.current /\ c.ec # "aborted"

\* The one that makes the session go on, and the connect before the first read.
Token(c) == Live(c) /\ c.op \in {"connect", "read"}
NoToken(s) == \A i \in DOMAIN s.queue : ~Token(s.queue[i])
ToConnect(s) ==
  s.connecting \/ \E i \in DOMAIN s.queue : Live(s.queue[i]) /\ s.queue[i].op = "connect"

\* There is one token: queued, held by the kernel, or in the handler of a read.
OneUser(s, handling) ==
  /\ \A i, j \in DOMAIN s.queue : Token(s.queue[i]) /\ Token(s.queue[j]) => i = j
  /\ s.connecting \/ s.reads > 0 \/ handling => NoToken(s)
  /\ s.connecting => s.reads = 0 /\ ~handling
  /\ s.reads > 0 => s.reads = 1 /\ ~handling

\* Nothing is on its way that would connect again.
Healthy(s) ==
  /\ RECONNECT_TIMER \notin s.armed
  /\ \A i \in DOMAIN s.queue : Live(s.queue[i]) => s.queue[i].op # RECONNECT_TIMER

Orderly(s, handling, on, out) ==
  /\ OneUser(s, handling)
  /\ ToConnect(s) => ~on /\ s.writes = 0
  /\ s.link \in {"up", "connecting"} =>
       /\ \A i \in DOMAIN s.queue : Live(s.queue[i]) => s.queue[i].ec # "error"
       /\ ~out => Healthy(s)

Undisturbed == ~disturbed => Orderly(io, InHandleRead, loggedOn, loggedOut)

\* The live completions of t are those of s, but for the first k.
Shifted(s, t, k) ==
  \A i \in DOMAIN t.queue : Live(t.queue[i]) => i + k \in DOMAIN s.queue /\ t.queue[i] = s.queue[i + k]

\* What is queued stays queued.
Keeps(s, t) ==
  \A c : (\E i \in DOMAIN s.queue : s.queue[i] = c) => \E i \in DOMAIN t.queue : t.queue[i] = c

LEMMA QueueTyped ==
  ASSUME NEW s \in IoType
  PROVE  /\ s.queue \in Seq(Completions) /\ Len(s.queue) \in Nat /\ DOMAIN s.queue = 1..Len(s.queue)
         /\ s.reads \in Nat /\ s.writes \in Nat /\ s.connecting \in BOOLEAN /\ s.armed \subseteq Timers
<1>1. s.queue \in Seq(Completions) /\ s.reads \in Nat /\ s.writes \in Nat /\ s.connecting \in BOOLEAN
      /\ s.armed \subseteq Timers
  BY DEF IoType
<1> QED BY <1>1, LenProperties

\* What is in the queue after a completion was added at the end.
LEMMA AddedFacts ==
  ASSUME NEW s \in IoType, NEW c
  PROVE  /\ Queued(s, c).queue = Append(s.queue, c)
         /\ DOMAIN Append(s.queue, c) = 1..(Len(s.queue) + 1)
         /\ DOMAIN s.queue = 1..Len(s.queue) /\ Len(s.queue) \in Nat
         /\ \A i \in DOMAIN s.queue : Append(s.queue, c)[i] = s.queue[i]
         /\ Append(s.queue, c)[Len(s.queue) + 1] = c
<1>1. s.queue \in Seq(Completions \cup {c})
  <2>1. s.queue \in Seq(Completions)
    BY QueueTyped
  <2>2. Completions \subseteq Completions \cup {c}
    OBVIOUS
  <2> QED BY <2>1, <2>2, SeqDef
<1>2. Queued(s, c).queue = Append(s.queue, c)
  BY DEF Queued, IoType
<1>3. c \in Completions \cup {c}
  OBVIOUS
<1> QED BY <1>1, <1>2, <1>3, AppendProperties, LenProperties

LEMMA QueuedConnecting ==
  ASSUME NEW s \in IoType, NEW c
  PROVE  Queued(s, c).connecting = s.connecting
BY DEF Queued, IoType

LEMMA CancelTimerShifts ==
  ASSUME NEW s \in IoType, NEW timer \in Timers
  PROVE  Shifted(s, CancelTimer(s, timer), 0) /\ Keeps(s, CancelTimer(s, timer))
<1>1. CASE timer \in s.armed
  <2> DEFINE t == [s EXCEPT !.armed = s.armed \ {timer}]
             c == Completion(timer, "aborted")
  <2>1. t \in IoType /\ t.queue = s.queue
    BY DEF IoType
  <2>2. CancelTimer(s, timer) = Queued(t, c)
    BY <1>1 DEF CancelTimer
  <2>3. ~Live(c)
    BY DEF Live, Completion
  <2> HIDE DEF t, c
  <2>4. /\ Queued(t, c).queue = Append(s.queue, c)
        /\ DOMAIN Append(s.queue, c) = 1..(Len(s.queue) + 1)
        /\ DOMAIN s.queue = 1..Len(s.queue) /\ Len(s.queue) \in Nat
        /\ \A i \in DOMAIN s.queue : Append(s.queue, c)[i] = s.queue[i]
        /\ Append(s.queue, c)[Len(s.queue) + 1] = c
    BY <2>1, AddedFacts
  <2>5. Shifted(s, CancelTimer(s, timer), 0)
    BY <2>2, <2>3, <2>4 DEF Shifted
  <2>6. Keeps(s, CancelTimer(s, timer))
    <3>1. \A i \in DOMAIN s.queue : i \in DOMAIN Append(s.queue, c)
      BY <2>4
    <3> QED BY <2>2, <2>4, <3>1 DEF Keeps
  <2> QED BY <2>5, <2>6
<1>2. CASE timer \notin s.armed
  <2>1. DOMAIN s.queue = 1..Len(s.queue)
    BY QueueTyped
  <2> QED BY <1>2, <2>1 DEF CancelTimer, Shifted, Keeps
<1> QED BY <1>1, <1>2

LEMMA SetTimerShifts ==
  ASSUME NEW s \in IoType, NEW timer \in Timers
  PROVE  Shifted(s, SetTimer(s, timer), 0) /\ Keeps(s, SetTimer(s, timer))
<1>1. CancelTimer(s, timer) \in IoType /\ Shifted(s, CancelTimer(s, timer), 0)
      /\ Keeps(s, CancelTimer(s, timer))
  BY CancelTimerFacts, CancelTimerShifts
<1>2. SetTimer(s, timer).queue = CancelTimer(s, timer).queue
  BY <1>1 DEF SetTimer, IoType
<1> QED BY <1>1, <1>2 DEF Shifted, Keeps

LEMMA ShiftsCompose ==
  ASSUME NEW s \in IoType, NEW t \in IoType, NEW u \in IoType, NEW j \in Nat,
         Shifted(s, t, j), Shifted(t, u, 0)
  PROVE  Shifted(s, u, j)
<1> SUFFICES ASSUME NEW i \in DOMAIN u.queue, Live(u.queue[i])
             PROVE  i + j \in DOMAIN s.queue /\ u.queue[i] = s.queue[i + j]
  BY DEF Shifted
<1>1. i \in Nat
  BY QueueTyped
<1>2. i \in DOMAIN t.queue /\ u.queue[i] = t.queue[i]
  BY <1>1 DEF Shifted
<1> QED BY <1>2 DEF Shifted

LEMMA AbandonShifts ==
  ASSUME NEW s \in IoType
  PROVE  Shifted(s, Abandon(s), 0) /\ Keeps(s, Abandon(s))
<1> DEFINE t == CancelTimer(s, HEARTBEAT_TIMER)
<1>1. t \in IoType /\ Shifted(s, t, 0) /\ Keeps(s, t)
  BY TimersAre, CancelTimerFacts, CancelTimerShifts
<1>2. Abandon(s) = SetTimer(t, RECONNECT_TIMER)
  BY DEF Abandon
<1> HIDE DEF t
<1>3. Abandon(s) \in IoType /\ Shifted(t, Abandon(s), 0) /\ Keeps(t, Abandon(s))
  BY <1>1, <1>2, TimersAre, SetTimerFacts, SetTimerShifts
<1>4. Shifted(s, Abandon(s), 0)
  BY <1>1, <1>3, ShiftsCompose
<1> QED BY <1>1, <1>3, <1>4 DEF Keeps

\* The queue without its head.
LEMMA TakenShifts ==
  ASSUME io \in IoType, NEW op, NEW ec, Completed(op, ec)
  PROVE  /\ Shifted(io, Taken, 1)
         /\ \A i \in DOMAIN Taken.queue : i \in Nat \ {0} /\ i + 1 \in DOMAIN io.queue
                                          /\ Taken.queue[i] = io.queue[i + 1]
         /\ 1 \in DOMAIN io.queue /\ Head(io.queue) = io.queue[1]
         /\ io.queue[1].op = op /\ io.queue[1].ec = ec
         /\ \A i \in DOMAIN io.queue : i # 1 => \E j \in DOMAIN Taken.queue : Taken.queue[j] = io.queue[i]
<1>1. io.queue \in Seq(Completions) /\ io.queue # <<>> /\ Head(io.queue).op = op /\ Head(io.queue).ec = ec
      /\ DOMAIN io.queue = 1..Len(io.queue) /\ Len(io.queue) \in Nat
  BY QueueTyped DEF Completed
<1>2. Tail(io.queue) \in Seq(Completions) /\ Len(Tail(io.queue)) = Len(io.queue) - 1
      /\ \A i \in 1..Len(Tail(io.queue)) : Tail(io.queue)[i] = io.queue[i + 1]
      /\ Head(io.queue) = io.queue[1] /\ Len(io.queue) > 0
  BY <1>1, HeadTailProperties, EmptySeq
<1>3. DOMAIN Tail(io.queue) = 1..Len(Tail(io.queue))
  BY <1>2, LenProperties
<1>4. Taken.queue = Tail(io.queue)
  BY DEF Taken, IoType
<1>5. \A i \in DOMAIN Taken.queue : i \in Nat \ {0} /\ i + 1 \in DOMAIN io.queue
                                    /\ Taken.queue[i] = io.queue[i + 1]
  BY <1>1, <1>2, <1>3, <1>4
<1>6. 1 \in DOMAIN io.queue
  BY <1>1, <1>2
<1>7. \A i \in DOMAIN io.queue : i # 1 => \E j \in DOMAIN Taken.queue : Taken.queue[j] = io.queue[i]
  <2> SUFFICES ASSUME NEW i \in DOMAIN io.queue, i # 1
               PROVE  \E j \in DOMAIN Taken.queue : Taken.queue[j] = io.queue[i]
    OBVIOUS
  <2>1. i - 1 \in DOMAIN Taken.queue /\ (i - 1) + 1 = i
    BY <1>1, <1>2, <1>3, <1>4
  <2> QED BY <1>5, <2>1
<1> QED BY <1>1, <1>2, <1>5, <1>6, <1>7 DEF Shifted

\* Fewer live completions, and no timer that was not armed: still in order.
LEMMA LessIsOrderly ==
  ASSUME NEW s \in IoType, NEW t \in IoType, NEW k \in Nat,
         NEW h \in BOOLEAN, NEW on \in BOOLEAN, NEW out \in BOOLEAN,
         NEW on2 \in BOOLEAN, NEW out2 \in BOOLEAN,
         Orderly(s, h, on, out), Shifted(s, t, k),
         t.link = s.link, t.connecting = s.connecting, t.reads = s.reads,
         t.writes = s.writes \/ on, on2 => on \/ h, out => out2,
         s.link \in {"up", "connecting"} /\ ~out2 /\ RECONNECT_TIMER \in t.armed
           => RECONNECT_TIMER \in s.armed
  PROVE  Orderly(t, h, on2, out2)
<1>1. \A i \in DOMAIN t.queue : i \in Nat
  BY QueueTyped
<1>2. \A i \in DOMAIN t.queue : Live(t.queue[i]) => i + k \in DOMAIN s.queue /\ t.queue[i] = s.queue[i + k]
  BY DEF Shifted
<1>3. OneUser(s, h)
  BY DEF Orderly
<1>4. NoToken(s) => NoToken(t)
  BY <1>2 DEF NoToken, Token
<1>5. OneUser(t, h)
  <2>1. ASSUME NEW i \in DOMAIN t.queue, NEW j \in DOMAIN t.queue, Token(t.queue[i]), Token(t.queue[j])
        PROVE  i = j
    <3>1. /\ i + k \in DOMAIN s.queue /\ t.queue[i] = s.queue[i + k]
          /\ j + k \in DOMAIN s.queue /\ t.queue[j] = s.queue[j + k]
      BY <1>2, <2>1 DEF Token
    <3>2. i + k = j + k
      BY <1>3, <2>1, <3>1 DEF OneUser
    <3> QED BY <1>1, <3>2
  <2> QED BY <1>3, <1>4, <2>1 DEF OneUser
<1>6. ToConnect(t) => ToConnect(s)
  BY <1>2 DEF ToConnect
<1>7. ToConnect(s) => ~on /\ s.writes = 0 /\ ~h
  <2>1. ToConnect(s) => ~on /\ s.writes = 0
    BY DEF Orderly
  <2>2. ToConnect(s) => ~h
    BY <1>3 DEF ToConnect, OneUser, NoToken, Token
  <2> QED BY <2>1, <2>2
<1>8. ToConnect(t) => ~on2 /\ t.writes = 0
  BY <1>6, <1>7
<1>9. ASSUME t.link \in {"up", "connecting"}
      PROVE  /\ \A i \in DOMAIN t.queue : Live(t.queue[i]) => t.queue[i].ec # "error"
             /\ ~out2 => Healthy(t)
  <2>1. /\ \A i \in DOMAIN s.queue : Live(s.queue[i]) => s.queue[i].ec # "error"
        /\ ~out2 => Healthy(s)
    BY <1>9 DEF Orderly
  <2>2. \A i \in DOMAIN t.queue : Live(t.queue[i]) => t.queue[i].ec # "error"
    BY <1>2, <2>1
  <2>3. ~out2 => Healthy(t)
    BY <1>2, <1>9, <2>1 DEF Healthy
  <2> QED BY <2>2, <2>3
<1> QED BY <1>5, <1>8, <1>9 DEF Orderly

\* The handler of a token: no other token is queued and nothing else uses the buffer.
LEMMA TokenTaken ==
  ASSUME io \in IoType, NEW op \in {"connect", "read"}, NEW ec, ec # "aborted", Completed(op, ec),
         Head(io.queue).current, NEW h, OneUser(io, h)
  PROVE  /\ ~io.connecting /\ io.reads = 0 /\ ~h
         /\ NoToken(Taken)
         /\ \A i \in DOMAIN Taken.queue : ~(Live(Taken.queue[i]) /\ Taken.queue[i].op = "connect")
<1>1. /\ \A i \in DOMAIN Taken.queue : i \in Nat \ {0} /\ i + 1 \in DOMAIN io.queue
                                       /\ Taken.queue[i] = io.queue[i + 1]
      /\ 1 \in DOMAIN io.queue /\ Head(io.queue) = io.queue[1]
      /\ io.queue[1].op = op /\ io.queue[1].ec = ec
  BY TakenShifts
<1>2. Token(io.queue[1])
  BY <1>1 DEF Token, Live
<1>3. ~NoToken(io)
  BY <1>1, <1>2 DEF NoToken
<1>4. ~io.connecting /\ ~(io.reads > 0) /\ ~h
  BY <1>3 DEF OneUser
<1>5. io.reads \in Nat
  BY QueueTyped
<1>6. ASSUME NEW i \in DOMAIN Taken.queue, Token(Taken.queue[i]) PROVE FALSE
  <2>1. i \in Nat \ {0} /\ i + 1 \in DOMAIN io.queue /\ Token(io.queue[i + 1])
    BY <1>1, <1>6
  <2>2. i + 1 = 1
    BY <1>1, <1>2, <2>1 DEF OneUser
  <2> QED BY <2>1, <2>2
<1> QED BY <1>4, <1>5, <1>6 DEF NoToken, Token

\* An event adds one live completion.
LEMMA EventAdds ==
  ASSUME NEW t \in IoType, t.queue = io.queue, NEW c, io' = Queued(t, c)
  PROVE  /\ \A i \in DOMAIN io'.queue : \/ i \in DOMAIN io.queue /\ io'.queue[i] = io.queue[i]
                                        \/ i = Len(io.queue) + 1 /\ io'.queue[i] = c
         /\ io'.link = t.link /\ io'.connecting = t.connecting /\ io'.armed = t.armed
         /\ io'.reads = t.reads /\ io'.writes = t.writes
<1>1. /\ Queued(t, c).queue = Append(t.queue, c)
      /\ DOMAIN Append(t.queue, c) = 1..(Len(t.queue) + 1)
      /\ DOMAIN t.queue = 1..Len(t.queue) /\ Len(t.queue) \in Nat
      /\ \A i \in DOMAIN t.queue : Append(t.queue, c)[i] = t.queue[i]
      /\ Append(t.queue, c)[Len(t.queue) + 1] = c
  BY AddedFacts
<1>2. /\ Queued(t, c).link = t.link /\ Queued(t, c).connecting = t.connecting /\ Queued(t, c).armed = t.armed
      /\ Queued(t, c).reads = t.reads /\ Queued(t, c).writes = t.writes
  BY DEF Queued, IoType
<1> QED BY <1>1, <1>2

\* No completion in a queue is live.
Dead(q) == \A i \in DOMAIN q : ~Live(q[i])

LEMMA ConcatIsDead ==
  ASSUME NEW p \in Seq(Completions), NEW q \in Seq(Completions), Dead(p), Dead(q)
  PROVE  Dead(p \o q)
<1>1. p \o q \in Seq(Completions) /\ DOMAIN (p \o q) = 1..(Len(p) + Len(q))
      /\ DOMAIN p = 1..Len(p) /\ DOMAIN q = 1..Len(q) /\ Len(p) \in Nat /\ Len(q) \in Nat
      /\ \A i \in 1..(Len(p) + Len(q)) : (p \o q)[i] = IF i <= Len(p) THEN p[i] ELSE q[i - Len(p)]
  BY ConcatProperties, LenProperties
<1>2. ASSUME NEW i \in 1..(Len(p) + Len(q)) PROVE ~Live((p \o q)[i])
  <2>1. CASE i <= Len(p)
    BY <1>1, <2>1 DEF Dead
  <2>2. CASE ~(i <= Len(p))
    <3>1. i - Len(p) \in DOMAIN q /\ (p \o q)[i] = q[i - Len(p)]
      BY <1>1, <2>2
    <3> QED BY <3>1 DEF Dead
  <2> QED BY <2>1, <2>2
<1> QED BY <1>1, <1>2 DEF Dead

LEMMA AbortsAreDead ==
  ASSUME NEW s \in IoType
  PROVE  Dead(Aborts(s))
<1> DEFINE Repeated(n, op) == [i \in 1..n |-> Completion(op, "aborted")]
           last == IF s.connecting THEN <<Completion("connect", "aborted")>> ELSE <<>>
<1>1. \A op, n : Dead(Repeated(n, op))
  BY DEF Dead, Live, Completion
<1>2. /\ Repeated(s.reads, "read") \in Seq(Completions) /\ Repeated(s.writes, "write") \in Seq(Completions)
  <2>1. Completion("read", "aborted") \in Completions /\ Completion("write", "aborted") \in Completions
    BY CompletionTyped
  <2>2. s.reads \in Nat /\ s.writes \in Nat
    BY QueueTyped
  <2> QED BY <2>1, <2>2, SeqDef
<1>3. last \in Seq(Completions) /\ Dead(last)
  <2>1. Completion("connect", "aborted") \in Completions /\ ~Live(Completion("connect", "aborted"))
    BY CompletionTyped DEF Live
  <2> QED BY <2>1 DEF Dead
<1>4. Aborts(s) = (Repeated(s.reads, "read") \o Repeated(s.writes, "write")) \o last
  BY DEF Aborts
<1> HIDE DEF Repeated, last
<1>5. Repeated(s.reads, "read") \o Repeated(s.writes, "write") \in Seq(Completions)
      /\ Dead(Repeated(s.reads, "read") \o Repeated(s.writes, "write"))
  BY <1>1, <1>2, ConcatIsDead, ConcatProperties
<1> QED BY <1>3, <1>4, <1>5, ConcatIsDead

\* A new connection starts in order, whatever is still queued.
LEMMA NewIsOrderly ==
  ASSUME NEW s \in IoType, RECONNECT_TIMER \notin s.armed
  PROVE  Orderly(AsyncConnect(s), FALSE, FALSE, FALSE)
<1> DEFINE late == [i \in 1..Len(s.queue) |-> [s.queue[i] EXCEPT !.current = FALSE]]
           queue == late \o Aborts(s)
           t == AsyncConnect(s)
<1>1. s.queue \in Seq(Completions) /\ Len(s.queue) \in Nat /\ DOMAIN s.queue = 1..Len(s.queue)
  BY QueueTyped
<1>2. \A i \in 1..Len(s.queue) : /\ [s.queue[i] EXCEPT !.current = FALSE] \in Completions
                                 /\ ~Live([s.queue[i] EXCEPT !.current = FALSE])
  <2> TAKE i \in 1..Len(s.queue)
  <2>1. s.queue[i] \in Completions
    BY <1>1, ElementOfSeq
  <2> QED BY <2>1 DEF Completions, Live
<1>3. late \in Seq(Completions) /\ Dead(late)
  <2>1. late \in Seq(Completions)
    BY <1>1, <1>2, SeqDef
  <2> QED BY <1>2, <2>1 DEF Dead
<1>4. t = [s EXCEPT !.link = "connecting", !.connecting = TRUE, !.reads = 0, !.writes = 0, !.queue = queue]
  BY DEF AsyncConnect
<1>5. /\ t.link = "connecting" /\ t.connecting = TRUE /\ t.reads = 0 /\ t.writes = 0
      /\ t.armed = s.armed /\ t.queue = queue
  <2> HIDE DEF queue
  <2> QED BY <1>4 DEF IoType
<1>6. Dead(queue)
  <2> HIDE DEF late
  <2> QED BY <1>3, AbortsTyped, AbortsAreDead, ConcatIsDead
<1> HIDE DEF queue, t
<1>7. \A i \in DOMAIN t.queue : ~Live(t.queue[i])
  BY <1>5, <1>6 DEF Dead
<1>8. OneUser(t, FALSE)
  BY <1>5, <1>7 DEF OneUser, NoToken, Token
<1>9. Healthy(t)
  BY <1>5, <1>7 DEF Healthy
<1>10. Orderly(t, FALSE, FALSE, FALSE)
  BY <1>5, <1>7, <1>8, <1>9 DEF Orderly
<1> QED BY <1>10 DEF t

-----------------------------------------------------------------------------
\* One live completion more: what has to be known of it.
LEMMA MoreIsOrderly ==
  ASSUME NEW t \in IoType, io \in IoType, t.queue = io.queue, NEW c, Live(c), io' = Queued(t, c),
         NEW h \in BOOLEAN, NEW on \in BOOLEAN, NEW out \in BOOLEAN,
         Orderly(io, h, on, out),
         Token(c) => NoToken(io) /\ ~t.connecting /\ t.reads = 0 /\ ~h,
         t.connecting => io.connecting, t.reads = io.reads \/ Token(c), t.writes = io.writes \/ t.writes < io.writes,
         c.op = "connect" => io.connecting,
         t.armed \subseteq io.armed,
         t.link \in {"up", "connecting"} =>
           /\ io.link \in {"up", "connecting"} /\ c.ec # "error"
           /\ ~out => c.op # RECONNECT_TIMER
  PROVE  Orderly(io', h, on, out)
<1>1. /\ \A i \in DOMAIN io'.queue : \/ i \in DOMAIN io.queue /\ io'.queue[i] = io.queue[i]
                                     \/ i = Len(io.queue) + 1 /\ io'.queue[i] = c
      /\ io'.link = t.link /\ io'.connecting = t.connecting /\ io'.armed = t.armed
      /\ io'.reads = t.reads /\ io'.writes = t.writes
  BY EventAdds
<1>2. OneUser(io, h)
  BY DEF Orderly
<1>3. OneUser(io', h)
  <2>1. CASE Token(c)
    <3>1. NoToken(io) /\ ~io'.connecting /\ io'.reads = 0 /\ ~h
      BY <1>1, <2>1
    <3>2. \A i, j \in DOMAIN io'.queue : Token(io'.queue[i]) /\ Token(io'.queue[j]) => i = j
      BY <1>1, <3>1 DEF NoToken
    <3> QED BY <3>1, <3>2 DEF OneUser
  <2>2. CASE ~Token(c)
    <3>1. \A i \in DOMAIN io'.queue : Token(io'.queue[i]) => i \in DOMAIN io.queue /\ Token(io.queue[i])
      BY <1>1, <2>2
    <3>2. io'.reads = io.reads /\ (io'.connecting => io.connecting)
      BY <1>1, <2>2
    <3> QED BY <1>2, <3>1, <3>2 DEF OneUser, NoToken
  <2> QED BY <2>1, <2>2
<1>4. ToConnect(io') => ToConnect(io)
  BY <1>1 DEF ToConnect
<1>5. ToConnect(io') => ~on /\ io'.writes = 0
  <2>1. io.writes \in Nat /\ t.writes \in Nat
    BY QueueTyped
  <2>2. ToConnect(io) => ~on /\ io.writes = 0
    BY DEF Orderly
  <2> QED BY <1>1, <1>4, <2>1, <2>2
<1>6. ASSUME io'.link \in {"up", "connecting"}
      PROVE  /\ \A i \in DOMAIN io'.queue : Live(io'.queue[i]) => io'.queue[i].ec # "error"
             /\ ~out => Healthy(io')
  <2>1. /\ io.link \in {"up", "connecting"} /\ c.ec # "error"
        /\ ~out => c.op # RECONNECT_TIMER
    BY <1>1, <1>6
  <2>2. /\ \A i \in DOMAIN io.queue : Live(io.queue[i]) => io.queue[i].ec # "error"
        /\ ~out => Healthy(io)
    BY <2>1 DEF Orderly
  <2>3. \A i \in DOMAIN io'.queue : Live(io'.queue[i]) => io'.queue[i].ec # "error"
    BY <1>1, <2>1, <2>2
  <2>4. ~out => Healthy(io')
    BY <1>1, <2>1, <2>2 DEF Healthy
  <2> QED BY <2>3, <2>4
<1> QED BY <1>3, <1>5, <1>6 DEF Orderly

\* What the kernel, the peer and the clock do leaves the session in order.
LEMMA EventIsOrderly ==
  ASSUME io \in IoType, io.connecting <=> io.link = "connecting", Environment,
         NEW h \in BOOLEAN, NEW on \in BOOLEAN, NEW out \in BOOLEAN,
         Orderly(io, h, on, out)
  PROVE  Orderly(io', h, on, out)
<1>1. OneUser(io, h) /\ (ToConnect(io) => ~on /\ io.writes = 0)
  BY DEF Orderly
<1>2. io.connecting => NoToken(io) /\ io.reads = 0 /\ ~h /\ io.writes = 0
  BY <1>1 DEF OneUser, ToConnect
<1>3. io.reads > 0 => NoToken(io) /\ io.reads = 1 /\ ~h /\ ~io.connecting
  BY <1>1 DEF OneUser
<1>c. \A op \in {"connect", "read", "write"} \cup Timers, ec \in {"ok", "error"} :
        /\ Completion(op, ec).op = op /\ Completion(op, ec).ec = ec /\ Live(Completion(op, ec))
        /\ Token(Completion(op, ec)) <=> op \in {"connect", "read"}
  BY DEF Completion, Live, Token
<1>d. \A op \in {"connect", "read", "write"} : op # RECONNECT_TIMER
  BY DEF RECONNECT_TIMER
<1>4. CASE ConnectSucceeds
  <2> DEFINE t == [io EXCEPT !.connecting = FALSE, !.link = "up"]
             c == Completion("connect", "ok")
  <2>1. io.connecting
    BY <1>4 DEF ConnectSucceeds
  <2>2. t \in IoType /\ t.queue = io.queue /\ t.armed = io.armed /\ t.connecting = FALSE /\ t.link = "up"
      /\ t.reads = io.reads /\ t.writes = io.writes
    BY <2>1, QueueTyped DEF IoType, Links
  <2>3. io' = Queued(t, c)
    BY <1>4 DEF ConnectSucceeds
  <2>4. c.op = "connect" /\ c.ec = "ok" /\ Live(c) /\ Token(c)
    BY <1>c
  <2> HIDE DEF t, c
  <2>5. Token(c) => NoToken(io) /\ ~t.connecting /\ t.reads = 0 /\ ~h
    BY <1>2, <2>1, <2>2
  <2>6. /\ io.link \in {"up", "connecting"} /\ c.ec # "error"
        /\ ~out => c.op # RECONNECT_TIMER
    BY <1>d, <2>1, <2>4
  <2> QED BY <2>1, <2>2, <2>3, <2>4, <2>5, <2>6, MoreIsOrderly
<1>5. CASE ConnectFails
  <2> DEFINE t == [io EXCEPT !.connecting = FALSE, !.link = "down"]
             c == Completion("connect", "error")
  <2>1. io.connecting
    BY <1>5 DEF ConnectFails
  <2>2. t \in IoType /\ t.queue = io.queue /\ t.armed = io.armed /\ t.connecting = FALSE /\ t.link = "down"
      /\ t.reads = io.reads /\ t.writes = io.writes
    BY <2>1, QueueTyped DEF IoType, Links
  <2>3. io' = Queued(t, c)
    BY <1>5 DEF ConnectFails
  <2>4. c.op = "connect" /\ c.ec = "error" /\ Live(c) /\ Token(c)
    BY <1>c
  <2> HIDE DEF t, c
  <2>5. Token(c) => NoToken(io) /\ ~t.connecting /\ t.reads = 0 /\ ~h
    BY <1>2, <2>1, <2>2
  <2>6. t.link \notin {"up", "connecting"}
    BY <2>2
  <2> QED BY <2>1, <2>2, <2>3, <2>4, <2>5, <2>6, MoreIsOrderly
<1>6. CASE LinkBreaks
  <2>1. io.link = "up" /\ io' = [io EXCEPT !.link = "down"]
    BY <1>6 DEF LinkBreaks
  <2>2. io' \in IoType /\ io'.link = "down" /\ io'.connecting = io.connecting /\ io'.reads = io.reads
        /\ io'.writes = io.writes /\ io'.queue = io.queue
    BY <2>1 DEF IoType, Links
  <2>3. OneUser(io', h) /\ (ToConnect(io') => ~on /\ io'.writes = 0)
    BY <1>1, <2>2 DEF OneUser, NoToken, ToConnect
  <2> QED BY <2>2, <2>3 DEF Orderly
<1>7. CASE DataArrives
  <2> DEFINE t == [io EXCEPT !.reads = @ - 1]
             c == Completion("read", "ok")
  <2>1. io.reads > 0 /\ io.link = "up"
    BY <1>7 DEF DataArrives
  <2>2. t \in IoType /\ t.queue = io.queue /\ t.armed = io.armed /\ t.connecting = io.connecting /\ t.link = io.link
      /\ t.reads = io.reads - 1 /\ t.writes = io.writes
    BY <2>1, QueueTyped DEF IoType, Links
  <2>3. io' = Queued(t, c)
    BY <1>7 DEF DataArrives
  <2>4. c.op = "read" /\ c.ec = "ok" /\ Live(c) /\ Token(c)
    BY <1>c
  <2> HIDE DEF t, c
  <2>5. Token(c) => NoToken(io) /\ ~t.connecting /\ t.reads = 0 /\ ~h
    BY <1>3, <2>1, <2>2
  <2>6. /\ c.ec # "error"
        /\ ~out => c.op # RECONNECT_TIMER
    BY <1>d, <2>4
  <2> QED BY <2>1, <2>2, <2>3, <2>4, <2>5, <2>6, MoreIsOrderly
<1>8. CASE ReadFails
  <2> DEFINE t == [io EXCEPT !.reads = @ - 1]
             c == Completion("read", "error")
  <2>1. io.reads > 0 /\ io.link # "up"
    BY <1>8 DEF ReadFails
  <2>2. t \in IoType /\ t.queue = io.queue /\ t.armed = io.armed /\ t.connecting = io.connecting /\ t.link = io.link
      /\ t.reads = io.reads - 1 /\ t.writes = io.writes
    BY <2>1, QueueTyped DEF IoType, Links
  <2>3. io' = Queued(t, c)
    BY <1>8 DEF ReadFails
  <2>4. c.op = "read" /\ c.ec = "error" /\ Live(c) /\ Token(c)
    BY <1>c
  <2> HIDE DEF t, c
  <2>5. Token(c) => NoToken(io) /\ ~t.connecting /\ t.reads = 0 /\ ~h
    BY <1>3, <2>1, <2>2
  <2>6. t.link \notin {"up", "connecting"}
    BY <1>3, <2>1, <2>2
  <2> QED BY <2>1, <2>2, <2>3, <2>4, <2>5, <2>6, MoreIsOrderly
<1>9. CASE WriteSucceeds
  <2> DEFINE t == [io EXCEPT !.writes = @ - 1]
             c == Completion("write", "ok")
  <2>1. io.writes > 0 /\ io.link = "up"
    BY <1>9 DEF WriteSucceeds
  <2>2. t \in IoType /\ t.queue = io.queue /\ t.armed = io.armed /\ t.connecting = io.connecting /\ t.link = io.link
      /\ t.reads = io.reads /\ t.writes = io.writes - 1
    BY <2>1, QueueTyped DEF IoType, Links
  <2>3. io' = Queued(t, c)
    BY <1>9 DEF WriteSucceeds
  <2>4. c.op = "write" /\ c.ec = "ok" /\ Live(c) /\ ~Token(c)
    BY <1>c
  <2> HIDE DEF t, c
  <2>5. t.writes < io.writes
    BY <2>2, QueueTyped
  <2>6. /\ c.ec # "error"
        /\ ~out => c.op # RECONNECT_TIMER
    BY <1>d, <2>4
  <2> QED BY <2>1, <2>2, <2>3, <2>4, <2>5, <2>6, MoreIsOrderly
<1>10. CASE WriteFails
  <2> DEFINE t == [io EXCEPT !.writes = @ - 1]
             c == Completion("write", "error")
  <2>1. io.writes > 0 /\ io.link # "up"
    BY <1>10 DEF WriteFails
  <2>2. t \in IoType /\ t.queue = io.queue /\ t.armed = io.armed /\ t.connecting = io.connecting /\ t.link = io.link
      /\ t.reads = io.reads /\ t.writes = io.writes - 1
    BY <2>1, QueueTyped DEF IoType, Links
  <2>3. io' = Queued(t, c)
    BY <1>10 DEF WriteFails
  <2>4. c.op = "write" /\ c.ec = "error" /\ Live(c) /\ ~Token(c)
    BY <1>c
  <2> HIDE DEF t, c
  <2>5. t.writes < io.writes
    BY <2>2, QueueTyped
  <2>6. t.link \notin {"up", "connecting"}
    BY <1>2, <2>1, <2>2
  <2> QED BY <2>1, <2>2, <2>3, <2>4, <2>5, <2>6, MoreIsOrderly
<1>11. ASSUME NEW timer \in Timers, TimerExpires(timer) PROVE Orderly(io', h, on, out)
  <2> DEFINE t == [io EXCEPT !.armed = @ \ {timer}]
             c == Completion(timer, "ok")
  <2>1. timer \in io.armed
    BY <1>11 DEF TimerExpires
  <2>2. t \in IoType /\ t.queue = io.queue /\ t.armed \subseteq io.armed /\ t.connecting = io.connecting
        /\ t.link = io.link /\ t.reads = io.reads /\ t.writes = io.writes
    BY DEF IoType
  <2>3. io' = Queued(t, c)
    BY <1>11 DEF TimerExpires
  <2>4. c.op = timer /\ c.ec = "ok" /\ Live(c) /\ ~Token(c) /\ c.op # "connect"
    BY <1>c DEF Timers, RECONNECT_TIMER, HEARTBEAT_TIMER
  <2> HIDE DEF t, c
  <2>5. ASSUME t.link \in {"up", "connecting"}, ~out PROVE c.op # RECONNECT_TIMER
    BY <2>1, <2>2, <2>4, <2>5 DEF Orderly, Healthy
  <2> QED BY <2>2, <2>3, <2>4, <2>5, MoreIsOrderly
<1> QED BY <1>4, <1>5, <1>6, <1>7, <1>8, <1>9, <1>10, <1>11 DEF Environment

\* The handlers, of a session that was in order and stays undisturbed.
LEMMA HandlerIsOrderly ==
  ASSUME TypeOK, Undisturbed, Handler, ~disturbed'
  PROVE  Orderly(io', InHandleRead', loggedOn', loggedOut')
<1> DEFINE h == InHandleRead
           Goal == Orderly(io', InHandleRead', loggedOn', loggedOut')
<1>1. /\ io \in IoType /\ h \in BOOLEAN /\ frames \in Int
      /\ loggedOn \in BOOLEAN /\ loggedOut \in BOOLEAN /\ disturbed \in BOOLEAN
  BY DEF TypeOK, InHandleRead
<1>2. ~disturbed => Orderly(io, h, loggedOn, loggedOut)
  BY DEF Undisturbed
<1>t. TRUE \in BOOLEAN /\ FALSE \in BOOLEAN /\ 0 \in Nat /\ 1 \in Nat
  OBVIOUS
<1>s. ASSUME frames' = frames PROVE InHandleRead' = h
  BY <1>s DEF InHandleRead
<1> HIDE DEF h, Goal
<1>3. ASSUME NEW op, NEW ec, Completed(op, ec)
      PROVE  /\ Taken \in IoType /\ SameSocket(io, Taken) /\ Taken.armed = io.armed
             /\ Shifted(io, Taken, 1)
             /\ \A i \in DOMAIN Taken.queue : i + 1 \in DOMAIN io.queue /\ Taken.queue[i] = io.queue[i + 1]
             /\ 1 \in DOMAIN io.queue /\ Head(io.queue) = io.queue[1]
             /\ io.queue[1].op = op /\ io.queue[1].ec = ec
  BY <1>1, <1>3, TakenFacts, TakenShifts
<1>n. ASSUME Noted
      PROVE  ~disturbed /\ Head(io.queue).current /\ loggedOn' = loggedOn /\ loggedOut' = loggedOut
             /\ Orderly(io, h, loggedOn, loggedOut)
  <2>1. ~disturbed /\ Head(io.queue).current /\ loggedOn' = loggedOn /\ loggedOut' = loggedOut
    BY <1>n DEF Noted
  <2> QED BY <1>2, <2>1
\* Handlers that leave the session as it was, at most with a timer set.
<1>4. CASE Drop \/ HandleWrite
  <2>1. /\ io' = Taken /\ loggedOn' = loggedOn /\ loggedOut' = loggedOut /\ disturbed' = disturbed
        /\ InHandleRead' = h
        /\ \E op, ec : Completed(op, ec)
    BY <1>4, <1>s DEF Drop, HandleWrite, history
  <2>2. Taken \in IoType /\ SameSocket(io, Taken) /\ Taken.armed = io.armed /\ Shifted(io, Taken, 1)
    BY <1>3, <2>1
  <2>3. Orderly(io, h, loggedOn, loggedOut)
    BY <1>2, <2>1
  <2>4. Orderly(Taken, h, loggedOn, loggedOut)
    BY <1>1, <1>t, <2>2, <2>3, LessIsOrderly DEF SameSocket
  <2> QED BY <2>1, <2>4 DEF Goal
<1>5. CASE HandleConnectError \/ HandleReadError \/ HandleWriteError
  <2>1. /\ io' = Abandon(Taken) \/ io' = SetTimer(Taken, RECONNECT_TIMER)
        /\ Noted /\ InHandleRead' = h
    BY <1>5, <1>s DEF HandleConnectError, HandleReadError, HandleWriteError
  <2>2. \E op : op # "" /\ op \in {"connect", "read", "write"} /\ Completed(op, "error")
    BY <1>5 DEF HandleConnectError, HandleReadError, HandleWriteError
  <2>3. PICK op \in {"connect", "read", "write"} : Completed(op, "error")
    BY <2>2
  <2>4. /\ Taken \in IoType /\ SameSocket(io, Taken) /\ Shifted(io, Taken, 1)
        /\ 1 \in DOMAIN io.queue /\ Head(io.queue) = io.queue[1] /\ io.queue[1].ec = "error"
    BY <1>3, <2>3
  <2>5. io' \in IoType /\ SameSocket(Taken, io') /\ Shifted(Taken, io', 0)
    BY <2>1, <2>4, TimersAre, AbandonFacts, AbandonShifts, SetTimerFacts, SetTimerShifts
  <2>6. Shifted(io, io', 1) /\ SameSocket(io, io')
    BY <1>1, <1>t, <2>4, <2>5, ShiftsCompose DEF SameSocket
  <2>7. /\ Head(io.queue).current /\ loggedOn' = loggedOn /\ loggedOut' = loggedOut
        /\ Orderly(io, h, loggedOn, loggedOut)
    BY <1>n, <2>1
  <2>8. io.link \notin {"up", "connecting"}
    BY <2>4, <2>7 DEF Orderly, Live
  <2>9. Orderly(io', h, loggedOn, loggedOut)
    BY <1>1, <1>t, <2>5, <2>6, <2>7, <2>8, LessIsOrderly DEF SameSocket
  <2> QED BY <2>1, <2>7, <2>9 DEF Goal
<1>6. CASE ReconnectUnresolved
  <2>1. /\ io' = SetTimer(CancelTimer(Taken, RECONNECT_TIMER), RECONNECT_TIMER)
        /\ Noted /\ InHandleRead' = h /\ Completed(RECONNECT_TIMER, "ok")
    BY <1>6, <1>s DEF ReconnectUnresolved
  <2>2. /\ Taken \in IoType /\ SameSocket(io, Taken) /\ Shifted(io, Taken, 1)
        /\ 1 \in DOMAIN io.queue /\ Head(io.queue) = io.queue[1]
        /\ io.queue[1].op = RECONNECT_TIMER /\ io.queue[1].ec = "ok"
    BY <1>3, <2>1
  <2> DEFINE s == CancelTimer(Taken, RECONNECT_TIMER)
  <2>3. s \in IoType /\ SameSocket(Taken, s) /\ Shifted(Taken, s, 0)
    BY <2>2, TimersAre, CancelTimerFacts, CancelTimerShifts
  <2>4. io' = SetTimer(s, RECONNECT_TIMER)
    BY <2>1
  <2> HIDE DEF s
  <2>5. io' \in IoType /\ SameSocket(s, io') /\ Shifted(s, io', 0)
    BY <2>3, <2>4, TimersAre, SetTimerFacts, SetTimerShifts
  <2>6. Shifted(io, s, 1)
    BY <1>1, <1>t, <2>2, <2>3, ShiftsCompose
  <2>7. Shifted(io, io', 1) /\ SameSocket(io, io')
    BY <1>1, <1>t, <2>2, <2>3, <2>5, <2>6, ShiftsCompose DEF SameSocket
  <2>8. /\ Head(io.queue).current /\ loggedOn' = loggedOn /\ loggedOut' = loggedOut
        /\ Orderly(io, h, loggedOn, loggedOut)
    BY <1>n, <2>1
  <2>9. io.link \in {"up", "connecting"} => loggedOut
    BY <2>2, <2>8 DEF Orderly, Live, Healthy
  <2>10. Orderly(io', h, loggedOn, loggedOut)
    BY <1>1, <1>t, <2>5, <2>7, <2>8, <2>9, LessIsOrderly DEF SameSocket
  <2> QED BY <2>1, <2>8, <2>10 DEF Goal
<1>7. ASSUME NEW sends \in BOOLEAN, Heartbeat(sends) PROVE Goal
  <2>1. /\ Completed(HEARTBEAT_TIMER, "ok") /\ InHandleRead' = h
        /\ ~disturbed /\ loggedOn /\ loggedOn' = loggedOn /\ loggedOut' = loggedOut
    BY <1>7, <1>s DEF Heartbeat
  <2>2. Taken \in IoType /\ SameSocket(io, Taken) /\ Taken.armed = io.armed /\ Shifted(io, Taken, 1)
    BY <1>3, <2>1
  <2> DEFINE s == SetTimer(Taken, HEARTBEAT_TIMER)
  <2>3. s \in IoType /\ SameSocket(Taken, s) /\ s.armed = Taken.armed \cup {HEARTBEAT_TIMER}
        /\ Shifted(Taken, s, 0)
    BY <2>2, TimersAre, SetTimerFacts, SetTimerShifts
  <2>4. io' = s \/ io' = AsyncWrite(s)
    BY <1>7 DEF Heartbeat, Send
  <2> HIDE DEF s
  <2>5. Shifted(io, s, 1)
    BY <1>1, <1>t, <2>2, <2>3, ShiftsCompose
  <2>6. AsyncWrite(s) \in IoType /\ AsyncWrite(s).reads = s.reads /\ AsyncWrite(s).link = s.link
        /\ AsyncWrite(s).connecting = s.connecting
        /\ AsyncWrite(s).armed = s.armed /\ AsyncWrite(s).queue = s.queue
    BY <2>3, SendTyped
  <2>7. /\ io' \in IoType /\ io'.link = io.link /\ io'.connecting = io.connecting /\ io'.reads = io.reads
        /\ io'.armed = io.armed \cup {HEARTBEAT_TIMER} /\ Shifted(io, io', 1)
    BY <2>2, <2>3, <2>4, <2>5, <2>6 DEF SameSocket, Shifted
  <2>8. Orderly(io, h, loggedOn, loggedOut)
    BY <1>2, <2>1
  <2>9. RECONNECT_TIMER \in io'.armed => RECONNECT_TIMER \in io.armed
    BY <2>7, TimersAre
  <2>a. (io'.writes = io.writes \/ loggedOn) /\ (loggedOn => loggedOn \/ h) /\ (loggedOut => loggedOut)
    BY <2>1
  <2>10. Orderly(io', h, loggedOn, loggedOut)
    BY <1>1, <1>t, <2>a, <2>7, <2>8, <2>9, LessIsOrderly
  <2> QED BY <2>1, <2>10 DEF Goal
<1>8. CASE HandleConnect
  <2>1. /\ Completed("connect", "ok") /\ Noted /\ InHandleRead' = h
        /\ io' = AsyncRead(AsyncWrite(Taken))
    BY <1>8, <1>s DEF HandleConnect, Send
  <2>2. /\ Head(io.queue).current /\ loggedOn' = loggedOn /\ loggedOut' = loggedOut
        /\ Orderly(io, h, loggedOn, loggedOut)
    BY <1>n, <2>1
  <2>3. /\ ~io.connecting /\ io.reads = 0 /\ ~h
        /\ NoToken(Taken)
        /\ \A i \in DOMAIN Taken.queue : ~(Live(Taken.queue[i]) /\ Taken.queue[i].op = "connect")
    BY <1>1, <2>1, <2>2, TokenTaken DEF Orderly
  <2>4. /\ Taken \in IoType /\ SameSocket(io, Taken) /\ Taken.armed = io.armed /\ Shifted(io, Taken, 1)
    BY <1>3, <2>1
  <2>5. io'.link = io.link /\ io'.connecting = io.connecting /\ io'.reads = 1 /\ io'.armed = io.armed
        /\ io'.queue = Taken.queue
    BY <2>1, <2>3, <2>4 DEF SameSocket, AsyncRead, AsyncWrite, IoType
  <2>6. OneUser(io', h) /\ ~ToConnect(io')
    BY <2>3, <2>5 DEF OneUser, NoToken, ToConnect
  <2>7. ASSUME io'.link \in {"up", "connecting"}
        PROVE  /\ \A i \in DOMAIN io'.queue : Live(io'.queue[i]) => io'.queue[i].ec # "error"
               /\ ~loggedOut => Healthy(io')
    <3>1. /\ \A i \in DOMAIN io.queue : Live(io.queue[i]) => io.queue[i].ec # "error"
          /\ ~loggedOut => Healthy(io)
      BY <2>2, <2>5, <2>7 DEF Orderly
    <3>2. \A i \in DOMAIN io'.queue : Live(io'.queue[i]) => io'.queue[i].ec # "error"
      BY <2>4, <2>5, <3>1 DEF Shifted
    <3>3. ~loggedOut => Healthy(io')
      BY <2>4, <2>5, <3>1 DEF Shifted, Healthy
    <3> QED BY <3>2, <3>3
  <2>8. Orderly(io', h, loggedOn, loggedOut)
    BY <2>6, <2>7 DEF Orderly
  <2> QED BY <2>1, <2>2, <2>8 DEF Goal
<1>9. CASE NoDelayFails
  <2>1. /\ io' = [Idle EXCEPT !.link = "null"] /\ InHandleRead' = FALSE
    BY <1>9 DEF NoDelayFails, InHandleRead
  <2>2. io'.link = "null" /\ io'.connecting = FALSE /\ io'.reads = 0 /\ io'.writes = 0 /\ io'.queue = <<>>
    BY <2>1 DEF Idle
  <2>3. DOMAIN io'.queue = {}
    BY <2>2
  <2>4. OneUser(io', InHandleRead') /\ ~ToConnect(io')
    BY <2>1, <2>2, <2>3 DEF OneUser, NoToken, ToConnect
  <2> QED BY <2>2, <2>4 DEF Goal, Orderly
<1>10. CASE HandleRead
  <2>1. /\ Completed("read", "ok") /\ Noted /\ io' = Taken /\ InHandleRead' = TRUE
    BY <1>10, SessionAssumption DEF HandleRead, InHandleRead, SessionAssumption
  <2>2. /\ Head(io.queue).current /\ loggedOn' = loggedOn /\ loggedOut' = loggedOut
        /\ Orderly(io, h, loggedOn, loggedOut)
    BY <1>n, <2>1
  <2>3. /\ ~io.connecting /\ io.reads = 0 /\ ~h
        /\ NoToken(Taken)
        /\ \A i \in DOMAIN Taken.queue : ~(Live(Taken.queue[i]) /\ Taken.queue[i].op = "connect")
    BY <1>1, <2>1, <2>2, TokenTaken DEF Orderly
  <2>4. /\ Taken \in IoType /\ SameSocket(io, Taken) /\ Taken.armed = io.armed /\ Shifted(io, Taken, 1)
    BY <1>3, <2>1
  <2>5. OneUser(Taken, TRUE) /\ ~ToConnect(Taken)
    BY <2>3, <2>4 DEF OneUser, NoToken, ToConnect, SameSocket
  <2>6. Orderly(Taken, h, loggedOn, loggedOut)
    BY <1>1, <1>t, <2>2, <2>4, LessIsOrderly DEF SameSocket
  <2>7. Orderly(Taken, TRUE, loggedOn, loggedOut)
    BY <2>5, <2>6 DEF Orderly
  <2> QED BY <2>1, <2>2, <2>7 DEF Goal
<1>11. ASSUME NEW message \in {"logon", "logout", "other"}, HandleMessage(message) PROVE Goal
  <2>1. h = TRUE /\ InHandleRead' = TRUE /\ disturbed' = disturbed
    BY <1>1, <1>11 DEF HandleMessage, InHandleRead, h
  <2>2. Orderly(io, h, loggedOn, loggedOut)
    BY <1>2, <2>1
  <2>3. CASE message = "logon"
    <3>1. io' = SetTimer(io, HEARTBEAT_TIMER) /\ loggedOn' = TRUE /\ loggedOut' = loggedOut
      BY <1>11, <2>3 DEF HandleMessage
    <3>2. /\ io' \in IoType /\ SameSocket(io, io') /\ Shifted(io, io', 0)
          /\ (RECONNECT_TIMER \in io'.armed => RECONNECT_TIMER \in io.armed)
      BY <1>1, <3>1, TimersAre, SetTimerFacts, SetTimerShifts
    <3>a. /\ io'.link = io.link /\ io'.connecting = io.connecting /\ io'.reads = io.reads
          /\ io'.writes = io.writes \/ loggedOn
          /\ loggedOn' => loggedOn \/ h
          /\ loggedOut => loggedOut'
          /\ loggedOn' \in BOOLEAN /\ loggedOut' \in BOOLEAN
      BY <1>1, <2>1, <3>1, <3>2 DEF SameSocket
    <3>3. Orderly(io', h, loggedOn', loggedOut')
      BY <1>1, <1>t, <2>2, <3>2, <3>a, LessIsOrderly
    <3> QED BY <2>1, <3>3 DEF Goal
  <2>4. CASE message = "logout"
    <3>1. io' = Abandon(io) /\ loggedOut' = TRUE /\ loggedOn' = loggedOn
      BY <1>11, <2>4 DEF HandleMessage
    <3>2. io' \in IoType /\ SameSocket(io, io') /\ Shifted(io, io', 0)
      BY <1>1, <3>1, AbandonFacts, AbandonShifts
    <3>a. /\ io'.link = io.link /\ io'.connecting = io.connecting /\ io'.reads = io.reads
          /\ io'.writes = io.writes \/ loggedOn
          /\ loggedOn' => loggedOn \/ h
          /\ loggedOut => loggedOut'
          /\ loggedOn' \in BOOLEAN /\ loggedOut' \in BOOLEAN
      BY <1>1, <3>1, <3>2 DEF SameSocket
    <3>b. io.link \in {"up", "connecting"} /\ ~loggedOut' /\ RECONNECT_TIMER \in io'.armed
            => RECONNECT_TIMER \in io.armed
      BY <3>1
    <3>3. Orderly(io', h, loggedOn', loggedOut')
      BY <1>1, <1>t, <2>2, <3>2, <3>a, <3>b, LessIsOrderly
    <3> QED BY <2>1, <3>3 DEF Goal
  <2>5. CASE message = "other"
    BY <1>11, <2>1, <2>2, <2>5 DEF HandleMessage, Goal
  <2> QED BY <2>3, <2>4, <2>5
<1>12. CASE DoRead
  <2>1. h = TRUE /\ InHandleRead' = FALSE /\ io' = AsyncRead(io)
        /\ loggedOn' = loggedOn /\ loggedOut' = loggedOut /\ disturbed' = disturbed
    BY <1>1, <1>12 DEF DoRead, InHandleRead, h, history
  <2>2. Orderly(io, h, loggedOn, loggedOut)
    BY <1>2, <2>1
  <2>3. NoToken(io) /\ io.connecting = FALSE /\ io.reads = 0
    BY <1>1, <2>1, <2>2, QueueTyped DEF Orderly, OneUser
  <2>4. io'.link = io.link /\ io'.connecting = FALSE /\ io'.reads = 1 /\ io'.writes = io.writes
        /\ io'.armed = io.armed /\ io'.queue = io.queue
    BY <1>1, <2>1, <2>3 DEF AsyncRead, IoType
  <2>5. OneUser(io', FALSE) /\ ~ToConnect(io')
    BY <2>3, <2>4 DEF OneUser, NoToken, ToConnect, Token
  <2>6. Orderly(io', FALSE, loggedOn, loggedOut)
    BY <2>2, <2>4, <2>5 DEF Orderly, Healthy
  <2> QED BY <2>1, <2>6 DEF Goal
<1>13. CASE Reconnect
  <2> DEFINE s == CancelTimer(Taken, RECONNECT_TIMER)
  <2>1. /\ io' = AsyncConnect(s) /\ InHandleRead' = FALSE
        /\ loggedOn' = FALSE /\ loggedOut' = FALSE
        /\ Completed(RECONNECT_TIMER, "ok")
    BY <1>13 DEF Reconnect, InHandleRead
  <2>2. Taken \in IoType
    BY <1>3, <2>1
  <2>3. s \in IoType /\ RECONNECT_TIMER \notin s.armed
    BY <2>2, TimersAre, CancelTimerFacts
  <2> HIDE DEF s
  <2>4. Orderly(io', FALSE, FALSE, FALSE)
    BY <2>1, <2>3, NewIsOrderly
  <2> QED BY <2>1, <2>4 DEF Goal
<1>14. Goal
  BY <1>4, <1>5, <1>6, <1>7, <1>8, <1>9, <1>10, <1>11, <1>12, <1>13 DEF Handler, Goal
<1> QED BY <1>14 DEF Goal

-----------------------------------------------------------------------------
LEMMA InitUndisturbed == Init => Undisturbed
<1> SUFFICES ASSUME Init PROVE Orderly(io, InHandleRead, loggedOn, loggedOut)
  BY DEF Undisturbed
<1>1. InHandleRead = FALSE /\ loggedOn = FALSE /\ loggedOut = FALSE
  BY DEF Init, InHandleRead
<1>2. Idle \in IoType /\ Idle.connecting = FALSE /\ Idle.reads = 0 /\ Idle.writes = 0 /\ Idle.armed = {}
      /\ Idle.queue = <<>> /\ Idle.link = "closed"
  BY IdleTyped DEF Idle
<1>3. CASE io = AsyncConnect(Idle)
  BY <1>1, <1>2, <1>3, NewIsOrderly
<1>4. CASE io = SetTimer(Idle, RECONNECT_TIMER)
  <2>1. SameSocket(Idle, io) /\ io \in IoType
    BY <1>2, <1>4, TimersAre, SetTimerFacts
  <2>2. Shifted(Idle, io, 0)
    BY <1>2, <1>4, TimersAre, SetTimerShifts
  <2>3. \A i \in DOMAIN io.queue : ~Live(io.queue[i])
    BY <1>2, <2>2 DEF Shifted
  <2>4. io.connecting = FALSE /\ io.reads = 0 /\ io.writes = 0 /\ io.link = "closed"
    BY <1>2, <2>1 DEF SameSocket
  <2>5. OneUser(io, FALSE) /\ ~ToConnect(io)
    BY <2>3, <2>4 DEF OneUser, NoToken, Token, ToConnect
  <2> QED BY <1>1, <2>4, <2>5 DEF Orderly
<1> QED BY <1>3, <1>4 DEF Init

LEMMA NextUndisturbed == TypeOK /\ Undisturbed /\ [Next]_vars => Undisturbed'
<1> SUFFICES ASSUME TypeOK, Undisturbed, [Next]_vars, ~disturbed'
             PROVE  Orderly(io', InHandleRead', loggedOn', loggedOut')
  BY DEF Undisturbed
<1>1. CASE Handler
  BY <1>1, HandlerIsOrderly
<1>2. CASE Environment /\ UNCHANGED <<frames, history>>
  <2>1. /\ io \in IoType /\ (io.connecting <=> io.link = "connecting")
        /\ InHandleRead \in BOOLEAN /\ loggedOn \in BOOLEAN /\ loggedOut \in BOOLEAN
    BY DEF TypeOK, InHandleRead
  <2>2. /\ InHandleRead' = InHandleRead /\ loggedOn' = loggedOn /\ loggedOut' = loggedOut
        /\ disturbed' = disturbed
    BY <1>2 DEF InHandleRead, history
  <2>3. Orderly(io, InHandleRead, loggedOn, loggedOut)
    BY <2>2 DEF Undisturbed
  <2>4. Orderly(io', InHandleRead, loggedOn, loggedOut)
    BY <1>2, <2>1, <2>3, EventIsOrderly
  <2> QED BY <2>2, <2>4
<1>3. CASE UNCHANGED vars
  <2>1. /\ InHandleRead' = InHandleRead /\ loggedOn' = loggedOn /\ loggedOut' = loggedOut
        /\ disturbed' = disturbed /\ io' = io
    BY <1>3 DEF InHandleRead, history, vars
  <2> QED BY <2>1 DEF Undisturbed
<1> QED BY <1>1, <1>2, <1>3 DEF Next

LEMMA SpecUndisturbed == Spec => [](IInv /\ Undisturbed)
<1>1. Init => IInv /\ Undisturbed
  BY InitHolds, InitUndisturbed DEF IInv
<1>2. IInv /\ Undisturbed /\ [Next]_vars => (IInv /\ Undisturbed)'
  BY NextIInv, NextUndisturbed DEF IInv
<1> QED BY <1>1, <1>2, PTL DEF Spec

\* The handlers that take a completion and start nothing new.
TakesOne ==
  \/ Drop \/ HandleConnectError \/ HandleRead \/ HandleReadError
  \/ HandleWrite \/ HandleWriteError
  \/ ReconnectUnresolved
  \/ \E sends \in BOOLEAN : Heartbeat(sends)

LEMMA TakesOneFacts ==
  ASSUME io \in IoType, TakesOne
  PROVE  /\ io'.link = io.link /\ io'.connecting = io.connecting
         /\ Shifted(io, io', 1) /\ Keeps(Taken, io')
         /\ \E op, ec : Completed(op, ec) /\ (op = "connect" => ec \in {"error", "aborted"})
<1> DEFINE Goal == /\ io'.link = io.link /\ io'.connecting = io.connecting
                   /\ Shifted(io, io', 1) /\ Keeps(Taken, io')
<1>1. 0 \in Nat /\ 1 \in Nat
  OBVIOUS
<1>2. PICK op, ec : Completed(op, ec) /\ (op = "connect" => ec \in {"error", "aborted"})
  BY DEF TakesOne, Drop, HandleConnectError, HandleRead, HandleReadError, HandleWrite, HandleWriteError,
         ReconnectUnresolved, Heartbeat, RECONNECT_TIMER, HEARTBEAT_TIMER
<1>3. Taken \in IoType /\ SameSocket(io, Taken) /\ Shifted(io, Taken, 1)
  BY <1>2, TakenFacts, TakenShifts
<1>4. ASSUME NEW t \in IoType, SameSocket(Taken, t), Shifted(Taken, t, 0), Keeps(Taken, t), io' = t
      PROVE  Goal
  <2>1. Shifted(io, t, 1)
    BY <1>1, <1>3, <1>4, ShiftsCompose
  <2> QED BY <1>3, <1>4, <2>1 DEF SameSocket
<1>5. ASSUME Drop \/ HandleRead \/ HandleWrite PROVE Goal
  <2>1. io' = Taken
    BY <1>5 DEF Drop, HandleRead, HandleWrite
  <2>2. Keeps(Taken, Taken)
    BY DEF Keeps
  <2> QED BY <1>3, <2>1, <2>2 DEF SameSocket
<1>6. ASSUME HandleConnectError \/ HandleReadError \/ HandleWriteError PROVE Goal
  <2>1. io' = Abandon(Taken) \/ io' = SetTimer(Taken, RECONNECT_TIMER)
    BY <1>6 DEF HandleConnectError, HandleReadError, HandleWriteError
  <2>2. io' \in IoType /\ SameSocket(Taken, io') /\ Shifted(Taken, io', 0) /\ Keeps(Taken, io')
    BY <1>3, <2>1, TimersAre, AbandonFacts, AbandonShifts, SetTimerFacts, SetTimerShifts
  <2> QED BY <1>4, <2>2
<1>7. ASSUME ReconnectUnresolved PROVE Goal
  <2> DEFINE s == CancelTimer(Taken, RECONNECT_TIMER)
  <2>1. s \in IoType /\ SameSocket(Taken, s) /\ Shifted(Taken, s, 0) /\ Keeps(Taken, s)
    BY <1>3, TimersAre, CancelTimerFacts, CancelTimerShifts
  <2>2. io' = SetTimer(s, RECONNECT_TIMER)
    BY <1>7 DEF ReconnectUnresolved
  <2> HIDE DEF s
  <2>3. io' \in IoType /\ SameSocket(s, io') /\ Shifted(s, io', 0) /\ Keeps(s, io')
    BY <2>1, <2>2, TimersAre, SetTimerFacts, SetTimerShifts
  <2>4. SameSocket(Taken, io') /\ Shifted(Taken, io', 0) /\ Keeps(Taken, io')
    BY <1>1, <1>3, <2>1, <2>3, ShiftsCompose DEF SameSocket, Keeps
  <2> QED BY <1>4, <2>3, <2>4
<1>8. ASSUME NEW sends \in BOOLEAN, Heartbeat(sends) PROVE Goal
  <2> DEFINE s == SetTimer(Taken, HEARTBEAT_TIMER)
  <2>1. s \in IoType /\ SameSocket(Taken, s) /\ Shifted(Taken, s, 0) /\ Keeps(Taken, s)
    BY <1>3, TimersAre, SetTimerFacts, SetTimerShifts
  <2>2. io' = s \/ io' = AsyncWrite(s)
    BY <1>8 DEF Heartbeat, Send
  <2> HIDE DEF s
  <2>3. CASE io' = s
    BY <1>4, <2>1, <2>3
  <2>4. CASE io' = AsyncWrite(s)
    <3>1. io'.link = s.link /\ io'.connecting = s.connecting /\ io'.queue = s.queue
      BY <2>1, <2>4, SendTyped
    <3>2. Shifted(io, s, 1)
      BY <1>1, <1>3, <2>1, ShiftsCompose
    <3> QED BY <1>3, <2>1, <3>1, <3>2 DEF SameSocket, Shifted, Keeps
  <2> QED BY <2>2, <2>3, <2>4
<1>9. Goal
  BY <1>5, <1>6, <1>7, <1>8 DEF TakesOne
<1> QED BY <1>2, <1>9

\* Only handleConnect ends the time before the logon, or else the connection
\* is not up; and only a new connection starts it.
Steady ==
  \/ TakesOne \/ DoRead
  \/ \E message \in {"logon", "logout", "other"} : HandleMessage(message)
  \/ Environment /\ UNCHANGED <<frames, history>>

LEMMA ConnectStays ==
  ASSUME TypeOK, Undisturbed, ~disturbed', Steady
  PROVE  /\ ~disturbed
         /\ ToConnect(io') => ToConnect(io)
         /\ io'.link = "up" /\ ToConnect(io) => ToConnect(io')
<1> DEFINE Goal == /\ ToConnect(io') => ToConnect(io)
                   /\ io'.link = "up" /\ ToConnect(io) => ToConnect(io')
<1>1. io \in IoType /\ (io.connecting <=> io.link = "connecting") /\ disturbed \in BOOLEAN
  BY DEF TypeOK
<1>2. ~disturbed
  <2>1. CASE DoRead
    BY <2>1 DEF DoRead, history
  <2>4. CASE Environment /\ UNCHANGED <<frames, history>>
    BY <2>4 DEF history
  <2>2. ASSUME NEW message \in {"logon", "logout", "other"}, HandleMessage(message) PROVE ~disturbed
    BY <2>2 DEF HandleMessage
  <2>3. CASE TakesOne
    BY <2>3 DEF TakesOne, Drop, HandleConnectError, HandleRead, HandleReadError, HandleWrite,
                HandleWriteError, ReconnectUnresolved, Heartbeat, Noted, history
  <2> QED BY <2>1, <2>2, <2>3, <2>4, Zenon DEF Steady
<1>3. Orderly(io, InHandleRead, loggedOn, loggedOut)
  BY <1>2 DEF Undisturbed
<1>4. ASSUME TakesOne PROVE Goal
  <2>1. /\ io'.link = io.link /\ io'.connecting = io.connecting
        /\ Shifted(io, io', 1) /\ Keeps(Taken, io')
    BY <1>1, <1>4, TakesOneFacts
  <2>2. PICK op, ec : Completed(op, ec) /\ (op = "connect" => ec \in {"error", "aborted"})
    BY <1>1, <1>4, TakesOneFacts
  <2>3. ToConnect(io') => ToConnect(io)
    BY <2>1 DEF ToConnect, Shifted
  <2>4. ASSUME io'.link = "up", ToConnect(io) PROVE ToConnect(io')
    <3>1. PICK i \in DOMAIN io.queue : Live(io.queue[i]) /\ io.queue[i].op = "connect"
      BY <1>1, <2>1, <2>4 DEF ToConnect
    <3>2. /\ io.queue[1].op = op /\ io.queue[1].ec = ec
          /\ i # 1 => \E j \in DOMAIN Taken.queue : Taken.queue[j] = io.queue[i]
      BY <1>1, <2>2, TakenShifts
    <3>3. io.queue[i].ec # "error"
      BY <1>3, <2>1, <2>4, <3>1 DEF Orderly
    <3>4. i # 1
      BY <2>2, <3>1, <3>2, <3>3 DEF Live
    <3>5. \E j \in DOMAIN io'.queue : io'.queue[j] = io.queue[i]
      BY <2>1, <3>2, <3>4 DEF Keeps
    <3> QED BY <3>1, <3>5 DEF ToConnect
  <2> QED BY <2>3, <2>4
<1>5. ASSUME DoRead \/ \E message \in {"logon", "logout", "other"} : HandleMessage(message)
      PROVE  Goal
  <2>1. io' \in {AsyncRead(io), SetTimer(io, HEARTBEAT_TIMER), Abandon(io), io}
    BY <1>5 DEF DoRead, HandleMessage
  <2>2. io'.connecting = io.connecting /\ Shifted(io, io', 0) /\ Keeps(io, io')
    <3>1. Shifted(io, io, 0) /\ Keeps(io, io)
      BY <1>1, QueueTyped DEF Shifted, Keeps
    <3>2. AsyncRead(io).connecting = io.connecting /\ AsyncRead(io).queue = io.queue
      BY <1>1, SendTyped
    <3>3. Shifted(io, AsyncRead(io), 0) /\ Keeps(io, AsyncRead(io))
      BY <3>1, <3>2 DEF Shifted, Keeps
    <3>4. \A t \in {SetTimer(io, HEARTBEAT_TIMER), Abandon(io)} :
            t.connecting = io.connecting /\ Shifted(io, t, 0) /\ Keeps(io, t)
      BY <1>1, TimersAre, SetTimerFacts, SetTimerShifts, AbandonFacts, AbandonShifts DEF SameSocket
    <3> QED BY <2>1, <3>1, <3>2, <3>3, <3>4
  <2>3. ToConnect(io') => ToConnect(io)
    BY <2>2 DEF ToConnect, Shifted
  <2>4. ToConnect(io) => ToConnect(io')
    BY <2>2 DEF ToConnect, Keeps
  <2> QED BY <2>3, <2>4
<1>6. ASSUME Environment PROVE Goal
  <2>1. CASE LinkBreaks
    <3>1. io'.queue = io.queue /\ io'.connecting = io.connecting
      BY <1>1, <2>1 DEF LinkBreaks, IoType
    <3> QED BY <3>1 DEF ToConnect
  <2>2. ASSUME NEW t \in IoType, t.queue = io.queue, NEW c, io' = Queued(t, c),
               \/ t.connecting = io.connecting /\ c.op # "connect"
               \/ io.connecting /\ ~t.connecting /\ Live(c) /\ c.op = "connect"
        PROVE  Goal
    <3>1. /\ Queued(t, c).queue = Append(io.queue, c)
          /\ DOMAIN Append(io.queue, c) = 1..(Len(io.queue) + 1)
          /\ DOMAIN io.queue = 1..Len(io.queue) /\ Len(io.queue) \in Nat
          /\ \A i \in DOMAIN io.queue : Append(io.queue, c)[i] = io.queue[i]
          /\ Append(io.queue, c)[Len(io.queue) + 1] = c
      BY <2>2, AddedFacts
    <3>2. Queued(t, c).connecting = t.connecting
      BY <2>2, QueuedConnecting
    <3>a. io'.queue = Append(io.queue, c)
      BY <2>2, <3>1
    <3>3. /\ \A i \in DOMAIN io'.queue : \/ i \in DOMAIN io.queue /\ io'.queue[i] = io.queue[i]
                                         \/ i = Len(io.queue) + 1 /\ io'.queue[i] = c
          /\ io'.link = t.link /\ io'.connecting = t.connecting /\ io'.armed = t.armed
          /\ io'.reads = t.reads /\ io'.writes = t.writes
      BY <2>2, EventAdds
    <3>4. \A i \in DOMAIN io.queue : i \in DOMAIN io'.queue /\ io'.queue[i] = io.queue[i]
      BY <3>1, <3>a
    <3>5. Len(io.queue) + 1 \in DOMAIN io'.queue /\ io'.queue[Len(io.queue) + 1] = c
      BY <3>1, <3>a
    <3>6. ToConnect(io') => ToConnect(io)
      BY <2>2, <3>2, <3>3 DEF ToConnect
    <3>7. ToConnect(io) => ToConnect(io')
      BY <2>2, <3>2, <3>4, <3>5 DEF ToConnect
    <3> QED BY <3>6, <3>7
  <2>c. \A op, ec : Completion(op, ec).op = op /\ (ec # "aborted" => Live(Completion(op, ec)))
    BY DEF Completion, Live
  <2>3. CASE ConnectSucceeds
    <3> DEFINE t == [io EXCEPT !.connecting = FALSE, !.link = "up"]
    <3>1. t \in IoType /\ t.queue = io.queue /\ ~t.connecting
      BY <1>1 DEF IoType, Links
    <3>2. io.connecting /\ io' = Queued(t, Completion("connect", "ok"))
      BY <2>3 DEF ConnectSucceeds
    <3> HIDE DEF t
    <3> QED BY <2>2, <2>c, <3>1, <3>2
  <2>4. CASE ConnectFails
    <3> DEFINE t == [io EXCEPT !.connecting = FALSE, !.link = "down"]
    <3>1. t \in IoType /\ t.queue = io.queue /\ ~t.connecting
      BY <1>1 DEF IoType, Links
    <3>2. io.connecting /\ io' = Queued(t, Completion("connect", "error"))
      BY <2>4 DEF ConnectFails
    <3> HIDE DEF t
    <3> QED BY <2>2, <2>c, <3>1, <3>2
  <2>5. CASE DataArrives \/ ReadFails
    <3> DEFINE t == [io EXCEPT !.reads = @ - 1]
    <3>1. t \in IoType /\ t.queue = io.queue /\ t.connecting = io.connecting
      BY <1>1, <2>5 DEF IoType, DataArrives, ReadFails
    <3>2. PICK ec : io' = Queued(t, Completion("read", ec))
      BY <2>5 DEF DataArrives, ReadFails
    <3> HIDE DEF t
    <3> QED BY <2>2, <2>c, <3>1, <3>2
  <2>6. CASE WriteSucceeds \/ WriteFails
    <3> DEFINE t == [io EXCEPT !.writes = @ - 1]
    <3>1. t \in IoType /\ t.queue = io.queue /\ t.connecting = io.connecting
      BY <1>1, <2>6 DEF IoType, WriteSucceeds, WriteFails
    <3>2. PICK ec : io' = Queued(t, Completion("write", ec))
      BY <2>6 DEF WriteSucceeds, WriteFails
    <3> HIDE DEF t
    <3> QED BY <2>2, <2>c, <3>1, <3>2
  <2>7. ASSUME NEW timer \in Timers, TimerExpires(timer) PROVE Goal
    <3> DEFINE t == [io EXCEPT !.armed = @ \ {timer}]
    <3>1. t \in IoType /\ t.queue = io.queue /\ t.connecting = io.connecting
      BY <1>1 DEF IoType
    <3>2. io' = Queued(t, Completion(timer, "ok"))
      BY <2>7 DEF TimerExpires
    <3>3. timer # "connect"
      BY DEF Timers, RECONNECT_TIMER, HEARTBEAT_TIMER
    <3> HIDE DEF t
    <3> QED BY <2>2, <2>c, <3>1, <3>2, <3>3
  <2> QED BY <1>6, <2>1, <2>3, <2>4, <2>5, <2>6, <2>7 DEF Environment
<1> QED BY <1>2, <1>4, <1>5, <1>6 DEF Steady

\* handleConnect ends the time before the logon.
LEMMA ConnectEnds ==
  ASSUME TypeOK, Undisturbed, ~disturbed', HandleConnect
  PROVE  ~disturbed /\ ToConnect(io) /\ ~ToConnect(io')
<1>1. io \in IoType /\ disturbed \in BOOLEAN
  BY DEF TypeOK
<1>2. Completed("connect", "ok") /\ io' = AsyncRead(AsyncWrite(Taken))
  BY DEF HandleConnect, Send
<1>3. ~disturbed /\ Head(io.queue).current
  BY DEF HandleConnect, Noted
<1>4. 1 \in DOMAIN io.queue /\ Head(io.queue) = io.queue[1]
      /\ io.queue[1].op = "connect" /\ io.queue[1].ec = "ok"
  BY <1>1, <1>2, TakenShifts
<1>5. ToConnect(io)
  BY <1>3, <1>4 DEF ToConnect, Live
<1>6. OneUser(io, InHandleRead)
  BY <1>3 DEF Undisturbed, Orderly
<1>7. /\ ~io.connecting
      /\ \A i \in DOMAIN Taken.queue : ~(Live(Taken.queue[i]) /\ Taken.queue[i].op = "connect")
  BY <1>1, <1>2, <1>3, <1>6, TokenTaken
<1>8. Taken \in IoType /\ SameSocket(io, Taken)
  BY <1>1, <1>2, TakenFacts
<1>9. io'.connecting = Taken.connecting /\ io'.queue = Taken.queue
  BY <1>2, <1>8, SendTyped
<1> QED BY <1>3, <1>5, <1>7, <1>8, <1>9 DEF ToConnect, SameSocket

\* A heartbeat is sent after the logon.
LEMMA HeartbeatsFollow ==
  ASSUME TypeOK, Undisturbed, ~disturbed', NEW sends \in BOOLEAN, Heartbeat(sends)
  PROVE  ~ToConnect(io)
<1>1. ~disturbed /\ loggedOn
  BY DEF Heartbeat, TypeOK
<1> QED BY <1>1 DEF Undisturbed, Orderly

(* While nothing of an earlier connection was handled inputBuffer_ has one  *)
(* user: doRead is only called where no read is outstanding or about to be  *)
(* handled (szBinary_input_service.cpp:82-125, socket_t.cpp:172-191).       *)
THEOREM BufferHasOneUser == Spec => []InputBufferHasOneUser
<1> DEFINE done == {i \in DOMAIN io.queue :
                      io.queue[i].op = "read" /\ io.queue[i].ec # "aborted" /\ io.queue[i].current}
<1>1. TypeOK /\ Undisturbed => InputBufferHasOneUser
  <2> SUFFICES ASSUME TypeOK, Undisturbed, ~disturbed
               PROVE  io.reads + Cardinality(done) + (IF InHandleRead THEN 1 ELSE 0) <= 1
    BY DEF InputBufferHasOneUser
  <2>1. OneUser(io, InHandleRead) /\ io.reads \in Nat
    BY QueueTyped DEF Undisturbed, Orderly, TypeOK
  <2>2. \A i \in done : i \in DOMAIN io.queue /\ Token(io.queue[i])
    BY DEF Token, Live
  <2> HIDE DEF done
  <2>3. CASE done = {}
    <3>1. Cardinality(done) = 0
      BY <2>3, FS_EmptySet
    <3> QED BY <2>1, <3>1 DEF OneUser
  <2>4. CASE done # {}
    <3>1. PICK i \in done : TRUE
      BY <2>4
    <3>2. done = {i}
      BY <2>1, <2>2, <3>1 DEF OneUser
    <3>3. Cardinality(done) = 1
      BY <3>2, FS_Singleton
    <3>4. ~(io.reads > 0) /\ ~InHandleRead
      BY <2>1, <2>2, <3>1 DEF OneUser, NoToken
    <3> QED BY <2>1, <3>3, <3>4
  <2> QED BY <2>3, <2>4
<1>2. IInv /\ Undisturbed => InputBufferHasOneUser
  BY <1>1 DEF IInv
<1> QED BY <1>2, SpecUndisturbed, PTL

(* No handler hangs up a connection that is up: while nothing of an earlier *)
(* connection was handled the reconnect timer is only armed after an error  *)
(* on this connection, or a logout (szBinary_input_service.cpp:82-170).     *)
THEOREM HealthyConnectionIsKept == Spec => HealthyIsKept
<1>1. ASSUME TypeOK, Undisturbed, Reconnect, io.link = "up", ~loggedOut, ~disturbed, Head(io.queue).current
      PROVE  FALSE
  <2>1. io \in IoType
    BY <1>1 DEF TypeOK
  <2>2. Completed(RECONNECT_TIMER, "ok")
    BY <1>1 DEF Reconnect
  <2>3. 1 \in DOMAIN io.queue /\ Head(io.queue) = io.queue[1]
        /\ io.queue[1].op = RECONNECT_TIMER /\ io.queue[1].ec = "ok"
    BY <2>1, <2>2, TakenShifts
  <2>4. Live(io.queue[1])
    BY <1>1, <2>3 DEF Live
  <2>5. Healthy(io)
    BY <1>1 DEF Undisturbed, Orderly
  <2> QED BY <2>3, <2>4, <2>5 DEF Healthy
<1>2. IInv /\ Undisturbed /\ [Next]_vars
        => [Reconnect /\ io.link = "up" => loggedOut \/ disturbed \/ ~Head(io.queue).current]_vars
  BY <1>1 DEF IInv
<1> QED BY <1>2, SpecUndisturbed, PTL DEF Spec, HealthyIsKept

=============================================================================
