-------------------------------- MODULE Pipe --------------------------------
(***************************************************************************)
(* One direction of a pair of pipe_t objects (src/src/pipe.cpp): the       *)
(* thread that writes to one end, and the thread that calls Read on the    *)
(* other.  Between them are the lock-free queue, used here one access to   *)
(* its shared word at a time, and for a reader that waits the mutex_ and   *)
(* condition_ of the reading end, which the writer reaches as peer_.       *)
(*                                                                         *)
(* A reader is driven by the listener (it reads until Read returns -1 and  *)
(* resumes when it is told that the pipe is read-activated), or blocks in  *)
(* Read, or both; here it calls Read with any timeout at any time and      *)
(* `activated' remembers that the listener was called since.               *)
(***************************************************************************)
EXTENDS Integers, Sequences

CONSTANTS
  Messages,             \* the message_t* an application writes
  NULL,                 \* the null pointer: also the terminator message
  MaxMessages           \* bound: at most so many of them in the queue's history

ASSUME PipeAssumption ==
  /\ MaxMessages \in Nat
  /\ NULL \notin Messages \cup Int

VARIABLES
  slots, begin, w_item, f_item, r_item, contention, storing, got,   \* SpscQueue
  parts,                \* history: for each slot, whether it was incomplete
  terminated,           \* the writing end is terminated
  peer_terminated,      \* the reading end has read the terminator
  writer,               \* where the writing thread is
  reader,               \* where the reading thread is
  timeout,              \* the argument of the current Read
  result,               \* of the last Read or CheckRead: -1, there was nothing
  activated             \* OnReadActivated was called since the last Read began

queueVars == <<slots, begin, w_item, f_item, r_item, contention, storing, got>>
writerVars == <<parts, terminated, writer>>
readerVars == <<peer_terminated, reader, timeout, result>>
vars == <<queueVars, writerVars, readerVars, activated>>

Q == INSTANCE SpscQueue WITH Items <- Messages \cup {NULL}, MaxItems <- MaxMessages + 1

\* The reader holds mutex_; the writer holds it within one step only.
ReaderHoldsMutex == reader \in {"checking", "checkingAgain"}

\* The reader is inside condition_.wait or timed_wait and not yet woken.
Waiting == reader = "waiting"

-----------------------------------------------------------------------------
(* Operations with a bug in them, one for each property stated below. *)
WriteAfterTerminate(message, incomplete) ==
  /\ writer = "idle"
  /\ Len(slots) < MaxMessages
  /\ Q!Write(message, incomplete)
  /\ parts' = Append(parts, incomplete)
  /\ writer' = IF incomplete THEN "idle" ELSE "flushing"
  /\ UNCHANGED <<terminated, readerVars, activated>>

FlushCasOnly ==
  /\ writer = "flushing"
  /\ Q!FlushCas
  /\ writer' = IF slots[Len(slots)] = NULL THEN "terminating" ELSE "idle"
  /\ UNCHANGED <<parts, terminated, readerVars, activated>>

CallListenerOnly ==
  /\ writer = "listener"
  /\ activated' = TRUE
  /\ writer' = IF slots[Len(slots)] = NULL THEN "terminating" ELSE "idle"
  /\ UNCHANGED <<queueVars, parts, terminated, readerVars>>

CallListenerNever ==
  /\ writer = "listener"
  /\ writer' = "notifying"
  /\ UNCHANGED <<queueVars, parts, terminated, readerVars, activated>>

LockAndWait ==
  /\ reader = "locking"
  /\ reader' = "waiting"
  /\ UNCHANGED <<queueVars, writerVars, peer_terminated, timeout, result, activated>>

NothingReadWaitsOn ==
  \/ /\ reader = "reading" /\ timeout = "none"
     /\ reader' = "away" /\ result' = -1 /\ UNCHANGED timeout
  \/ /\ reader = "reading" /\ timeout # "none"
     /\ reader' = "locking" /\ UNCHANGED <<timeout, result>>
  \/ /\ reader \in {"checking", "checkingAgain"}
     /\ reader' = "waiting" /\ UNCHANGED <<timeout, result>>

-----------------------------------------------------------------------------
Init ==
  /\ Q!Init
  /\ parts = <<>>
  /\ terminated = FALSE
  /\ peer_terminated = FALSE
  /\ writer = "idle"
  /\ reader = "away"
  /\ timeout = "none"
  /\ result = 0
  /\ activated = FALSE

(* Write(msg, incomplete): out_queue_->Write; a complete message is flushed.*)
(* Write(msg, o_wake_peer) is Write(msg, FALSE) that tells about the wake.  *)
Write(message, incomplete) ==
  /\ writer = "idle"
  /\ ~terminated
  /\ Len(slots) < MaxMessages
  /\ Q!Write(message, incomplete)
  /\ parts' = Append(parts, incomplete)
  /\ writer' = IF incomplete THEN "idle" ELSE "flushing"
  /\ UNCHANGED <<terminated, readerVars, activated>>

(* Unwrite: no matter whether the pipe is terminated. *)
Unwrite ==
  /\ writer = "idle"
  /\ Q!Unwrite
  /\ parts' = SubSeq(parts, 1, Len(parts) - 1)
  /\ UNCHANGED <<terminated, writer, readerVars, activated>>

(* Terminate writes and flushes the null message, as Write does. *)
Terminate ==
  /\ writer = "idle"
  /\ ~terminated
  /\ Q!Write(NULL, FALSE)
  /\ parts' = Append(parts, FALSE)
  /\ writer' = "flushing"
  /\ UNCHANGED <<terminated, readerVars, activated>>

\* Where the writer goes when out_queue_ is flushed and the peer activated:
\* only Terminate, which wrote NULL, has more to do.
AfterFlush == IF slots[Len(slots)] = NULL THEN "terminating" ELSE "idle"

(* Flush, in Write and in Terminate: the peer is only activated when the    *)
(* queue says that its reader is asleep.                                    *)
FlushCas ==
  /\ writer = "flushing"
  /\ Q!FlushCas
  /\ writer' = IF storing' THEN "storing" ELSE AfterFlush
  /\ UNCHANGED <<parts, terminated, readerVars, activated>>

FlushStore ==
  /\ writer = "storing"
  /\ Q!FlushStore
  /\ writer' = "listener"
  /\ UNCHANGED <<parts, terminated, readerVars, activated>>

(* SendReadActivated, first part: call the listener. *)
CallListener ==
  /\ writer = "listener"
  /\ activated' = TRUE
  /\ writer' = "notifying"
  /\ UNCHANGED <<queueVars, parts, terminated, readerVars>>

(* SendReadActivated, second part: notify_all with the peer's mutex_ held. *)
Notify ==
  /\ writer = "notifying"
  /\ ~ReaderHoldsMutex
  /\ writer' = AfterFlush
  /\ reader' = IF Waiting THEN "woken" ELSE reader
  /\ UNCHANGED <<queueVars, parts, terminated, peer_terminated, timeout, result, activated>>

(* The end of Terminate: from here on Write returns -1. *)
Terminated ==
  /\ writer = "terminating"
  /\ terminated' = TRUE
  /\ writer' = "idle"
  /\ UNCHANGED <<queueVars, parts, readerVars, activated>>

-----------------------------------------------------------------------------
\* Read returns; leaving its block releases mutex_.
Return(value) ==
  /\ reader' = "away"
  /\ result' = value
  /\ UNCHANGED timeout

(* Read(timeout) is called; it begins with a DoRead. *)
Read ==
  /\ reader = "away"
  /\ reader' = "reading"
  /\ timeout' \in {"none", "some", "forever"}
  /\ activated' = FALSE
  /\ UNCHANGED <<queueVars, writerVars, peer_terminated, result>>

(* CheckRead, when it has to ask the queue.  It is DoRead without the pop.  *)
CheckRead ==
  /\ reader = "away"
  /\ ~peer_terminated
  /\ Q!Prefetch
  /\ result' = IF Q!Prefetched' THEN 0 ELSE -1
  /\ activated' = FALSE
  /\ UNCHANGED <<writerVars, peer_terminated, reader, timeout>>

\* The three calls of DoRead in Read.
InDoRead == reader \in {"reading", "checking", "checkingAgain"}

(* DoRead once the terminator has been read. *)
DoReadTerminated ==
  /\ InDoRead
  /\ peer_terminated
  /\ Return(-1)
  /\ UNCHANGED <<queueVars, writerVars, peer_terminated, activated>>

(* DoRead with a message prefetched: the null message means the end. *)
DoReadPops ==
  /\ InDoRead
  /\ ~peer_terminated
  /\ Q!Pop
  /\ \/ /\ slots[begin] = NULL
        /\ peer_terminated' = TRUE
        /\ Return(-1)
     \/ /\ slots[begin] # NULL
        /\ Return(0)
        /\ UNCHANGED peer_terminated
  /\ UNCHANGED <<writerVars, activated>>

\* Where Read goes when its DoRead found nothing.
NothingRead ==
  \/ /\ reader = "reading" /\ timeout = "none"
     /\ Return(-1)
  \/ /\ reader = "reading" /\ timeout # "none"
     /\ reader' = "locking"
     /\ UNCHANGED <<timeout, result>>
  \/ /\ reader = "checking" \/ (reader = "checkingAgain" /\ timeout = "forever")
     /\ reader' = "waiting"
     /\ UNCHANGED <<timeout, result>>
  \/ /\ reader = "checkingAgain" /\ timeout = "some"
     /\ Return(-1)

(* DoRead with nothing prefetched: ask the shared word. *)
DoReadPrefetches ==
  /\ InDoRead
  /\ ~peer_terminated
  /\ Q!Prefetch
  /\ \/ /\ Q!Prefetched'
        /\ UNCHANGED <<reader, timeout, result>>
     \/ /\ ~Q!Prefetched'
        /\ NothingRead
  /\ UNCHANGED <<writerVars, peer_terminated, activated>>

(* The scoped_lock of Read, before its second DoRead. *)
Lock ==
  /\ reader = "locking"
  /\ reader' = "checking"
  /\ UNCHANGED <<queueVars, writerVars, peer_terminated, timeout, result, activated>>

(* timed_wait and wait may return without a notification. *)
TimeoutExpires ==
  /\ Waiting
  /\ timeout = "some"
  /\ reader' = "woken"
  /\ UNCHANGED <<queueVars, writerVars, peer_terminated, timeout, result, activated>>

SpuriousWakeup ==
  /\ Waiting
  /\ timeout = "forever"
  /\ reader' = "woken"
  /\ UNCHANGED <<queueVars, writerVars, peer_terminated, timeout, result, activated>>

(* The wait takes the mutex again before it returns. *)
Relock ==
  /\ reader = "woken"
  /\ reader' = "checkingAgain"
  /\ UNCHANGED <<queueVars, writerVars, peer_terminated, timeout, result, activated>>

-----------------------------------------------------------------------------
WriterStep == FlushCas \/ FlushStore \/ CallListener \/ Notify \/ Terminated

ReaderStep ==
  \/ DoReadTerminated \/ DoReadPops \/ DoReadPrefetches
  \/ Lock \/ TimeoutExpires \/ Relock

Next ==
  \/ \E message \in Messages, incomplete \in BOOLEAN : Write(message, incomplete)
  \/ Unwrite
  \/ Terminate
  \/ WriterStep
  \/ Read
  \/ CheckRead
  \/ ReaderStep
  \/ SpuriousWakeup

Spec == Init /\ [][Next]_vars

\* A thread that is in a call of the pipe runs on; nobody has to make a call.
FairSpec ==
  /\ Spec
  /\ WF_vars(WriterStep)
  /\ WF_vars(ReaderStep)
-----------------------------------------------------------------------------
(* The types of the variables, and how the control states of the two        *)
(* threads go with the state of the queue.                                  *)
TypeOK ==
  /\ Q!TypeOK
  /\ parts \in Seq(BOOLEAN) /\ Len(parts) = Len(slots)
  /\ terminated \in BOOLEAN /\ peer_terminated \in BOOLEAN /\ activated \in BOOLEAN
  /\ writer \in {"idle", "flushing", "storing", "listener", "notifying", "terminating"}
  /\ reader \in {"away", "reading", "locking", "checking", "waiting", "woken", "checkingAgain"}
  /\ timeout \in {"none", "some", "forever"}
  /\ result \in {0, -1}
  /\ storing <=> writer = "storing"

(* A reader is in condition_.wait with a message flushed only while the     *)
(* writer is on its way to notify_all: Read re-checks the queue under       *)
(* mutex_ before it waits (pipe.cpp:110-120), SendReadActivated notifies    *)
(* under the same mutex_ (pipe.cpp:166-169) after the flush.                *)
NoLostWakeup ==
  Waiting /\ begin < Q!Flushed => writer \in {"listener", "notifying"}

(* A reader whose last Read or CheckRead found nothing, with the pipe not    *)
(* terminated, and which has something to read now, has been told so by     *)
(* OnReadActivated since, or is about to be (pipe.cpp:67-70, 162-165).      *)
ActivationIsNotLost ==
  reader = "away" /\ result = -1 /\ ~peer_terminated /\ begin < Q!Flushed =>
    activated \/ writer = "listener"

(* End of stream means end of stream: when Read has reported it, all that   *)
(* was ever written has been read, and the null message was the last of it. *)
EndIsTheEnd ==
  peer_terminated =>
    /\ got = slots
    /\ \A i \in 1..Len(got) : got[i] = NULL <=> i = Len(got)

(* "Incomplete items are never flushed down the stream": what the reader    *)
(* finds before the end of the stream is a whole message.                   *)
EndFollowsAWholeMessage ==
  peer_terminated /\ Len(got) > 1 => ~parts[Len(got) - 1]

(* A thread blocked in Read returns once something is flushed, Terminate's  *)
(* null message included, although the reader may only be woken once.       *)
BlockedReadReturns ==
  Waiting /\ begin < Q!Flushed ~> reader = "away"

(* A Read with a positive timeout returns, whatever the writer does.        *)
TimedReadReturns ==
  reader # "away" /\ timeout = "some" ~> reader = "away"
=============================================================================
