----------------------------- MODULE PipeProofs -----------------------------
(***************************************************************************)
(* Proofs about Pipe for every set of messages and every bound.            *)
(***************************************************************************)
EXTENDS Pipe, SequenceTheorems, TLAPS

\* The queue of the pipe, with what SpscQueueProofs proves about it.
QP == INSTANCE SpscQueueProofs WITH
  Items <- Messages \cup {NULL}, MaxItems <- MaxMessages + 1

-----------------------------------------------------------------------------
(***************************************************************************)
(* The inductive invariant: that of the queue, and what ties the control   *)
(* states of the two threads to it.  A thread that waits, or was told that *)
(* there is nothing, went through a failed CheckRead, which leaves NULL in *)
(* `contention'; the flush that ends this passes through "listener" and    *)
(* "notifying".  The null message is the last one and is flushed at once.  *)
(***************************************************************************)
Types ==
  /\ parts \in Seq(BOOLEAN) /\ Len(parts) = Len(slots)
  /\ terminated \in BOOLEAN /\ peer_terminated \in BOOLEAN /\ activated \in BOOLEAN
  /\ writer \in {"idle", "flushing", "storing", "listener", "notifying", "terminating"}
  /\ reader \in {"away", "reading", "locking", "checking", "waiting", "woken", "checkingAgain"}
  /\ timeout \in {"none", "some", "forever"}
  /\ result \in {0, -1}
  /\ storing <=> writer = "storing"

WaiterSleeps ==
  Waiting => contention = NULL \/ writer \in {"listener", "notifying"}

DrainedSleeps ==
  reader = "away" /\ result = -1 /\ ~peer_terminated =>
    contention = NULL \/ activated \/ writer = "listener"

NullIsLast ==
  \A i \in 1..Len(slots) : slots[i] = NULL =>
    i = Len(slots) /\ f_item = Len(slots) + 1 /\ (terminated \/ writer # "idle")

GotIsPrefix ==
  /\ Len(got) = begin - 1
  /\ \A i \in 1..begin - 1 : got[i] = slots[i]

EndWasRead ==
  peer_terminated => begin = Len(slots) + 1 /\ Len(slots) > 0 /\ slots[Len(slots)] = NULL

PipeInv == Types /\ WaiterSleeps /\ DrainedSleeps /\ NullIsLast /\ GotIsPrefix /\ EndWasRead

IInv == QP!IInv /\ PipeInv

-----------------------------------------------------------------------------
(* A step of the pipe is a step of its queue, or leaves the queue alone. *)
LEMMA QueueAssumption == QP!SpscAssumption
  BY PipeAssumption DEF PipeAssumption, QP!SpscAssumption

LEMMA StepOfQueue ==
  ASSUME [Next]_vars
  PROVE  [QP!Next]_(QP!vars)
<1>1. [Q!Next]_(Q!vars)
  <2> USE DEF Q!Next, Q!vars, queueVars, readerVars, writerVars
  <2>1. ASSUME NEW message \in Messages, NEW incomplete \in BOOLEAN,
               Write(message, incomplete)
        PROVE  Q!Next
    BY <2>1 DEF Write
  <2>2. CASE Unwrite
    BY <2>2 DEF Unwrite
  <2>3. CASE Terminate
    BY <2>3 DEF Terminate
  <2>4. CASE WriterStep
    BY <2>4 DEF WriterStep, FlushCas, FlushStore, CallListener, Notify, Terminated
  <2>5. CASE Read \/ CheckRead \/ SpuriousWakeup
    BY <2>5 DEF Read, CheckRead, SpuriousWakeup
  <2>6. CASE ReaderStep
    BY <2>6 DEF ReaderStep, DoReadTerminated, DoReadPops, DoReadPrefetches, Lock, TimeoutExpires, Relock
  <2>7. CASE UNCHANGED vars
    BY <2>7 DEF vars
  <2>8. QED
    BY <2>1, <2>2, <2>3, <2>4, <2>5, <2>6, <2>7 DEF Next
<1>2. QED
  BY <1>1
     DEF Q!Next, Q!vars, QP!Next, QP!vars, Q!Write, QP!Write, Q!Unwrite, QP!Unwrite,
         Q!FlushCas, QP!FlushCas, Q!FlushStore, QP!FlushStore, Q!Prefetch, QP!Prefetch,
         Q!Pop, QP!Pop, Q!Prefetched, QP!Prefetched, Q!Back, QP!Back,
         Q!writerVars, QP!writerVars, Q!readerVars, QP!readerVars

LEMMA QueueIInv ==
  ASSUME IInv, [Next]_vars
  PROVE  QP!IInv'
  BY StepOfQueue, QueueAssumption, QP!NextIInv DEF IInv

(* What the queue's invariant says in terms of Pipe's variables. *)
LEMMA QueueFacts ==
  ASSUME QP!IInv
  PROVE  /\ slots \in Seq(Messages \cup {NULL})
         /\ got \in Seq(Messages \cup {NULL})
         /\ Len(slots) \in Nat
         /\ begin \in 1..Len(slots) + 1
         /\ f_item \in 1..Len(slots) + 1
         /\ begin <= f_item
         /\ storing => contention = NULL
         /\ contention \in {NULL, w_item}
         /\ storing <=> w_item = NULL
         /\ contention = NULL => begin = Q!Flushed
         /\ r_item # NULL => r_item \in begin..f_item
  BY PipeAssumption
     DEF PipeAssumption, QP!IInv, QP!TypeOK, QP!Back, QP!StoreHasWork, QP!WordIsTail, QP!StorePending,
         QP!SleeperConsumedAll, QP!PositionsOrdered, QP!Flushed, Q!Flushed

-----------------------------------------------------------------------------
LEMMA InitIInv == Init => IInv
<1> SUFFICES ASSUME Init PROVE IInv
  OBVIOUS
<1>1. QP!Init
  BY DEF Init, Q!Init, QP!Init
<1>2. QP!IInv
  BY <1>1, QueueAssumption, QP!InitIInv
<1>3. PipeInv
  <2> USE EmptySeq DEF Init, Q!Init
  <2>1. Types
    BY DEF Types
  <2>2. WaiterSleeps /\ DrainedSleeps /\ EndWasRead
    BY DEF WaiterSleeps, Waiting, DrainedSleeps, EndWasRead
  <2>3. NullIsLast /\ GotIsPrefix
    BY DEF NullIsLast, GotIsPrefix
  <2>4. QED
    BY <2>1, <2>2, <2>3 DEF PipeInv
<1>4. QED
  BY <1>2, <1>3 DEF IInv

LEMMA WriterIInv ==
  ASSUME IInv, QP!IInv'
  PROVE  /\ \A message \in Messages, incomplete \in BOOLEAN : Write(message, incomplete) => PipeInv'
         /\ Unwrite => PipeInv'
         /\ Terminate => PipeInv'
         /\ WriterStep => PipeInv'
<1> USE QueueFacts, PipeAssumption DEF PipeAssumption, IInv, PipeInv, Types, WaiterSleeps, Waiting,
    DrainedSleeps, NullIsLast, GotIsPrefix, EndWasRead, queueVars, readerVars, writerVars,
    Q!Back, Q!writerVars, Q!readerVars
<1>1. ASSUME NEW message \in Messages, NEW incomplete \in BOOLEAN, Write(message, incomplete)
      PROVE  PipeInv'
  <2>1. /\ Len(slots') = Len(slots) + 1
        /\ \A i \in 1..Len(slots) : slots'[i] = slots[i] /\ slots[i] # NULL
        /\ slots'[Len(slots) + 1] # NULL
    BY <1>1, AppendProperties DEF Write, Q!Write
  <2>2. parts' \in Seq(BOOLEAN) /\ Len(parts') = Len(slots')
    BY <1>1, <2>1, AppendProperties DEF Write
  <2>3. NullIsLast' /\ GotIsPrefix' /\ EndWasRead'
    BY <1>1, <2>1 DEF Write, Q!Write
  <2>4. Types' /\ WaiterSleeps' /\ DrainedSleeps'
    BY <1>1, <2>2 DEF Write, Q!Write
  <2>5. QED
    BY <2>3, <2>4
<1>2. CASE Unwrite
  <2>1. f_item # Len(slots) + 1 /\ Len(slots) > 0
    BY <1>2 DEF Unwrite, Q!Unwrite
  <2>2. /\ slots' \in Seq(Messages \cup {NULL})
        /\ Len(slots') = Len(slots) - 1
        /\ \A i \in 1..Len(slots) - 1 : slots'[i] = slots[i]
    BY <1>2, <2>1, SubSeqProperties DEF Unwrite, Q!Unwrite
  <2>3. parts' \in Seq(BOOLEAN) /\ Len(parts') = Len(parts) - 1
    BY <1>2, <2>1, SubSeqProperties DEF Unwrite
  <2>4. NullIsLast'
    BY <1>2, <2>2 DEF Unwrite, Q!Unwrite
  <2>5. GotIsPrefix' /\ EndWasRead'
    BY <1>2, <2>1, <2>2 DEF Unwrite, Q!Unwrite
  <2>6. Types' /\ WaiterSleeps' /\ DrainedSleeps'
    BY <1>2, <2>2, <2>3 DEF Unwrite, Q!Unwrite
  <2>7. QED
    BY <2>4, <2>5, <2>6
<1>3. CASE Terminate
  <2>1. /\ Len(slots') = Len(slots) + 1
        /\ \A i \in 1..Len(slots) : slots'[i] = slots[i] /\ slots[i] # NULL
        /\ f_item' = Len(slots) + 2
    BY <1>3, AppendProperties DEF Terminate, Q!Write
  <2>2. parts' \in Seq(BOOLEAN) /\ Len(parts') = Len(slots')
    BY <1>3, <2>1, AppendProperties DEF Terminate
  <2>3. NullIsLast' /\ GotIsPrefix' /\ EndWasRead'
    BY <1>3, <2>1 DEF Terminate, Q!Write
  <2>4. Types' /\ WaiterSleeps' /\ DrainedSleeps'
    BY <1>3, <2>2 DEF Terminate, Q!Write
  <2>5. QED
    BY <2>3, <2>4
<1>4. CASE FlushCas
  BY <1>4 DEF FlushCas, Q!FlushCas, AfterFlush
<1>5. CASE FlushStore
  BY <1>5 DEF FlushStore, Q!FlushStore
<1>6. CASE CallListener
  BY <1>6 DEF CallListener
<1>7. CASE Notify
  BY <1>7 DEF Notify, AfterFlush
<1>8. CASE Terminated
  BY <1>8 DEF Terminated
<1>9. QED
  BY <1>1, <1>2, <1>3, <1>4, <1>5, <1>6, <1>7, <1>8 DEF WriterStep

LEMMA ReaderIInv ==
  ASSUME IInv, QP!IInv'
  PROVE  /\ Read => PipeInv'
         /\ CheckRead => PipeInv'
         /\ ReaderStep => PipeInv'
         /\ SpuriousWakeup => PipeInv'
<1> USE QueueFacts, PipeAssumption DEF PipeAssumption, IInv, PipeInv, Types, WaiterSleeps, Waiting,
    DrainedSleeps, NullIsLast, GotIsPrefix, EndWasRead, queueVars, readerVars, writerVars,
    Q!Back, Q!writerVars, Q!readerVars, InDoRead
<1>1. CASE Read
  BY <1>1 DEF Read
<1>2. CASE CheckRead
  <2>1. result' = -1 => contention' = NULL
    BY <1>2 DEF CheckRead, Q!Prefetch, Q!Prefetched
  <2>2. result' \in {0, -1}
    BY <1>2 DEF CheckRead
  <2>3. QED
    BY <1>2, <2>1, <2>2 DEF CheckRead, Q!Prefetch
<1>3. CASE DoReadTerminated
  BY <1>3 DEF DoReadTerminated, Return
<1>4. CASE DoReadPops
  <2>1. begin \in 1..Len(slots) /\ slots[begin] \in Messages \cup {NULL}
    BY <1>4, ElementOfSeq DEF DoReadPops, Q!Pop, Q!Prefetched
  <2>2. /\ Len(got') = Len(got) + 1
        /\ \A i \in 1..Len(got) : got'[i] = got[i]
        /\ got'[Len(got) + 1] = slots[begin]
    <3>1. got' = Append(got, slots[begin])
      BY <1>4 DEF DoReadPops, Q!Pop
    <3>2. got \in Seq(Messages \cup {NULL})
      OBVIOUS
    <3>3. QED
      BY ONLY <3>1, <3>2, <2>1, AppendProperties
  <2>3. GotIsPrefix'
    BY <1>4, <2>1, <2>2 DEF DoReadPops, Q!Pop
  <2>4. slots[begin] = NULL => begin = Len(slots)
    BY <2>1
  <2>5. CASE slots[begin] = NULL
    <3>1. /\ peer_terminated' = TRUE /\ result' = -1 /\ reader' = "away"
          /\ begin' = Len(slots) + 1
          /\ UNCHANGED <<slots, f_item, storing, writerVars, contention, timeout, activated>>
      BY <1>4, <2>1, <2>4, <2>5 DEF DoReadPops, Q!Pop, Return
    <3>2. QED
      BY <3>1, <2>1, <2>3, <2>4, <2>5
  <2>6. CASE slots[begin] # NULL
    <3>1. /\ peer_terminated' = FALSE /\ result' = 0 /\ reader' = "away"
          /\ UNCHANGED <<slots, f_item, storing, writerVars, contention, timeout, activated>>
      BY <1>4, <2>6 DEF DoReadPops, Q!Pop, Return
    <3>2. NullIsLast' /\ EndWasRead'
      BY <3>1
    <3>3. Types'
      BY <3>1
    <3>4. WaiterSleeps' /\ DrainedSleeps'
      BY <3>1
    <3>5. QED
      BY <3>2, <3>3, <3>4, <2>3
  <2>7. QED
    BY <2>5, <2>6
<1>5. CASE DoReadPrefetches
  BY <1>5 DEF DoReadPrefetches, Q!Prefetch, Q!Prefetched, NothingRead, Return
<1>6. CASE Lock \/ TimeoutExpires \/ Relock \/ SpuriousWakeup
  BY <1>6 DEF Lock, TimeoutExpires, Relock, SpuriousWakeup
<1>7. QED
  BY <1>1, <1>2, <1>3, <1>4, <1>5, <1>6 DEF ReaderStep

LEMMA NextIInv == IInv /\ [Next]_vars => IInv'
<1> SUFFICES ASSUME IInv, [Next]_vars PROVE IInv'
  OBVIOUS
<1>1. QP!IInv'
  BY QueueIInv
<1>2. PipeInv'
  <2>1. CASE Next
    BY <2>1, <1>1, WriterIInv, ReaderIInv DEF Next
  <2>2. CASE UNCHANGED vars
    BY <2>2 DEF vars, queueVars, readerVars, writerVars, IInv, PipeInv, Types, WaiterSleeps, Waiting,
       DrainedSleeps, NullIsLast, GotIsPrefix, EndWasRead
  <2>3. QED
    BY <2>1, <2>2
<1>3. QED
  BY <1>1, <1>2 DEF IInv

LEMMA SpecIInv == Spec => []IInv
  BY InitIInv, NextIInv, PTL DEF Spec

-----------------------------------------------------------------------------
(* Both ends of the pipe keep their types; pipe.cpp:24-33, 61-187. *)
THEOREM TypeCorrect == Spec => []TypeOK
<1>1. IInv => TypeOK
  BY DEF IInv, PipeInv, Types, TypeOK, QP!IInv, QP!TypeOK, Q!TypeOK, QP!Back, Q!Back
<1>2. QED
  BY <1>1, SpecIInv, PTL

(* No thread is left in condition_.wait with a message to read: whatever    *)
(* the interleaving of Read with Write and Terminate (pipe.cpp:61-73,       *)
(* 100-137, 162-170) and whatever the number of messages.                   *)
THEOREM NoWakeupIsLost == Spec => []NoLostWakeup
<1>1. IInv => NoLostWakeup
  BY QueueFacts DEF IInv, PipeInv, WaiterSleeps, NoLostWakeup, Q!Flushed
<1>2. QED
  BY <1>1, SpecIInv, PTL

(* A listener is told of every message that its reader did not find itself  *)
(* (pipe.cpp:67-70 and :162-165).                                           *)
THEOREM NoActivationIsLost == Spec => []ActivationIsNotLost
<1>1. IInv => ActivationIsNotLost
  BY QueueFacts DEF IInv, PipeInv, DrainedSleeps, ActivationIsNotLost, Q!Flushed
<1>2. QED
  BY <1>1, SpecIInv, PTL

(* The end of the stream is reported after everything written was read      *)
(* (pipe.cpp:139-152 and :172-187).                                         *)
THEOREM EndOfStreamIsLast == Spec => []EndIsTheEnd
<1>1. IInv => EndIsTheEnd
  <2> SUFFICES ASSUME IInv, peer_terminated
               PROVE  /\ got = slots
                      /\ \A i \in 1..Len(got) : got[i] = NULL <=> i = Len(got)
    BY DEF EndIsTheEnd
  <2> USE QueueFacts DEF IInv, PipeInv
  <2>1. Len(got) = Len(slots) /\ \A i \in 1..Len(got) : got[i] = slots[i]
    BY DEF EndWasRead, GotIsPrefix
  <2>2. got = slots
    BY <2>1, SeqEqual
  <2>3. QED
    BY <2>2 DEF EndWasRead, NullIsLast
<1>2. QED
  BY <1>1, SpecIInv, PTL

(* One direction of a pipe is the abstract channel, whoever calls what in    *)
(* which order: messages come out in the order they went in, none lost and  *)
(* none twice, and become visible with a flush (Write, Read and Terminate   *)
(* use the queue in no other way than its interface, pipe.cpp:61-187).      *)
THEOREM PipeImplementsChannel == Spec => QP!ImplementsChannel
<1>1. Init => QP!Init
  BY DEF Init, Q!Init, QP!Init
<1>2. [Next]_vars => [QP!Next]_(QP!vars)
  BY StepOfQueue
<1>3. Spec => QP!Spec
  BY <1>1, <1>2, PTL DEF Spec, QP!Spec
<1>4. QP!Spec => QP!ImplementsChannel
  BY QP!QueueImplementsChannel, QueueAssumption
<1>5. QED
  BY <1>3, <1>4, PTL
=============================================================================
