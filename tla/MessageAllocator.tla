-------------------------- MODULE MessageAllocator --------------------------
(***************************************************************************)
(* The two message_allocator_t of a pair of pipes                          *)
(* (src/src/message_allocator.cpp) and the messages on the heap.  Each end *)
(* has one.  Its owner allocates from free lists, one for each size class, *)
(* and gives back what it does not send; the thread of the other end gives *)
(* back what it has read through the idle queue, which the owner empties   *)
(* when a free list has run out.                                           *)
(*                                                                         *)
(* The idle queue is the one of SpscQueue, used here as the Channel it     *)
(* implements: Recycle writes and flushes in one step.  A free list, which *)
(* messages form by their next_, is a sequence with its head in front.     *)
(***************************************************************************)
EXTENDS Integers, Sequences, FiniteSets

CONSTANTS
  Ends,                 \* the two ends of the pair
  Messages,             \* addresses a message_t may get: bounds what is on the heap
  Capacities,           \* what is asked for
  NULL

ASSUME AllocatorAssumption ==
  /\ IsFiniteSet(Ends) /\ Cardinality(Ends) = 2
  /\ Capacities \subseteq Nat
  /\ NULL \notin Messages \cup Int

VARIABLES
  heap,                 \* for each message_t that exists, what it holds
  free_lists,           \* of each end
  idle_queue,           \* of each end
  asking                \* the capacity an Allocate still empties the idle queue for

allocatorVars == <<heap, free_lists, idle_queue, asking>>

Other(e) == CHOOSE f \in Ends : f # e

kAllocateStart == 5
kAllocateStop == 22
Classes == 0..(kAllocateStop - kAllocateStart)

-----------------------------------------------------------------------------
(* The size class of a capacity. *)

MultiplyDeBruijnBitPosition ==
  << 0, 9, 1, 10, 13, 21, 2, 29, 11, 14, 16, 18, 22, 25, 3, 30,
     8, 12, 20, 28, 15, 17, 24, 7, 19, 27, 23, 6, 26, 5, 4, 31 >>

\* v with all its bits set below the highest one is 2^Bits(v) - 1.
Bits(v) == CHOOSE n \in 0..31 : v < 2^n /\ (n > 0 => 2^(n - 1) <= v)

\* For the halves of x, of 16 bits each, those of 2 * x + 0x07C4ACDD in 32 bits.
Doubled(half) ==
  LET low == 2 * half.low + 44253
  IN  [high |-> (2 * half.high + 1988 + (low \div 2^16)) % 2^16, low |-> low % 2^16]

\* (2^n - 1) * 0x07C4ACDD in 32 bits.
Multiplied[n \in 0..31] ==
  IF n = 0 THEN [high |-> 0, low |-> 0] ELSE Doubled(Multiplied[n - 1])

Log2(v) == MultiplyDeBruijnBitPosition[Multiplied[Bits(v)].high \div 2^11 + 1]

\* -1: too big, not cached.
IndexOf(capacity) ==
  IF capacity > 2^kAllocateStop THEN -1
  ELSE IF Log2(capacity) > kAllocateStart THEN Log2(capacity) - kAllocateStart ELSE 0

ClassOf == [capacity \in Capacities |-> IndexOf(capacity)]

\* The free lists in use; the others stay empty.
Lists == {ClassOf[capacity] : capacity \in Capacities} \ {-1}

\* The class by its meaning: the first one whose messages are larger than
\* that.  A power of two from 64 up gets twice its size, though the class below
\* would hold it exactly.
FirstClassAbove(capacity) ==
  CHOOSE i \in Classes :
    /\ capacity < 2^(kAllocateStart + 1 + i)
    /\ i > 0 => 2^(kAllocateStart + i) <= capacity

-----------------------------------------------------------------------------
(* Messages.  `asked', `origin' and `read' are history: the capacity it is  *)
(* last allocated for, whose allocator made it, and whether it was read from *)
(* a pipe since.  `dirty': it has a size, an id or a timestamp.             *)
MessageType == [index : Classes \cup {-1}, capacity : Nat, asked : Nat,
                origin : Ends, read : BOOLEAN, dirty : BOOLEAN]

\* With a bug in it: the capacity the comment on free_lists_ gives.
NewMessageByComment(e, asked) ==
  [index |-> ClassOf[asked],
   capacity |-> IF ClassOf[asked] = -1 THEN asked ELSE 2^(kAllocateStart + ClassOf[asked]),
   asked |-> asked, origin |-> e, read |-> FALSE, dirty |-> FALSE]

\* Init, behind new.
NewMessage(e, asked) ==
  [index |-> ClassOf[asked],
   capacity |-> IF ClassOf[asked] = -1 THEN asked ELSE 2^(kAllocateStart + ClassOf[asked] + 1),
   asked |-> asked, origin |-> e, read |-> FALSE, dirty |-> FALSE]

Cleared(msg) == [msg EXCEPT !.dirty = FALSE]

Taken(msg, capacity) == [msg EXCEPT !.asked = capacity, !.read = FALSE]

Deleted(messages) == [m \in DOMAIN heap \ messages |-> heap[m]]

Members(sequence) == {sequence[i] : i \in DOMAIN sequence}

-----------------------------------------------------------------------------
(* Operations with a bug in them, one for each property that needs it.      *)
ReleaseWithoutClear(e, m) ==
  /\ IF heap[m].index < 0
     THEN heap' = Deleted({m}) /\ UNCHANGED free_lists
     ELSE /\ free_lists' = [free_lists EXCEPT ![e][heap[m].index] = <<m>> \o @]
          /\ UNCHANGED heap
  /\ UNCHANGED <<idle_queue, asking>>

TakeWithoutUnlink(e, capacity) ==
  /\ heap' = [heap EXCEPT ![Head(free_lists[e][ClassOf[capacity]])].read = FALSE]
  /\ UNCHANGED free_lists

-----------------------------------------------------------------------------
AllocatorInit ==
  /\ heap = [m \in {} |-> 0]
  /\ free_lists = [e \in Ends |-> [i \in Lists |-> <<>>]]
  /\ idle_queue = [e \in Ends |-> <<>>]
  /\ asking = [e \in Ends |-> NULL]

\* The head of the free list is handed out, as it is.
Take(e, capacity) ==
  /\ heap' = [heap EXCEPT ![Head(free_lists[e][ClassOf[capacity]])] = Taken(@, capacity)]
  /\ free_lists' = [free_lists EXCEPT ![e][ClassOf[capacity]] = Tail(@)]

New(e, capacity, m) ==
  /\ m \notin DOMAIN heap
  /\ heap' = [n \in DOMAIN heap \cup {m} |->
                IF n = m THEN NewMessage(e, capacity) ELSE heap[n]]
  /\ UNCHANGED free_lists

(* Allocate, when it need not look at the idle queue.                       *)
AllocateBig(e, capacity, m) ==
  /\ asking[e] = NULL
  /\ ClassOf[capacity] = -1
  /\ New(e, capacity, m)
  /\ UNCHANGED <<idle_queue, asking>>

AllocateFree(e, capacity, m) ==
  /\ asking[e] = NULL
  /\ ClassOf[capacity] # -1
  /\ free_lists[e][ClassOf[capacity]] # <<>>
  /\ m = Head(free_lists[e][ClassOf[capacity]])
  /\ Take(e, capacity)
  /\ UNCHANGED <<idle_queue, asking>>

(* Allocate, when the free list is empty: ConsumeIdleQueue begins.          *)
AllocateConsume(e, capacity) ==
  /\ asking[e] = NULL
  /\ ClassOf[capacity] # -1
  /\ free_lists[e][ClassOf[capacity]] = <<>>
  /\ asking' = [asking EXCEPT ![e] = capacity]
  /\ UNCHANGED <<heap, free_lists, idle_queue>>

(* ConsumeIdleQueue, one Read of the queue; the message is not cleared.     *)
ConsumeOne(e) ==
  /\ asking[e] # NULL
  /\ idle_queue[e] # <<>>
  /\ LET m == Head(idle_queue[e])
     IN  free_lists' = [free_lists EXCEPT ![e][heap[m].index] = <<m>> \o @]
  /\ idle_queue' = [idle_queue EXCEPT ![e] = Tail(@)]
  /\ UNCHANGED <<heap, asking>>

(* Allocate, after the Read that found the idle queue empty.                *)
AllocateRest(e, m) ==
  /\ asking[e] # NULL
  /\ idle_queue[e] = <<>>
  /\ LET list == free_lists[e][ClassOf[asking[e]]]
     IN  IF list # <<>>
         THEN m = Head(list) /\ Take(e, asking[e])
         ELSE New(e, asking[e], m)
  /\ asking' = [asking EXCEPT ![e] = NULL]
  /\ UNCHANGED idle_queue

Release(e, m) ==
  /\ IF heap[m].index < 0
     THEN heap' = Deleted({m}) /\ UNCHANGED free_lists
     ELSE /\ heap' = [heap EXCEPT ![m] = Cleared(@)]
          /\ free_lists' = [free_lists EXCEPT ![e][heap[m].index] = <<m>> \o @]
  /\ UNCHANGED <<idle_queue, asking>>

(* Recycle of the allocator of e, called by the thread of the other end.    *)
Recycle(e, m) ==
  /\ IF heap[m].index < 0
     THEN heap' = Deleted({m}) /\ UNCHANGED idle_queue
     ELSE /\ idle_queue' = [idle_queue EXCEPT ![e] = Append(@, m)]
          /\ UNCHANGED heap
  /\ UNCHANGED <<free_lists, asking>>

(* What the allocator of e has, and deletes when it is destroyed.           *)
Kept(e) == Members(idle_queue[e]) \cup UNION {Members(free_lists[e][i]) : i \in Lists}

(* The destructors of the allocators of some ends.                          *)
DestroyAllocators(ends) ==
  /\ heap' = Deleted(UNION {Kept(e) : e \in ends})
  /\ free_lists' = [e \in Ends |-> IF e \in ends THEN [i \in Lists |-> <<>>] ELSE free_lists[e]]
  /\ idle_queue' = [e \in Ends |-> IF e \in ends THEN <<>> ELSE idle_queue[e]]
  /\ UNCHANGED asking
=============================================================================
