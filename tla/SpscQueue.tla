----------------------------- MODULE SpscQueue -----------------------------
(***************************************************************************)
(* The lock-free queue SpscQueue<T, N> of src/src/spsc_queue.hpp: one      *)
(* writer thread, one reader thread and a single atomic word between them. *)
(*                                                                         *)
(* Here the storage (BatchQueue<T, N>) is what it stands for: the sequence *)
(* `slots' of the elements pushed and not unpushed, popped ones included.  *)
(* The address of a slot is its position in that sequence; the slot after  *)
(* the last one is the terminator, the one queue_.Back() refers to.  That  *)
(* an address stands for one live position is what ChunkedSpscQueue, the   *)
(* same queue over the chunks of BatchQueue, is checked for.               *)
(*                                                                         *)
(* One action is one access to the shared word `contention' with the       *)
(* thread-local work around it; a Flush whose compare-and-swap fails takes *)
(* two, and anything may happen in between.  Calls that change nothing     *)
(* (Flush with nothing completed, CheckRead with a prefetched item, Probe, *)
(* Unwrite that returns false) are stuttering steps.                       *)
(***************************************************************************)
EXTENDS Integers, Sequences

CONSTANTS
  Items,                \* T: what can be written
  NULL,                 \* the null pointer
  MaxItems              \* bound: at most so many items in `slots'

ASSUME SpscAssumption ==
  /\ NULL \notin Int
  /\ MaxItems \in Nat

VARIABLES
  slots,                \* the elements of queue_, by position
  begin,                \* position of queue_.Front(); reader's
  w_item,               \* first un-flushed item; writer's
  f_item,               \* first item to be flushed in the future; writer's
  r_item,               \* first un-prefetched item; reader's
  contention,           \* past the last flushed item, NULL: reader asleep
  storing,              \* Flush is between its failed CAS and its store
  got                   \* history: what Read returned, in order

writerVars == <<w_item, f_item, storing>>
readerVars == <<begin, r_item, got>>
vars == <<slots, begin, w_item, f_item, r_item, contention, storing, got>>

-----------------------------------------------------------------------------
Back == Len(slots) + 1          \* position of queue_.Back(), the terminator

\* An item is prefetched: the reader may pop it without asking `contention'.
Prefetched == r_item # NULL /\ begin # r_item

\* What the writer has handed over: every position before this one.  Between
\* the failed CAS and the store the CAS has left NULL in w_item; the reader is
\* asleep at the old value then, which is where it stands.
Flushed == IF storing THEN begin ELSE w_item

-----------------------------------------------------------------------------
(* Operations with a bug in them, one for each property stated below: the   *)
(* property must be violated when the operation stands in for the real one. *)
UnwriteUnflushed ==
  /\ ~storing
  /\ w_item # Back
  /\ slots' = SubSeq(slots, 1, Len(slots) - 1)
  /\ UNCHANGED <<writerVars, contention, readerVars>>

FlushCasToBack ==
  /\ ~storing
  /\ w_item # f_item
  /\ IF contention = w_item
     THEN contention' = Back /\ w_item' = Back /\ UNCHANGED storing
     ELSE w_item' = contention /\ storing' = TRUE /\ UNCHANGED contention
  /\ UNCHANGED <<slots, f_item, readerVars>>

FlushStoreForgotten ==
  /\ storing
  /\ w_item' = f_item
  /\ storing' = FALSE
  /\ UNCHANGED <<slots, f_item, contention, readerVars>>

PrefetchByExchange ==
  /\ ~Prefetched
  /\ r_item' = contention
  /\ contention' = NULL
  /\ UNCHANGED <<slots, writerVars, begin, got>>

PrefetchWakesItself ==
  /\ ~Prefetched
  /\ r_item' = IF contention = NULL THEN NULL ELSE contention
  /\ contention' = CASE contention = NULL -> begin
                     [] contention = begin -> NULL
                     [] OTHER -> contention
  /\ UNCHANGED <<slots, writerVars, begin, got>>

-----------------------------------------------------------------------------
(* SpscQueue::Init: push the terminator and point everything at it. *)
Init ==
  /\ slots = <<>>
  /\ begin = 1
  /\ w_item = 1
  /\ f_item = 1
  /\ r_item = 1
  /\ contention = 1
  /\ storing = FALSE
  /\ got = <<>>

(* Write(value, incomplete): fill the terminator, push another one and, if *)
(* the message ends here, move the "flush up to here" pointer.             *)
Write(value, incomplete) ==
  /\ ~storing
  /\ Len(slots) < MaxItems
  /\ slots' = Append(slots, value)
  /\ f_item' = IF incomplete THEN f_item ELSE Back + 1
  /\ UNCHANGED <<w_item, storing, contention, readerVars>>

(* Unwrite: take back the last item unless it is completed. *)
Unwrite ==
  /\ ~storing
  /\ f_item # Back
  /\ slots' = SubSeq(slots, 1, Len(slots) - 1)
  /\ UNCHANGED <<writerVars, contention, readerVars>>

(* Flush up to its compare-and-swap.  On failure the CAS writes what it    *)
(* found (NULL) into w_item, its `expected' argument.                      *)
FlushCas ==
  /\ ~storing
  /\ w_item # f_item
  /\ \/ /\ contention = w_item
        /\ contention' = f_item
        /\ w_item' = f_item
        /\ UNCHANGED storing
     \/ /\ contention # w_item
        /\ w_item' = contention
        /\ storing' = TRUE
        /\ UNCHANGED contention
  /\ UNCHANGED <<slots, f_item, readerVars>>

(* Flush after a failed CAS: the reader is asleep; publish and return false *)
(* so that the caller wakes it.                                             *)
FlushStore ==
  /\ storing
  /\ contention' = f_item
  /\ w_item' = f_item
  /\ storing' = FALSE
  /\ UNCHANGED <<slots, f_item, readerVars>>

(* CheckRead with nothing prefetched: take what `contention' offers, and   *)
(* if that is nothing put NULL there, which tells the writer.              *)
Prefetch ==
  /\ ~Prefetched
  /\ \/ /\ contention = begin
        /\ contention' = NULL
        /\ r_item' = begin
     \/ /\ contention # begin
        /\ r_item' = contention
        /\ UNCHANGED contention
  /\ UNCHANGED <<slots, writerVars, begin, got>>

(* Read once CheckRead returned true. *)
Pop ==
  /\ Prefetched
  /\ got' = Append(got, slots[begin])
  /\ begin' = begin + 1
  /\ UNCHANGED <<slots, writerVars, contention, r_item>>

Next ==
  \/ \E value \in Items, incomplete \in BOOLEAN : Write(value, incomplete)
  \/ Unwrite
  \/ FlushCas
  \/ FlushStore
  \/ Prefetch
  \/ Pop

\* A writer that entered Flush leaves it: there is no loop and no lock in it.
\* The reader polls, as message_allocator_t::ConsumeIdleQueue does.
Fairness ==
  /\ WF_vars(FlushStore)
  /\ WF_vars(Prefetch \/ Pop)

Spec == Init /\ [][Next]_vars
FairSpec == Spec /\ Fairness
-----------------------------------------------------------------------------
(* The types of the variables, with the range of every position: no pointer *)
(* of the queue leaves the slots between the first one and the terminator.  *)
TypeOK ==
  /\ slots \in Seq(Items)
  /\ begin \in 1..Back
  /\ w_item \in 1..Back \cup {NULL}
  /\ f_item \in 1..Back
  /\ r_item \in 1..Back \cup {NULL}
  /\ contention \in 1..Back \cup {NULL}
  /\ storing \in BOOLEAN
  /\ got \in Seq(Items)

(* The element the reader may read without synchronisation is one that was  *)
(* flushed and completed, hence neither the terminator that Write fills nor *)
(* an element that Unwrite can take back ("both threads don't access the    *)
(* same element in unsynchronized manner", spsc_queue.hpp:18-20).           *)
ReaderSlotIsSettled ==
  Prefetched => /\ begin < r_item
                /\ r_item <= Flushed
                /\ Flushed <= f_item

(* A NULL in `contention' means that the reader consumed everything that    *)
(* was flushed and that nothing is prefetched: the writer which finds it    *)
(* there (Flush returns false) is the only one who can make it run again.   *)
SleeperConsumedAll ==
  contention = NULL => /\ begin = Flushed
                       /\ r_item \in {NULL, begin}

(* "The reader is asleep. Therefore we don't care about thread-safeness and *)
(* update c in non-atomic manner" (spsc_queue.hpp:246-250): between Flush's *)
(* failed CAS and its store nobody else changes the shared word, so that    *)
(* the store overwrites nothing.                                            *)
StoreIsUncontended ==
  [][storing /\ storing' => contention = NULL /\ contention' = NULL]_vars

(* The queue implements the channel: items come out in the order they went  *)
(* in, none lost and none twice; a message becomes visible as a whole; the  *)
(* reader sleeps only when it missed nothing and a flush ends its sleep.    *)
ChannelView == INSTANCE Channel WITH
  staged   <- SubSeq(slots, Flushed, Len(slots)),
  complete <- f_item - Flushed,
  visible  <- SubSeq(slots, begin, Flushed - 1),
  taken    <- got,
  asleep   <- contention = NULL

ImplementsChannel == ChannelView!Spec

(* Whatever was flushed is read, if the reader keeps polling.               *)
FlushedIsRead ==
  \A position \in 1..MaxItems : (position < Flushed) ~> (position < begin)
=============================================================================
