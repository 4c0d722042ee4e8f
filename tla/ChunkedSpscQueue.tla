-------------------------- MODULE ChunkedSpscQueue --------------------------
(***************************************************************************)
(* SpscQueue<T, N> over the chunks of BatchQueue<T, N>: the queue with     *)
(* the addresses the program compares.  An address is used again as soon   *)
(* as its chunk is (by way of the spare chunk, or of free and malloc), and *)
(* both compare-and-swaps compare addresses.  The question is whether the  *)
(* queue still is the queue of positions of module SpscQueue.              *)
(***************************************************************************)
EXTENDS BatchQueue

CONSTANT MaxItems       \* bound: at most so many items are accepted

ASSUME ChunkedAssumption == MaxItems \in Nat /\ NULL \notin Address

VARIABLES
  w_item,               \* address of the first un-flushed item
  f_item,               \* address of the first item to be flushed
  r_item,               \* address of the first un-prefetched item
  contention,           \* address past the last flushed item, or NULL
  storing,              \* Flush is between its failed CAS and its store
  more,                 \* the `incomplete' of a Write between its two steps
  crashed,              \* the program stored an item through a null pointer
  accepted,             \* history: items Write took and Unwrite did not take back
  got                   \* history: what Read returned

pointers == <<w_item, f_item, r_item, contention>>
vars == <<batchVars, pointers, storing, more, crashed, accepted, got>>

\* Init found no memory: the queue has no slot, and every pointer is null.
NoStorage ==
  /\ DOMAIN heap = {}
  /\ begin = NULL /\ back = NULL /\ end = NULL
  /\ spare = NULL /\ linking = NULL /\ retiring = NULL
  /\ pointers = <<NULL, NULL, NULL, NULL>>

Prefetched == r_item # NULL /\ begin # r_item

\* The writer, or the reader, is in none of its operations.
WriterIdle == ~storing /\ linking = NULL
ReaderIdle == retiring = NULL

-----------------------------------------------------------------------------
(* Operations with a bug in them, for IntegrityHolds and ReadIsInOrder. *)
UnwriteUnflushed ==
  /\ WriterIdle
  /\ w_item # back
  /\ Unpush
  /\ accepted' = SubSeq(accepted, 1, Len(accepted) - 1)
  /\ UNCHANGED <<w_item, f_item, r_item, contention, storing, more, got>>

FlushCasToBack ==
  /\ WriterIdle
  /\ w_item # f_item
  /\ IF contention = w_item
     THEN contention' = back /\ w_item' = back /\ UNCHANGED storing
     ELSE w_item' = contention /\ storing' = TRUE /\ UNCHANGED contention
  /\ UNCHANGED <<batchVars, f_item, r_item, more, accepted, got>>

-----------------------------------------------------------------------------
(* Init ignores what the Init of its storage returns, and returns 0. *)
Init ==
  /\ InitBatch
  /\ w_item = back
  /\ f_item = back
  /\ r_item = back
  /\ contention = back
  /\ storing = FALSE
  /\ more = FALSE
  /\ crashed = FALSE
  /\ accepted = <<>>
  /\ got = <<>>

(* Write.  The result of Push is ignored: it accepts the item in any case. *)
Write(item, incomplete) ==
  /\ WriterIdle
  /\ back # NULL
  /\ Len(accepted) < MaxItems
  /\ accepted' = Append(accepted, item)
  /\ \/ /\ PushWithin(item) \/ PushFails(item)
        /\ f_item' = IF incomplete THEN f_item ELSE back'
        /\ UNCHANGED more
     \/ /\ PushTakeChunk(item)
        /\ more' = incomplete
        /\ UNCHANGED f_item
  /\ UNCHANGED <<w_item, r_item, contention, storing, got>>

(* The rest of a Write whose Push takes a chunk. *)
WriteLink ==
  /\ PushLink
  /\ f_item' = IF more THEN f_item ELSE back
  /\ more' = FALSE
  /\ UNCHANGED <<w_item, r_item, contention, storing, accepted, got>>

(* A Write to a queue that got no memory in Init: Back() is null. *)
WriteToNull ==
  /\ back = NULL
  /\ crashed' = TRUE
  /\ UNCHANGED <<batchVars, pointers, storing, more, accepted, got>>

Unwrite ==
  /\ WriterIdle
  /\ f_item # back
  /\ Unpush
  /\ accepted' = SubSeq(accepted, 1, Len(accepted) - 1)
  /\ UNCHANGED <<w_item, f_item, r_item, contention, storing, more, got>>

FlushCas ==
  /\ WriterIdle
  /\ w_item # f_item
  /\ \/ /\ contention = w_item
        /\ contention' = f_item
        /\ w_item' = f_item
        /\ UNCHANGED storing
     \/ /\ contention # w_item
        /\ w_item' = contention
        /\ storing' = TRUE
        /\ UNCHANGED contention
  /\ UNCHANGED <<batchVars, f_item, r_item, more, accepted, got>>

FlushStore ==
  /\ storing
  /\ contention' = f_item
  /\ w_item' = f_item
  /\ storing' = FALSE
  /\ UNCHANGED <<batchVars, f_item, r_item, more, accepted, got>>

Prefetch ==
  /\ ReaderIdle
  /\ ~Prefetched
  /\ \/ /\ contention = begin
        /\ contention' = NULL
        /\ r_item' = begin
     \/ /\ contention # begin
        /\ r_item' = contention
        /\ UNCHANGED contention
  /\ UNCHANGED <<batchVars, w_item, f_item, storing, more, accepted, got>>

(* Read with an item prefetched: copy the front element, then Pop. *)
Pop ==
  /\ ReaderIdle
  /\ Prefetched
  /\ got' = Append(got, ValueAt(begin))
  /\ PopAdvance
  /\ UNCHANGED <<w_item, f_item, r_item, contention, storing, more, accepted>>

PopDone ==
  /\ PopRetire
  /\ UNCHANGED <<w_item, f_item, r_item, contention, storing, more, accepted, got>>

Operation ==
  \/ \E item \in Items, incomplete \in BOOLEAN : Write(item, incomplete)
  \/ WriteLink
  \/ Unwrite
  \/ FlushCas
  \/ FlushStore
  \/ Prefetch
  \/ Pop
  \/ PopDone

Next ==
  /\ ~crashed
  /\ \/ Operation /\ UNCHANGED crashed
     \/ WriteToNull

Spec == Init /\ [][Next]_vars
-----------------------------------------------------------------------------
(* The types, with what a pointer may point at: the cursors and the four    *)
(* pointers of the queue refer to slots of chunks that are allocated, or,   *)
(* where Init got no memory, all of them are null.                          *)
TypeOK ==
  LET Live == { a \in Address : a.chunk \in DOMAIN heap }
  IN  /\ DOMAIN heap \subseteq Chunks
      /\ \/ MallocMayFail /\ NoStorage
         \/ /\ begin \in Live
            /\ back \in Live
            /\ end.chunk \in DOMAIN heap
            /\ end.pos \in IF linking = NULL THEN 0..N - 1 ELSE {N}
            /\ spare \in DOMAIN heap \cup {NULL}
            /\ linking \in DOMAIN heap \cup {NULL}
            /\ retiring \in DOMAIN heap \cup {NULL}
            /\ {w_item, f_item, r_item, contention} \subseteq Live \cup {NULL}
      /\ storing \in BOOLEAN /\ more \in BOOLEAN /\ crashed \in BOOLEAN
      /\ accepted \in Seq(Items) /\ got \in Seq(Items)

(* Every allocated chunk has exactly one owner - the list, the spare        *)
(* pointer, or the one thread that is moving it between them - so none      *)
(* leaks, none is freed twice, and the destructor (spsc_queue.hpp:38-51)    *)
(* releases them all whenever no operation is in progress.  If Init got no  *)
(* memory there is no chunk.                                                *)
EveryChunkHasOneOwner ==
  IF begin = NULL THEN DOMAIN heap = {} ELSE
  LET chain == Chain
      inHand == {linking, retiring} \ {NULL}
  IN  /\ Destroyed \cup inHand \cup {NULL} = DOMAIN heap \cup {NULL}
      /\ Destroyed \cap inHand = {}
      /\ linking # NULL => linking # retiring
      /\ \A i, j \in 1..Len(chain) : i # j => chain[i] # chain[j]
      /\ \A i \in 1..Len(chain) : chain[i] # spare
      /\ chain[Len(chain)] = end.chunk
      /\ heap[begin.chunk].first + begin.pos = Len(got) + 1
      /\ \A i \in 1..Len(chain) - 1 : heap[chain[i + 1]].first = heap[chain[i]].first + N

(* The position, in the order of all the items ever written, that an        *)
(* address stands for; EveryChunkHasOneOwner ties `first' to the list.      *)
PositionOf(address) ==
  CASE address = NULL -> NULL
    [] address # NULL /\ address.chunk \in DOMAIN heap -> heap[address.chunk].first + address.pos
    [] OTHER -> 0

(* With the chunks being recycled under it the queue implements the queue   *)
(* of positions: no reused address makes a compare-and-swap or a comparison *)
(* succeed that should not, and no item is overwritten before it is read.   *)
PositionView == INSTANCE SpscQueue WITH
  slots      <- IF linking = NULL THEN accepted
                ELSE SubSeq(accepted, 1, Len(accepted) - 1),
  begin      <- PositionOf(begin),
  w_item     <- PositionOf(w_item),
  f_item     <- PositionOf(f_item),
  r_item     <- PositionOf(r_item),
  contention <- PositionOf(contention)

ImplementsSpscQueue == PositionView!Spec

(* Whether malloc fails in a Push or not, the writer stays away from the     *)
(* slots the reader may read and a sleeping reader has consumed all that    *)
(* was flushed: a failure can cost items but never the integrity of the     *)
(* queue.  If malloc fails in Init nothing gets into the queue or out of    *)
(* it, and the pointers stay null; only then can the program crash.         *)
IntegrityHolds ==
  IF back = NULL
  THEN NoStorage /\ accepted = <<>> /\ got = <<>>
  ELSE /\ PositionView!ReaderSlotIsSettled
       /\ PositionView!SleeperConsumedAll
       /\ PositionOf(f_item) <= PositionOf(back)
       /\ ~crashed

(* A queue whose Init returned 0 can be written to ("Initialize the queue.   *)
(* May fail when memory allocation failed", spsc_queue.hpp:194, so a caller  *)
(* that was told of no failure has a queue).                                *)
InitializedIsUsable == ~crashed

(* A Write that returned 0 took the item: it is read, or is in the queue    *)
(* at its place (spsc_queue.hpp:207-222; Push and Write "may fail on memory *)
(* allocation", so a lost item would have to be reported).                  *)
AcceptedIsKept ==
  linking = NULL =>
    \A i \in 1..Len(accepted) :
      \/ i <= Len(got) /\ got[i] = accepted[i]
      \/ /\ i > Len(got)
         /\ \E address \in Address :
              /\ PositionOf(address) = i
              /\ PositionOf(address) < PositionOf(back)
              /\ ValueAt(address) = accepted[i]

(* Whether malloc fails or not, what is read was written, in the order it   *)
(* was written, and each item is read once at most (Read copies the front   *)
(* of the queue, spsc_queue.hpp:292-302).                                   *)
ReadIsInOrder ==
  \E from \in [1..Len(got) -> 1..Len(accepted)] :
    \A i \in 1..Len(got) :
      /\ got[i] = accepted[from[i]]
      /\ \A j \in 1..Len(got) : i < j => from[i] < from[j]
=============================================================================
