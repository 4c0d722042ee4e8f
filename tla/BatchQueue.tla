----------------------------- MODULE BatchQueue -----------------------------
(***************************************************************************)
(* BatchQueue<T, N> of src/src/spsc_queue.hpp: the storage of the queue, a *)
(* doubly linked list of chunks of N slots, and one spare chunk that is    *)
(* handed from the reader (Pop) to the writer (Push) by atomic exchange.   *)
(*                                                                         *)
(* The heap is a function whose domain is the set of chunks that are       *)
(* allocated.  malloc may return any address that is not, one freed a      *)
(* moment ago included.  Push and Pop touch the other thread only in their *)
(* exchange: a Push that needs a chunk is PushTakeChunk (fill the slot,    *)
(* take the spare or allocate) and PushLink; a Pop that leaves a chunk is  *)
(* PopAdvance and PopRetire (exchange and free).                           *)
(***************************************************************************)
EXTENDS Integers, Sequences, FiniteSets

CONSTANTS
  Items,                \* T: what a slot can hold
  NULL,                 \* the null pointer, and what an unwritten slot holds
  Chunks,               \* addresses malloc can return
  N,                    \* slots per chunk; 256 in pipe.hpp
  MallocMayFail         \* whether malloc may return NULL, in Init or in Push

ASSUME BatchAssumption ==
  /\ N \in Nat /\ N >= 2
  /\ IsFiniteSet(Chunks)
  /\ NULL \notin Chunks \cup Items \cup Int
  /\ MallocMayFail \in BOOLEAN

VARIABLES
  heap,                 \* allocated chunk -> its values, prev and next
  begin,                \* begin_chunk_, begin_pos_: reader's
  back,                 \* back_chunk_, back_pos_: writer's
  end,                  \* end_chunk_, end_pos_: writer's
  spare,                \* spare_chunk_, the atomic
  linking,              \* chunk a Push took and has not linked, or NULL
  retiring              \* chunk a Pop left and has not handed over, or NULL

batchVars == <<heap, begin, back, end, spare, linking, retiring>>

-----------------------------------------------------------------------------
Address == [chunk : Chunks, pos : 0..N - 1]

\* A chunk as malloc returns it.  `first' is history: the position, in the
\* order of all the items ever pushed, of slot 0 of a chunk that is linked.
Blank == [values |-> [pos \in 0..N - 1 |-> NULL], prev |-> NULL, next |-> NULL, first |-> 1]

ValueAt(address) == heap[address.chunk].values[address.pos]

\* malloc: an address of the heap h that was not allocated now is.
With(h, chunk) == [c \in DOMAIN h \cup {chunk} |-> IF c = chunk THEN Blank ELSE h[c]]

\* free: nothing happens when the pointer is NULL.
Freed(chunk) == [c \in DOMAIN heap \ {chunk} |-> heap[c]]

\* The chunks from begin_chunk_ to end_chunk_, following next.
Chain ==
  LET upTo[i \in 1..Cardinality(Chunks)] ==
        IF i = 1 THEN <<begin.chunk>>
        ELSE LET before == upTo[i - 1]
                 last == before[Len(before)]
             IN  IF last = end.chunk \/ last \notin DOMAIN heap
                 THEN before
                 ELSE Append(before, heap[last].next)
  IN  upTo[Cardinality(Chunks)]

\* What the destructor frees: the chunks of the list and the spare one.
Destroyed == { Chain[i] : i \in 1..Len(Chain) } \cup {spare}

-----------------------------------------------------------------------------
(* Operations with a bug in them, for the properties of ChunkedSpscQueue. *)
PopRetireLeaks ==
  /\ retiring # NULL
  /\ spare' = retiring
  /\ retiring' = NULL
  /\ UNCHANGED <<heap, begin, back, end, linking>>

PushTakeChunkByLoad(item) ==
  /\ end.pos + 1 = N
  /\ back' = end
  /\ end' = [end EXCEPT !.pos = N]
  /\ LET filled == [heap EXCEPT ![back.chunk].values[back.pos] = item]
     IN  \/ /\ spare # NULL
            /\ linking' = spare
            /\ heap' = filled
         \/ /\ spare = NULL
            /\ \E chunk \in Chunks \ DOMAIN heap :
                 linking' = chunk /\ heap' = With(filled, chunk)
  /\ UNCHANGED <<begin, spare, retiring>>

UnpushKeepsEnd ==
  /\ back' = IF back.pos > 0 THEN [back EXCEPT !.pos = @ - 1]
                             ELSE [chunk |-> heap[back.chunk].prev, pos |-> N - 1]
  /\ UNCHANGED <<heap, begin, end, spare, linking, retiring>>

-----------------------------------------------------------------------------
(* Init, and the Push of the terminator by SpscQueue::Init. *)
InitAllocates ==
  \E chunk \in Chunks :
    /\ heap = [c \in {chunk} |-> Blank]
    /\ begin = [chunk |-> chunk, pos |-> 0]
    /\ back = begin
    /\ end = [chunk |-> chunk, pos |-> 1]
    /\ spare = NULL
    /\ linking = NULL
    /\ retiring = NULL

(* Init whose malloc fails: there is no chunk.  SpscQueue::Init pushes all   *)
(* the same, which moves positions about in a chunk that is null; a cursor   *)
(* in it, the address of slot 0, is NULL.                                    *)
InitFails ==
  /\ MallocMayFail
  /\ heap = [c \in {} |-> Blank]
  /\ begin = NULL /\ back = NULL /\ end = NULL
  /\ spare = NULL
  /\ linking = NULL
  /\ retiring = NULL

InitBatch == InitAllocates \/ InitFails

\* The caller stores the item in Back() and then pushes.
Filled(item) == [heap EXCEPT ![back.chunk].values[back.pos] = item]

(* Push that stays within the chunk of the end cursor. *)
PushWithin(item) ==
  /\ end.pos + 1 # N
  /\ heap' = Filled(item)
  /\ back' = end
  /\ end' = [end EXCEPT !.pos = @ + 1]
  /\ UNCHANGED <<begin, spare, linking, retiring>>

(* Push that fills the chunk: take the spare chunk or allocate one. *)
PushTakeChunk(item) ==
  /\ end.pos + 1 = N
  /\ back' = end
  /\ end' = [end EXCEPT !.pos = N]
  /\ \/ /\ spare # NULL
        /\ spare' = NULL
        /\ linking' = spare
        /\ heap' = Filled(item)
     \/ /\ spare = NULL
        /\ UNCHANGED spare
        /\ \E chunk \in Chunks \ DOMAIN heap :
             linking' = chunk /\ heap' = With(Filled(item), chunk)
  /\ UNCHANGED <<begin, retiring>>

(* The rest of that Push: link the chunk and move the end cursor into it. *)
PushLink ==
  /\ linking # NULL
  /\ heap' = [heap EXCEPT ![end.chunk].next = linking,
                          ![linking].prev = end.chunk,
                          ![linking].first = heap[end.chunk].first + N]
  /\ end' = [chunk |-> linking, pos |-> 0]
  /\ linking' = NULL
  /\ UNCHANGED <<begin, back, spare, retiring>>

(* Push whose malloc fails: the end cursor is restored, back is not. *)
PushFails(item) ==
  /\ MallocMayFail
  /\ end.pos + 1 = N
  /\ spare = NULL
  /\ heap' = Filled(item)
  /\ back' = end
  /\ UNCHANGED <<begin, end, spare, linking, retiring>>

\* One slot backwards in the list.
StepBack(cursor) ==
  IF cursor.pos > 0
  THEN [cursor EXCEPT !.pos = @ - 1]
  ELSE [chunk |-> heap[cursor.chunk].prev, pos |-> N - 1]

(* Unpush: both cursors go back; a chunk the end leaves is freed. *)
Unpush ==
  /\ back' = StepBack(back)
  /\ end' = StepBack(end)
  /\ heap' = IF end.pos > 0
             THEN heap
             ELSE [Freed(heap[end'.chunk].next) EXCEPT ![end'.chunk].next = NULL]
  /\ UNCHANGED <<begin, spare, linking, retiring>>

(* Pop up to its exchange. *)
PopAdvance ==
  /\ \/ /\ begin.pos + 1 # N
        /\ begin' = [begin EXCEPT !.pos = @ + 1]
        /\ UNCHANGED <<heap, retiring>>
     \/ /\ begin.pos + 1 = N
        /\ begin' = [chunk |-> heap[begin.chunk].next, pos |-> 0]
        /\ heap' = [heap EXCEPT ![begin'.chunk].prev = NULL]
        /\ retiring' = begin.chunk
  /\ UNCHANGED <<back, end, spare, linking>>

(* The rest of a Pop that left a chunk: it becomes the spare one, and the   *)
(* spare one before it is freed.                                            *)
PopRetire ==
  /\ retiring # NULL
  /\ spare' = retiring
  /\ heap' = Freed(spare)
  /\ retiring' = NULL
  /\ UNCHANGED <<begin, back, end, linking>>
=============================================================================
