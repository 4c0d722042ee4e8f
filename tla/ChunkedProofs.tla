--------------------------- MODULE ChunkedProofs ----------------------------
(***************************************************************************)
(* Proofs about ChunkedSpscQueue, for every number of slots in a chunk,    *)
(* of chunks and of items, with a malloc that fails or does not.           *)
(*                                                                         *)
(* The storage: every chunk in the list knows its neighbours, starts N     *)
(* positions after its predecessor, and lies between the chunk of `begin'  *)
(* and the chunk of `end' (Linked).  So an address of the list stands for  *)
(* one position (PlacesDiffer), and an operation moves no position between *)
(* the cursors (Moved).  The queue: its pointers are addresses of the list *)
(* between the cursors, in the order begin, flushed, f_item, back (Order). *)
(* Chunks that are freed or reused lie outside the cursors, hence nothing  *)
(* a pointer of the queue refers to is touched.                            *)
(*                                                                         *)
(* From that invariant: no dangling pointer, the integrity of the queue,   *)
(* the owners of the chunks, the order of what is read (by a map from the  *)
(* positions to what was written, Came) and, when malloc does not fail,    *)
(* the refinement of the queue of positions, hence of the channel.  A      *)
(* queue whose Init found no memory is a case of its own (Empty).          *)
(***************************************************************************)
EXTENDS ChunkedSpscQueue, SequenceTheorems, FiniteSetTheorems, NaturalsInduction, TLAPS

\* A chunk of the heap.
ChunkType == [values : [0..N - 1 -> Items \cup {NULL}], prev : Chunks \cup {NULL},
              next : Chunks \cup {NULL}, first : Nat]

\* The chunks of the list: all but those somebody has in hand, and the spare one.
Listed == DOMAIN heap \ {spare, linking, retiring}

\* The position an address stands for.
Place(a) == heap[a.chunk].first + a.pos

HeapTyped ==
  /\ DOMAIN heap \subseteq Chunks
  /\ \A c \in DOMAIN heap : heap[c] \in ChunkType
  /\ {spare, linking, retiring} \subseteq DOMAIN heap \cup {NULL}
  /\ spare # NULL => spare # linking /\ spare # retiring
  /\ linking # NULL => linking # retiring
  /\ begin \in Address /\ back \in Address
  /\ end \in [chunk : Chunks, pos : 0..N]

Linked ==
  /\ {begin.chunk, back.chunk, end.chunk} \subseteq Listed
  /\ \A c \in Listed : heap[begin.chunk].first <= heap[c].first /\ heap[c].first <= heap[end.chunk].first
  /\ \A c, d \in Listed :
       c = d \/ heap[c].first + N <= heap[d].first \/ heap[d].first + N <= heap[c].first
  /\ \A c \in Listed \ {end.chunk} :
       /\ heap[c].next \in Listed
       /\ heap[heap[c].next].prev = c
       /\ heap[heap[c].next].first = heap[c].first + N
  /\ \A c \in Listed \ {begin.chunk} :
       /\ heap[c].prev \in Listed
       /\ heap[heap[c].prev].next = c
       /\ heap[heap[c].prev].first + N = heap[c].first

CursorsFit ==
  /\ IF linking = NULL THEN end.pos < N ELSE end.pos = N
  /\ Place(end) \in {Place(back), Place(back) + 1}
  /\ linking # NULL \/ ~MallocMayFail => Place(end) = Place(back) + 1

StorageInv == HeapTyped /\ Linked /\ CursorsFit

-----------------------------------------------------------------------------
(* What the operations do to the heap.                                      *)

LEMMA FilledFacts ==
  ASSUME HeapTyped, NEW item \in Items
  PROVE  /\ DOMAIN Filled(item) = DOMAIN heap
         /\ \A c \in DOMAIN heap :
              /\ Filled(item)[c] \in ChunkType
              /\ Filled(item)[c].first = heap[c].first
              /\ Filled(item)[c].prev = heap[c].prev
              /\ Filled(item)[c].next = heap[c].next
              /\ \A i \in 0..N - 1 :
                   Filled(item)[c].values[i] = IF c = back.chunk /\ i = back.pos THEN item
                                               ELSE heap[c].values[i]
  BY DEF HeapTyped, Filled, ChunkType, Address

LEMMA FreedFacts ==
  ASSUME HeapTyped, NEW chunk
  PROVE  /\ DOMAIN Freed(chunk) = DOMAIN heap \ {chunk}
         /\ \A c \in DOMAIN heap \ {chunk} : Freed(chunk)[c] = heap[c]
  BY DEF Freed

LEMMA GrownFacts ==
  ASSUME HeapTyped, NEW item \in Items, NEW chunk \in Chunks \ DOMAIN heap
  PROVE  /\ DOMAIN With(Filled(item), chunk) = DOMAIN heap \cup {chunk}
         /\ With(Filled(item), chunk)[chunk] = Blank
         /\ Blank \in ChunkType
         /\ \A c \in DOMAIN heap : With(Filled(item), chunk)[c] = Filled(item)[c]
<1>1. Blank \in ChunkType
  BY DEF Blank, ChunkType
<1>2. DOMAIN Filled(item) = DOMAIN heap
  BY FilledFacts
<1>3. QED
  BY <1>1, <1>2 DEF With

-----------------------------------------------------------------------------
(* The operations of the storage.                                           *)

\* An address between the cursors goes on standing for its position, and no
\* address stands for a position of another one.
Moved ==
  /\ \A a \in Address :
       a.chunk \in Listed /\ Place(begin)' <= Place(a) /\ Place(a) <= Place(back)'
         => a.chunk \in Listed' /\ Place(a)' = Place(a)
  /\ \A a \in Address :
       a.chunk \in Listed' /\ Place(a)' < Place(back)' => a.chunk \in Listed /\ Place(a)' = Place(a)

SameValues ==
  \A a \in Address : a.chunk \in Listed /\ a.chunk \in Listed' => ValueAt(a)' = ValueAt(a)

Stored(item) ==
  \A a \in Address : a.chunk \in Listed /\ a.chunk \in Listed'
    => ValueAt(a)' = IF a = back THEN item ELSE ValueAt(a)

\* The list itself is left alone.
SameList ==
  /\ Listed' = Listed
  /\ begin'.chunk = begin.chunk /\ end'.chunk = end.chunk /\ back'.chunk \in Listed
  /\ \A c \in Listed : /\ heap'[c].first = heap[c].first
                       /\ heap'[c].next = heap[c].next
                       /\ heap'[c].prev = heap[c].prev

LEMMA ListedTyped ==
  ASSUME HeapTyped, Linked
  PROVE  /\ \A c \in Listed : c \in DOMAIN heap /\ heap[c] \in ChunkType /\ heap[c].first \in Nat
         /\ \A a \in Address : a.chunk \in Listed => Place(a) \in Nat
         /\ Place(begin) \in Nat /\ Place(back) \in Nat /\ Place(end) \in Nat
         /\ begin.pos \in 0..N - 1 /\ back.pos \in 0..N - 1 /\ end.pos \in 0..N
<1>1. N \in Nat
  BY BatchAssumption DEF BatchAssumption
<1>2. \A c \in Listed : c \in DOMAIN heap /\ heap[c] \in ChunkType
  BY DEF HeapTyped, Listed
<1>3. \A r \in ChunkType : r.first \in Nat
  BY DEF ChunkType
<1>4. \A c \in Listed : heap[c].first \in Nat
  BY <1>2, <1>3
<1>5. \A a \in Address : a.pos \in 0..N - 1 /\ a.pos \in Nat
  BY <1>1 DEF Address
<1>6. begin.pos \in 0..N - 1 /\ back.pos \in 0..N - 1 /\ end.pos \in 0..N
  BY <1>5 DEF HeapTyped
<1>7. \A a \in Address : a.chunk \in Listed => Place(a) \in Nat
  BY <1>4, <1>5 DEF Place
<1>8. Place(begin) \in Nat /\ Place(back) \in Nat
  BY <1>7 DEF HeapTyped, Linked
<1>9. Place(end) \in Nat
  BY <1>1, <1>4, <1>6 DEF Linked, Place
<1>10. QED
  BY <1>2, <1>4, <1>6, <1>7, <1>8, <1>9

LEMMA SameListKeeps ==
  ASSUME HeapTyped, Linked, SameList
  PROVE  Linked' /\ Moved
<1>1. Linked'
  BY DEF SameList, Linked
<1>2. \A a \in Address : a.chunk \in Listed => Place(a)' = Place(a)
  BY DEF SameList, Place
<1>3. QED
  BY <1>1, <1>2 DEF SameList, Moved

\* Two addresses of the list stand for two positions.
LEMMA PlacesDiffer ==
  ASSUME HeapTyped, Linked, NEW a \in Address, NEW b \in Address,
         a.chunk \in Listed, b.chunk \in Listed, Place(a) = Place(b)
  PROVE  a = b
<1>1. /\ a.pos \in 0..N - 1 /\ b.pos \in 0..N - 1 /\ N \in Nat
      /\ heap[a.chunk].first \in Nat /\ heap[b.chunk].first \in Nat
  BY ListedTyped, BatchAssumption DEF BatchAssumption, Address
<1>2. \/ a.chunk = b.chunk
      \/ heap[a.chunk].first + N <= heap[b.chunk].first
      \/ heap[b.chunk].first + N <= heap[a.chunk].first
  BY DEF Linked
<1>3. a.chunk = b.chunk /\ a.pos = b.pos
  BY <1>1, <1>2 DEF Place
<1>4. QED
  BY <1>3 DEF Address

\* Which of two addresses comes first.
LEMMA PlacesApart ==
  ASSUME HeapTyped, Linked, NEW a \in Address, NEW b \in Address,
         a.chunk \in Listed, b.chunk \in Listed
  PROVE  /\ a.chunk # b.chunk /\ Place(a) <= Place(b)
              => heap[a.chunk].first + N <= heap[b.chunk].first
         /\ a.chunk = b.chunk => Place(b) - Place(a) = b.pos - a.pos
<1>1. /\ a.pos \in 0..N - 1 /\ b.pos \in 0..N - 1 /\ N \in Nat
      /\ heap[a.chunk].first \in Nat /\ heap[b.chunk].first \in Nat
  BY ListedTyped, BatchAssumption DEF BatchAssumption, Address
<1>2. \/ a.chunk = b.chunk
      \/ heap[a.chunk].first + N <= heap[b.chunk].first
      \/ heap[b.chunk].first + N <= heap[a.chunk].first
  BY DEF Linked
<1>3. QED
  BY <1>1, <1>2 DEF Place

LEMMA PushWithinKeeps ==
  ASSUME StorageInv, NEW item \in Items, PushWithin(item), linking = NULL
  PROVE  /\ StorageInv' /\ Moved /\ Stored(item)
         /\ Place(begin)' = Place(begin) /\ Place(back)' = Place(end)
         /\ linking' = NULL /\ retiring' = retiring /\ back' \in Address
<1> USE DEF StorageInv
<1>1. /\ DOMAIN heap' = DOMAIN heap
      /\ \A c \in DOMAIN heap : heap'[c] \in ChunkType /\ heap'[c].first = heap[c].first
           /\ heap'[c].prev = heap[c].prev /\ heap'[c].next = heap[c].next
           /\ \A i \in 0..N - 1 : heap'[c].values[i] = IF c = back.chunk /\ i = back.pos THEN item
                                                        ELSE heap[c].values[i]
  BY FilledFacts DEF PushWithin
<1>2. /\ begin' = begin /\ spare' = spare /\ linking' = linking /\ retiring' = retiring
      /\ back' = end /\ end' = [end EXCEPT !.pos = @ + 1] /\ end.pos + 1 # N
  BY DEF PushWithin
<1>3. N \in Nat /\ end.pos \in 0..N - 1 /\ end.chunk \in Chunks
  BY BatchAssumption DEF BatchAssumption, HeapTyped, CursorsFit
<1>4. end \in Address /\ end' \in [chunk : Chunks, pos : 0..N] /\ end'.chunk = end.chunk
      /\ end'.pos = end.pos + 1 /\ end.pos + 1 < N
  BY <1>2, <1>3 DEF HeapTyped, Address
<1>5. Listed' = Listed
  BY <1>1, <1>2 DEF Listed
<1>6. SameList
  BY <1>1, <1>2, <1>4, <1>5 DEF SameList, Listed, Linked
<1>7. HeapTyped'
  BY <1>1, <1>2, <1>4 DEF HeapTyped
<1>8. Linked' /\ Moved
  BY <1>6, SameListKeeps
<1>9. Place(begin)' = Place(begin) /\ Place(back)' = Place(end) /\ Place(end)' = Place(end) + 1
  <2>1. /\ heap'[begin.chunk].first = heap[begin.chunk].first
        /\ heap'[end.chunk].first = heap[end.chunk].first
    BY <1>6 DEF SameList, Linked
  <2>2. heap[end.chunk].first \in Nat
    BY ListedTyped DEF Linked
  <2>3. QED
    BY <2>1, <2>2, <1>2, <1>3, <1>4 DEF Place
<1>10. CursorsFit'
  BY <1>2, <1>4, <1>9 DEF CursorsFit
<1>11. Stored(item)
  BY <1>1 DEF Stored, ValueAt, Address, Listed, HeapTyped
<1>12. QED
  BY <1>2, <1>4, <1>7, <1>8, <1>9, <1>10, <1>11

LEMMA PushFailsKeeps ==
  ASSUME StorageInv, NEW item \in Items, PushFails(item), linking = NULL
  PROVE  /\ StorageInv' /\ Moved /\ Stored(item)
         /\ Place(begin)' = Place(begin) /\ Place(back)' = Place(end)
         /\ linking' = NULL /\ retiring' = retiring /\ back' \in Address
         /\ MallocMayFail
<1> USE DEF StorageInv
<1>1. /\ DOMAIN heap' = DOMAIN heap
      /\ \A c \in DOMAIN heap : heap'[c] \in ChunkType /\ heap'[c].first = heap[c].first
           /\ heap'[c].prev = heap[c].prev /\ heap'[c].next = heap[c].next
           /\ \A i \in 0..N - 1 : heap'[c].values[i] = IF c = back.chunk /\ i = back.pos THEN item
                                                        ELSE heap[c].values[i]
  BY FilledFacts DEF PushFails
<1>2. /\ begin' = begin /\ spare' = spare /\ linking' = linking /\ retiring' = retiring
      /\ back' = end /\ end' = end /\ MallocMayFail
  BY DEF PushFails
<1>3. N \in Nat /\ end.pos \in 0..N - 1 /\ end.chunk \in Chunks
  BY BatchAssumption DEF BatchAssumption, HeapTyped, CursorsFit
<1>4. end \in Address
  BY <1>2, <1>3 DEF HeapTyped, Address
<1>5. Listed' = Listed
  BY <1>1, <1>2 DEF Listed
<1>6. SameList
  BY <1>1, <1>2, <1>4, <1>5 DEF SameList, Listed, Linked
<1>7. HeapTyped'
  BY <1>1, <1>2, <1>4 DEF HeapTyped
<1>8. Linked' /\ Moved
  BY <1>6, SameListKeeps
<1>9. Place(begin)' = Place(begin) /\ Place(back)' = Place(end) /\ Place(end)' = Place(end)
  BY <1>1, <1>2, <1>4, ListedTyped DEF Place, Linked, Listed
<1>10. CursorsFit'
  BY <1>2, <1>4, <1>9 DEF CursorsFit
<1>11. Stored(item)
  BY <1>1 DEF Stored, ValueAt, Address, Listed, HeapTyped
<1>12. QED
  BY <1>2, <1>4, <1>7, <1>8, <1>9, <1>10, <1>11

LEMMA PushTakeChunkKeeps ==
  ASSUME StorageInv, NEW item \in Items, PushTakeChunk(item), linking = NULL
  PROVE  /\ StorageInv' /\ Moved /\ Stored(item)
         /\ Place(begin)' = Place(begin) /\ Place(back)' = Place(end)
         /\ linking' # NULL /\ retiring' = retiring /\ back' \in Address
<1> USE DEF StorageInv
<1>1. /\ begin' = begin /\ retiring' = retiring /\ back' = end /\ end' = [end EXCEPT !.pos = N]
      /\ end.pos + 1 = N
  BY DEF PushTakeChunk
<1>2. \A c \in DOMAIN heap :
        /\ Filled(item)[c] \in ChunkType /\ Filled(item)[c].first = heap[c].first
        /\ Filled(item)[c].prev = heap[c].prev /\ Filled(item)[c].next = heap[c].next
        /\ \A i \in 0..N - 1 : Filled(item)[c].values[i] = IF c = back.chunk /\ i = back.pos THEN item
                                                            ELSE heap[c].values[i]
  BY FilledFacts
<1>3. /\ DOMAIN heap' \subseteq Chunks
      /\ \A c \in DOMAIN heap' : heap'[c] \in ChunkType
      /\ \A c \in DOMAIN heap : c \in DOMAIN heap' /\ heap'[c] = Filled(item)[c]
      /\ spare' = NULL /\ linking' \in DOMAIN heap' /\ linking' # retiring /\ linking' # NULL
      /\ Listed' = Listed
  <2> USE BatchAssumption DEF BatchAssumption
  <2>1. CASE spare # NULL /\ spare' = NULL /\ linking' = spare /\ heap' = Filled(item)
    <3>1. DOMAIN heap' = DOMAIN heap
      BY <2>1, FilledFacts
    <3>2. QED
      BY <2>1, <3>1, <1>1, <1>2 DEF HeapTyped, Listed
  <2>2. CASE spare = NULL /\ spare' = spare
             /\ \E chunk \in Chunks \ DOMAIN heap : linking' = chunk /\ heap' = With(Filled(item), chunk)
    <3>1. PICK chunk \in Chunks \ DOMAIN heap : linking' = chunk /\ heap' = With(Filled(item), chunk)
      BY <2>2
    <3>2. /\ DOMAIN heap' = DOMAIN heap \cup {chunk} /\ heap'[chunk] \in ChunkType
          /\ \A c \in DOMAIN heap : heap'[c] = Filled(item)[c]
      BY <3>1, GrownFacts
    <3>3. QED
      BY <2>2, <3>1, <3>2, <1>1, <1>2 DEF HeapTyped, Listed
  <2>3. QED
    BY <2>1, <2>2 DEF PushTakeChunk
<1>4. N \in Nat /\ end.pos \in 0..N - 1 /\ end.chunk \in Chunks
  BY BatchAssumption DEF BatchAssumption, HeapTyped, CursorsFit
<1>5. end \in Address /\ end' \in [chunk : Chunks, pos : 0..N] /\ end'.chunk = end.chunk
      /\ end'.pos = end.pos + 1 /\ end'.pos = N
  BY <1>1, <1>4 DEF HeapTyped, Address
<1>6. SameList
  BY <1>1, <1>2, <1>3, <1>5 DEF SameList, Listed, Linked
<1>7. HeapTyped'
  BY <1>1, <1>3, <1>5 DEF HeapTyped
<1>8. Linked' /\ Moved
  BY <1>6, SameListKeeps
<1>9. Place(begin)' = Place(begin) /\ Place(back)' = Place(end) /\ Place(end)' = Place(end) + 1
  <2>1. /\ heap'[begin.chunk].first = heap[begin.chunk].first
        /\ heap'[end.chunk].first = heap[end.chunk].first
    BY <1>6 DEF SameList, Linked
  <2>2. heap[end.chunk].first \in Nat
    BY ListedTyped DEF Linked
  <2>3. QED
    BY <2>1, <2>2, <1>1, <1>4, <1>5 DEF Place
<1>10. CursorsFit'
  BY <1>3, <1>5, <1>9 DEF CursorsFit
<1>11. Stored(item)
  BY <1>2, <1>3 DEF Stored, ValueAt, Address, Listed, HeapTyped
<1>12. QED
  BY <1>1, <1>3, <1>5, <1>7, <1>8, <1>9, <1>10, <1>11

LEMMA NextSet ==
  ASSUME NEW r \in ChunkType, NEW n \in Chunks \cup {NULL}, NEW u, u = [r EXCEPT !.next = n]
  PROVE  /\ u \in ChunkType /\ u.next = n
         /\ u.values = r.values /\ u.prev = r.prev /\ u.first = r.first
<1>1. u = [values |-> r.values, prev |-> r.prev, next |-> n, first |-> r.first]
  BY DEF ChunkType
<1>2. QED
  BY <1>1 DEF ChunkType

LEMMA PushLinkKeeps ==
  ASSUME StorageInv, PushLink
  PROVE  /\ StorageInv' /\ Moved /\ SameValues
         /\ Place(begin)' = Place(begin) /\ Place(back)' = Place(back) /\ Place(end)' = Place(end)
         /\ linking' = NULL /\ retiring' = retiring /\ back' = back /\ linking # NULL
<1> USE DEF StorageInv
<1>1. /\ begin' = begin /\ back' = back /\ spare' = spare /\ linking' = NULL /\ retiring' = retiring
      /\ linking # NULL /\ end' = [chunk |-> linking, pos |-> 0]
  BY DEF PushLink
<1>2. /\ linking \in DOMAIN heap /\ linking \notin Listed /\ end.chunk \in Listed
      /\ end.chunk \in DOMAIN heap /\ end.chunk # linking /\ linking \in Chunks /\ end.chunk \in Chunks
      /\ N \in Nat /\ N >= 2 /\ end.pos = N /\ NULL \notin Chunks
  BY <1>1, BatchAssumption DEF BatchAssumption, HeapTyped, Linked, Listed, CursorsFit
<1>3. heap[end.chunk].first \in Nat
  BY ListedTyped, <1>2
<1>4. /\ DOMAIN heap' = DOMAIN heap
      /\ \A c \in DOMAIN heap \ {linking, end.chunk} : heap'[c] = heap[c]
      /\ heap'[end.chunk] = [heap[end.chunk] EXCEPT !.next = linking]
      /\ heap'[linking] = [heap[linking] EXCEPT !.prev = end.chunk, !.first = heap[end.chunk].first + N]
  BY <1>2 DEF PushLink
<1>6. /\ \A c \in DOMAIN heap : heap'[c] \in ChunkType
      /\ \A c \in Listed : /\ heap'[c].first = heap[c].first /\ heap'[c].prev = heap[c].prev
                           /\ heap'[c].values = heap[c].values
                           /\ c # end.chunk => heap'[c].next = heap[c].next
      /\ heap'[end.chunk].next = linking /\ heap'[linking].prev = end.chunk
      /\ heap'[linking].first = heap[end.chunk].first + N
  <2>1. heap[end.chunk] \in ChunkType /\ heap[linking] \in ChunkType
    BY <1>2 DEF HeapTyped
  <2>2. /\ heap'[end.chunk] \in ChunkType /\ heap'[end.chunk].first = heap[end.chunk].first
        /\ heap'[end.chunk].prev = heap[end.chunk].prev /\ heap'[end.chunk].next = linking
        /\ heap'[end.chunk].values = heap[end.chunk].values
    BY <2>1, <1>4, <1>2, NextSet
  <2>3. /\ heap'[linking] \in ChunkType /\ heap'[linking].prev = end.chunk
        /\ heap'[linking].first = heap[end.chunk].first + N
    <3>1. heap[end.chunk].first + N \in Nat /\ end.chunk \in Chunks \cup {NULL}
      BY <1>2, <1>3
    <3>2. heap'[linking] = [heap[linking] EXCEPT !.prev = end.chunk, !.first = heap[end.chunk].first + N]
      BY <1>4
    <3>3. QED
      BY <2>1, <3>1, <3>2 DEF ChunkType
  <2>4. QED
    BY <2>2, <2>3, <1>2, <1>4 DEF HeapTyped, Listed
<1>7. Listed' = Listed \cup {linking}
  BY <1>1, <1>2, <1>4 DEF Listed, HeapTyped
<1>8. HeapTyped'
  <2>1. end' \in [chunk : Chunks, pos : 0..N]
    BY <1>1, <1>2
  <2>2. QED
    BY <2>1, <1>1, <1>4, <1>6 DEF HeapTyped
<1>9. Linked'
  <2>1. \A c \in Listed : heap[c].first \in Nat /\ heap[c].first <= heap[end.chunk].first
                          /\ heap[begin.chunk].first <= heap[c].first
    BY ListedTyped DEF Linked
  <2>2. {begin.chunk, back.chunk, linking} \subseteq Listed'
    BY <1>7 DEF Linked
  <2>3. \A c \in Listed' : heap'[begin.chunk].first <= heap'[c].first
                           /\ heap'[c].first <= heap'[linking].first
    BY <2>1, <1>2, <1>6, <1>7 DEF Linked
  <2>4. \A c, d \in Listed' :
          c = d \/ heap'[c].first + N <= heap'[d].first \/ heap'[d].first + N <= heap'[c].first
    BY <2>1, <1>2, <1>6, <1>7 DEF Linked
  <2>5. ASSUME NEW c \in Listed' \ {linking}
        PROVE  /\ heap'[c].next \in Listed'
               /\ heap'[heap'[c].next].prev = c
               /\ heap'[heap'[c].next].first = heap'[c].first + N
    <3>1. CASE c = end.chunk
      BY <3>1, <1>2, <1>6, <1>7
    <3>2. CASE c # end.chunk
      BY <3>2, <1>6, <1>7 DEF Linked
    <3>3. QED
      BY <3>1, <3>2
  <2>6. ASSUME NEW c \in Listed' \ {begin.chunk}
        PROVE  /\ heap'[c].prev \in Listed'
               /\ heap'[heap'[c].prev].next = c
               /\ heap'[heap'[c].prev].first + N = heap'[c].first
    <3>1. CASE c = linking
      BY <3>1, <1>2, <1>6, <1>7
    <3>2. CASE c # linking
      <4>1. /\ c \in Listed /\ heap[c].prev \in Listed /\ heap[heap[c].prev].next = c
            /\ heap[heap[c].prev].first + N = heap[c].first
        BY <3>2, <1>7 DEF Linked
      <4>2. heap[c].prev # end.chunk
        BY <4>1, <2>1, <1>2
      <4>3. QED
        BY <4>1, <4>2, <1>6, <1>7
    <3>3. QED
      BY <3>1, <3>2
  <2>7. QED
    BY <1>1, <2>2, <2>3, <2>4, <2>5, <2>6 DEF Linked
<1>10. /\ Place(begin)' = Place(begin) /\ Place(back)' = Place(back) /\ Place(end)' = Place(end)
  BY <1>1, <1>2, <1>3, <1>6 DEF Place, Linked
<1>11. CursorsFit'
  BY <1>1, <1>2, <1>10 DEF CursorsFit
<1>12. Moved
  <2>1. \A a \in Address : a.chunk \in Listed => a.chunk \in Listed' /\ Place(a)' = Place(a)
    BY <1>6, <1>7 DEF Place
  <2>2. \A a \in Address : a.chunk = linking => ~(Place(a)' < Place(back)')
    <3>1. Place(end) = Place(back) + 1 /\ Place(back) \in Nat
      BY <1>2, <1>1, ListedTyped DEF CursorsFit
    <3>2. \A a \in Address : a.pos \in Nat
      BY <1>2 DEF Address
    <3>3. QED
      BY <3>1, <3>2, <1>2, <1>3, <1>6, <1>10 DEF Place
  <2>3. QED
    BY <2>1, <2>2, <1>7 DEF Moved
<1>13. SameValues
  BY <1>6 DEF SameValues, ValueAt
<1>14. QED
  BY <1>1, <1>8, <1>9, <1>10, <1>11, <1>12, <1>13

(* Unpush, with something behind the front: the cursors do not pass it.     *)
LEMMA StepsBack ==
  ASSUME StorageInv, linking = NULL, Place(begin) < Place(back)
  PROVE  /\ StepBack(back) \in Address /\ StepBack(back).chunk \in Listed
         /\ Place(StepBack(back)) = Place(back) - 1
         /\ back.pos = 0 => back.chunk # begin.chunk /\ StepBack(back).chunk = heap[back.chunk].prev
         /\ StepBack(end) \in Address /\ StepBack(end).chunk \in Listed
         /\ Place(StepBack(end)) = Place(end) - 1
         /\ end.pos > 0 => StepBack(end).chunk = end.chunk
         /\ end.pos = 0 => /\ end.chunk # begin.chunk /\ StepBack(end).chunk = heap[end.chunk].prev
                           /\ heap[StepBack(end).chunk].next = end.chunk
                           /\ StepBack(back).chunk # end.chunk
<1> USE DEF StorageInv
<1>1. /\ N \in Nat /\ N >= 2 /\ end.pos \in 0..N - 1 /\ back.pos \in 0..N - 1 /\ begin.pos \in 0..N - 1
      /\ begin.chunk \in Listed /\ back.chunk \in Listed /\ end.chunk \in Listed
      /\ back \in Address /\ begin \in Address /\ end \in Address
  BY BatchAssumption DEF BatchAssumption, HeapTyped, CursorsFit, Linked, Address
<1>2. \A c \in Listed : c \in Chunks /\ heap[c].first \in Nat
  BY ListedTyped DEF Listed, HeapTyped
<1>3. Place(begin) \in Nat /\ Place(back) \in Nat /\ Place(end) \in Nat
      /\ (Place(end) = Place(back) \/ Place(end) = Place(back) + 1)
  BY ListedTyped DEF CursorsFit
<1>4. back.pos = 0 => back.chunk # begin.chunk
  BY <1>1, <1>2, <1>3 DEF Place
<1>5. end.pos = 0 => end.chunk # begin.chunk
  BY <1>1, <1>2, <1>3 DEF Place
<1>6. ASSUME NEW a \in Address, a.chunk \in Listed, a.pos = 0 => a.chunk # begin.chunk
      PROVE  /\ StepBack(a) \in Address /\ StepBack(a).chunk \in Listed
             /\ Place(StepBack(a)) = Place(a) - 1
             /\ a.pos > 0 => StepBack(a).chunk = a.chunk
             /\ a.pos = 0 => /\ StepBack(a).chunk = heap[a.chunk].prev
                             /\ heap[StepBack(a).chunk].next = a.chunk
                             /\ heap[StepBack(a).chunk].first + N = heap[a.chunk].first
  <2>1. a.pos \in 0..N - 1 /\ a.chunk \in Chunks /\ heap[a.chunk].first \in Nat
    BY <1>2, <1>6 DEF Address
  <2>2. CASE a.pos > 0
    <3>1. StepBack(a) = [chunk |-> a.chunk, pos |-> a.pos - 1]
      BY <2>2 DEF StepBack, Address
    <3>2. a.pos - 1 \in 0..N - 1 /\ a.pos # 0
      BY <2>1, <2>2, <1>1
    <3>3. StepBack(a) \in Address
      BY <3>1, <3>2, <2>1 DEF Address
    <3>4. QED
      BY <3>1, <3>2, <3>3, <2>1, <1>6 DEF Place
  <2>3. CASE a.pos = 0
    <3>1. StepBack(a) = [chunk |-> heap[a.chunk].prev, pos |-> N - 1]
      BY <2>3 DEF StepBack
    <3>2. /\ heap[a.chunk].prev \in Listed /\ heap[heap[a.chunk].prev].next = a.chunk
          /\ heap[heap[a.chunk].prev].first + N = heap[a.chunk].first
      BY <2>3, <1>6 DEF Linked
    <3>3. heap[a.chunk].prev \in Chunks /\ heap[heap[a.chunk].prev].first \in Nat /\ N - 1 \in 0..N - 1
      BY <3>2, <1>1, <1>2
    <3>4. StepBack(a) \in Address
      BY <3>1, <3>3 DEF Address
    <3>5. QED
      BY <3>1, <3>2, <3>3, <3>4, <2>1, <2>3, <1>1 DEF Place
  <2>4. QED
    BY <2>1, <2>2, <2>3
<1>7. ASSUME end.pos = 0 PROVE StepBack(back).chunk # end.chunk
  <2>1. Place(end) = heap[end.chunk].first /\ Place(back) <= Place(end)
    BY <1>1, <1>2, <1>3, <1>7 DEF Place
  <2>2. Place(StepBack(back)) = Place(back) - 1 /\ StepBack(back) \in Address
    BY <1>1, <1>4, <1>6
  <2>3. StepBack(back).pos \in Nat
    BY <2>2, <1>1 DEF Address
  <2>4. StepBack(back).chunk = end.chunk => Place(StepBack(back)) >= Place(end)
    BY <2>1, <2>3, <1>1, <1>2 DEF Place
  <2>5. QED
    BY <2>1, <2>2, <2>4, <1>3
<1>8. QED
  BY <1>1, <1>4, <1>5, <1>6, <1>7

LEMMA UnpushKeeps ==
  ASSUME StorageInv, Unpush, linking = NULL, Place(begin) < Place(back)
  PROVE  /\ StorageInv' /\ Moved /\ SameValues
         /\ Place(begin)' = Place(begin) /\ Place(back)' = Place(back) - 1
         /\ linking' = NULL /\ retiring' = retiring /\ back' \in Address
<1> USE DEF StorageInv
<1>1. /\ begin' = begin /\ spare' = spare /\ linking' = linking /\ retiring' = retiring
      /\ back' = StepBack(back) /\ end' = StepBack(end)
  BY DEF Unpush
<1>2. /\ back' \in Address /\ back'.chunk \in Listed /\ heap[back'.chunk].first + back'.pos = Place(back) - 1
      /\ end' \in Address /\ end'.chunk \in Listed /\ heap[end'.chunk].first + end'.pos = Place(end) - 1
      /\ end.pos > 0 => end'.chunk = end.chunk
      /\ end.pos = 0 => /\ end.chunk # begin.chunk /\ end'.chunk = heap[end.chunk].prev
                        /\ heap[end'.chunk].next = end.chunk /\ back'.chunk # end.chunk
  BY <1>1, StepsBack DEF Place
<1>3. /\ N \in Nat /\ N >= 2 /\ end.pos \in 0..N - 1 /\ end'.pos \in 0..N - 1
      /\ begin.chunk \in Listed /\ end.chunk \in Listed
      /\ \A c \in Listed : c \in Chunks /\ c \in DOMAIN heap /\ heap[c].first \in Nat /\ heap[c] \in ChunkType
      /\ end' \in [chunk : Chunks, pos : 0..N]
  BY <1>2, BatchAssumption, ListedTyped DEF BatchAssumption, HeapTyped, CursorsFit, Linked, Address, Listed
<1>4. Place(begin) \in Nat /\ Place(back) \in Nat /\ Place(end) \in Nat
  BY ListedTyped
<1>5. CASE end.pos > 0
  <2>1. heap' = heap
    BY <1>5 DEF Unpush
  <2>2. Listed' = Listed
    BY <1>1, <2>1 DEF Listed
  <2>3. SameList
    BY <2>1, <2>2, <1>1, <1>2, <1>5 DEF SameList
  <2>4. Linked' /\ Moved
    BY <2>3, SameListKeeps
  <2>5. HeapTyped'
    BY <2>1, <1>1, <1>2, <1>3 DEF HeapTyped
  <2>6. Place(begin)' = Place(begin) /\ Place(back)' = Place(back) - 1 /\ Place(end)' = Place(end) - 1
    BY <2>1, <1>1, <1>2 DEF Place
  <2>7. CursorsFit'
    BY <2>6, <1>1, <1>3, <1>4 DEF CursorsFit
  <2>8. SameValues
    BY <2>1 DEF SameValues, ValueAt
  <2>9. QED
    BY <2>4, <2>5, <2>6, <2>7, <2>8, <1>1, <1>2
<1>6. CASE end.pos = 0
  <2> DEFINE e == end.chunk
             p == end'.chunk
  <2>1. heap' = [Freed(e) EXCEPT ![p].next = NULL]
    BY <1>1, <1>2, <1>6 DEF Unpush
  <2>2. /\ e \in Listed /\ p \in Listed /\ e # begin.chunk /\ heap[e].prev = p /\ heap[p].next = e
        /\ heap[p].first + N = heap[e].first /\ back'.chunk # e /\ p # e
    BY <1>2, <1>3, <1>6 DEF Linked
  <2>3. /\ DOMAIN heap' = DOMAIN heap \ {e}
        /\ \A c \in DOMAIN heap \ {e, p} : heap'[c] = heap[c]
        /\ heap'[p] = [heap[p] EXCEPT !.next = NULL]
    BY <2>1, <2>2, <1>3 DEF Freed
  <2>4. /\ heap'[p] \in ChunkType /\ heap'[p].first = heap[p].first
        /\ heap'[p].prev = heap[p].prev /\ heap'[p].values = heap[p].values
    BY <2>2, <2>3, <1>3, NextSet
  <2>5. /\ \A c \in DOMAIN heap' : heap'[c] \in ChunkType
        /\ \A c \in Listed \ {e} : /\ heap'[c].first = heap[c].first /\ heap'[c].prev = heap[c].prev
                                   /\ heap'[c].values = heap[c].values
                                   /\ c # p => heap'[c].next = heap[c].next
    BY <2>3, <2>4, <1>3 DEF HeapTyped
  <2>6. Listed' = Listed \ {e}
    BY <2>2, <2>3, <1>1 DEF Listed
  <2>7. HeapTyped'
    <3>1. e \notin {spare, linking, retiring}
      BY <2>2 DEF Listed
    <3>2. QED
      BY <3>1, <2>3, <2>5, <1>1, <1>2, <1>3 DEF HeapTyped
  <2>8. Linked'
    <3>1. \A c \in Listed \ {e} : heap[c].first <= heap[p].first
      <4>1. TAKE c \in Listed \ {e}
      <4>2. heap[c].first <= heap[e].first
            /\ (heap[c].first + N <= heap[e].first \/ heap[e].first + N <= heap[c].first)
        BY <2>2 DEF Linked
      <4>3. QED
        BY <4>2, <2>2, <1>3
    <3>2. {begin.chunk, back'.chunk, p} \subseteq Listed'
      BY <2>2, <2>6, <1>2, <1>3
    <3>3. \A c \in Listed' : heap'[begin.chunk].first <= heap'[c].first
                             /\ heap'[c].first <= heap'[p].first
      BY <3>1, <2>2, <2>5, <2>6, <1>3 DEF Linked
    <3>4. \A c, d \in Listed' :
            c = d \/ heap'[c].first + N <= heap'[d].first \/ heap'[d].first + N <= heap'[c].first
      BY <2>5, <2>6 DEF Linked
    <3>5. ASSUME NEW c \in Listed' \ {p}
          PROVE  /\ heap'[c].next \in Listed'
                 /\ heap'[heap'[c].next].prev = c
                 /\ heap'[heap'[c].next].first = heap'[c].first + N
      <4>1. /\ c \in Listed \ {e} /\ heap[c].next \in Listed /\ heap[heap[c].next].prev = c
            /\ heap[heap[c].next].first = heap[c].first + N
        BY <2>6 DEF Linked
      <4>2. heap[c].next # e
        BY <4>1, <2>2
      <4>3. QED
        BY <4>1, <4>2, <2>5, <2>6
    <3>6. ASSUME NEW c \in Listed' \ {begin.chunk}
          PROVE  /\ heap'[c].prev \in Listed'
                 /\ heap'[heap'[c].prev].next = c
                 /\ heap'[heap'[c].prev].first + N = heap'[c].first
      <4>1. /\ c \in Listed \ {e} /\ heap[c].prev \in Listed /\ heap[heap[c].prev].next = c
            /\ heap[heap[c].prev].first + N = heap[c].first
        BY <2>6 DEF Linked
      <4>2. heap[c].prev # p
        BY <4>1, <2>2
      <4>3. heap[c].prev # e
        BY <4>1, <3>1, <2>2, <1>3
      <4>4. QED
        BY <4>1, <4>2, <4>3, <2>5, <2>6
    <3>7. QED
      BY <1>1, <3>2, <3>3, <3>4, <3>5, <3>6 DEF Linked
  <2>9. Place(begin)' = Place(begin) /\ Place(back)' = Place(back) - 1 /\ Place(end)' = Place(end) - 1
    BY <2>2, <2>5, <1>1, <1>2, <1>3 DEF Place
  <2>10. CursorsFit'
    BY <2>9, <1>1, <1>3, <1>4 DEF CursorsFit
  <2>11. Moved
    <3>1. \A a \in Address : a.chunk \in Listed \ {e} => a.chunk \in Listed' /\ Place(a)' = Place(a)
      BY <2>5, <2>6 DEF Place
    <3>2. \A a \in Address : a.chunk = e => ~(Place(a) <= Place(back)')
      <4>1. TAKE a \in Address
      <4>2. a.pos \in Nat
        BY <1>3 DEF Address
      <4>3. Place(end) = heap[e].first
        BY <1>6, <1>3 DEF Place
      <4>4. Place(back) <= Place(end)
        BY <1>4 DEF CursorsFit
      <4>5. a.chunk = e => Place(a) >= Place(end)
        BY <4>2, <4>3, <1>3 DEF Place
      <4>6. QED
        <5>1. SUFFICES ASSUME a.chunk = e PROVE ~(Place(a) <= Place(back)')
          OBVIOUS
        <5>2. Place(a) \in Nat
          BY <5>1, <4>2, <1>3 DEF Place
        <5>3. QED
          BY <5>1, <5>2, <4>4, <4>5, <2>9, <1>4
    <3>3. QED
      BY <3>1, <3>2, <2>6 DEF Moved
  <2>12. SameValues
    BY <2>5, <2>6 DEF SameValues, ValueAt
  <2>13. QED
    BY <2>7, <2>8, <2>9, <2>10, <2>11, <2>12, <1>1, <1>2
<1>7. QED
  BY <1>3, <1>5, <1>6

LEMMA PopAdvanceKeeps ==
  ASSUME StorageInv, PopAdvance, retiring = NULL, Place(begin) < Place(back)
  PROVE  /\ StorageInv' /\ Moved /\ SameValues
         /\ Place(begin)' = Place(begin) + 1 /\ Place(back)' = Place(back)
         /\ linking' = linking /\ back' = back
<1> USE DEF StorageInv
<1>1. back' = back /\ end' = end /\ spare' = spare /\ linking' = linking
  BY DEF PopAdvance
<1>2. /\ N \in Nat /\ N >= 2 /\ begin.pos \in 0..N - 1 /\ NULL \notin Chunks
      /\ begin.chunk \in Listed /\ back.chunk \in Listed /\ end.chunk \in Listed
      /\ begin \in Address /\ back \in Address
      /\ \A c \in Listed : c \in Chunks /\ c \in DOMAIN heap /\ heap[c].first \in Nat /\ heap[c] \in ChunkType
  BY BatchAssumption, ListedTyped DEF BatchAssumption, HeapTyped, Linked, Listed
<1>3. Place(begin) \in Nat /\ Place(back) \in Nat /\ Place(end) \in Nat
  BY ListedTyped
<1>4. CASE begin.pos + 1 # N
  <2>1. begin' = [begin EXCEPT !.pos = @ + 1] /\ heap' = heap /\ retiring' = retiring
    BY <1>4 DEF PopAdvance
  <2>2. begin' \in Address /\ begin'.chunk = begin.chunk /\ begin'.pos = begin.pos + 1
    BY <2>1, <1>2, <1>4 DEF Address
  <2>3. Listed' = Listed
    BY <1>1, <2>1 DEF Listed
  <2>4. SameList
    BY <2>1, <2>2, <2>3, <1>1, <1>2 DEF SameList
  <2>5. Linked' /\ Moved
    BY <2>4, SameListKeeps
  <2>6. HeapTyped'
    BY <2>1, <2>2, <1>1 DEF HeapTyped
  <2>7. Place(begin)' = Place(begin) + 1 /\ Place(back)' = Place(back) /\ Place(end)' = Place(end)
    BY <2>1, <2>2, <1>1, <1>2 DEF Place
  <2>8. CursorsFit'
    BY <2>7, <1>1 DEF CursorsFit
  <2>9. SameValues
    BY <2>1 DEF SameValues, ValueAt
  <2>10. QED
    BY <2>5, <2>6, <2>7, <2>8, <2>9, <1>1
<1>5. CASE begin.pos + 1 = N
  <2> DEFINE b == begin.chunk
             n == heap[b].next
  <2>1. /\ begin' = [chunk |-> n, pos |-> 0] /\ heap' = [heap EXCEPT ![n].prev = NULL]
        /\ retiring' = b
    BY <1>5 DEF PopAdvance
  <2>2. Place(begin) + 1 = heap[b].first + N
    BY <1>2, <1>5 DEF Place
  <2>3. back.chunk # b /\ end.chunk # b
    <3>1. back.chunk # b
      <4>1. back.pos \in 0..N - 1
        BY <1>2 DEF Address
      <4>2. QED
        BY <4>1, <2>2, <1>2, <1>3 DEF Place
    <3>2. heap[b].first + N <= heap[back.chunk].first
      BY <3>1, <1>2, <1>3, PlacesApart
    <3>3. heap[back.chunk].first <= heap[end.chunk].first
      BY <1>2 DEF Linked
    <3>4. QED
      BY <3>1, <3>2, <3>3, <1>2
  <2>4. n \in Listed /\ heap[n].prev = b /\ heap[n].first = heap[b].first + N /\ n # b
    BY <2>3, <1>2 DEF Linked
  <2>5. /\ DOMAIN heap' = DOMAIN heap
        /\ \A c \in DOMAIN heap \ {n} : heap'[c] = heap[c]
        /\ heap'[n] = [heap[n] EXCEPT !.prev = NULL]
    BY <2>1, <2>4, <1>2
  <2>6. /\ heap'[n] \in ChunkType /\ heap'[n].first = heap[n].first /\ heap'[n].next = heap[n].next
        /\ heap'[n].values = heap[n].values
    BY <2>4, <2>5, <1>2 DEF ChunkType
  <2>7. /\ \A c \in DOMAIN heap' : heap'[c] \in ChunkType
        /\ \A c \in Listed : /\ heap'[c].first = heap[c].first /\ heap'[c].next = heap[c].next
                             /\ heap'[c].values = heap[c].values
                             /\ c # n => heap'[c].prev = heap[c].prev
    BY <2>5, <2>6, <1>2 DEF HeapTyped
  <2>8. Listed' = Listed \ {b}
    BY <2>1, <2>5, <1>1, <1>2, <1>5 DEF Listed, HeapTyped
  <2>9. HeapTyped'
    <3>1. begin' \in Address
      BY <2>1, <2>4, <1>2 DEF Address
    <3>2. b \in DOMAIN heap /\ b # spare /\ b # linking
      BY <1>2 DEF Listed
    <3>3. QED
      BY <3>1, <3>2, <2>1, <2>5, <2>7, <1>1, <1>2 DEF HeapTyped
  <2>10. Linked'
    <3>1. \A c \in Listed \ {b} : heap[n].first <= heap[c].first
      <4>1. TAKE c \in Listed \ {b}
      <4>2. heap[b].first <= heap[c].first
            /\ (heap[c].first + N <= heap[b].first \/ heap[b].first + N <= heap[c].first)
        BY <1>2 DEF Linked
      <4>3. QED
        BY <4>2, <2>4, <1>2
    <3>2. {n, back.chunk, end.chunk} \subseteq Listed'
      BY <2>3, <2>4, <2>8, <1>2
    <3>3. \A c \in Listed' : heap'[n].first <= heap'[c].first
                             /\ heap'[c].first <= heap'[end.chunk].first
      BY <3>1, <2>4, <2>7, <2>8, <1>2 DEF Linked
    <3>4. \A c, d \in Listed' :
            c = d \/ heap'[c].first + N <= heap'[d].first \/ heap'[d].first + N <= heap'[c].first
      BY <2>7, <2>8 DEF Linked
    <3>5. ASSUME NEW c \in Listed' \ {end.chunk}
          PROVE  /\ heap'[c].next \in Listed'
                 /\ heap'[heap'[c].next].prev = c
                 /\ heap'[heap'[c].next].first = heap'[c].first + N
      <4>1. /\ c \in Listed \ {b} /\ heap[c].next \in Listed /\ heap[heap[c].next].prev = c
            /\ heap[heap[c].next].first = heap[c].first + N
        BY <2>8 DEF Linked
      <4>2. heap[c].next # n
        BY <4>1, <2>4
      <4>3. heap[c].next # b
        BY <4>1, <3>1, <2>4, <1>2
      <4>4. QED
        BY <4>1, <4>2, <4>3, <2>7, <2>8
    <3>6. ASSUME NEW c \in Listed' \ {n}
          PROVE  /\ heap'[c].prev \in Listed'
                 /\ heap'[heap'[c].prev].next = c
                 /\ heap'[heap'[c].prev].first + N = heap'[c].first
      <4>1. /\ c \in Listed \ {b} /\ heap[c].prev \in Listed /\ heap[heap[c].prev].next = c
            /\ heap[heap[c].prev].first + N = heap[c].first
        BY <2>8 DEF Linked
      <4>2. heap[c].prev # b
        BY <4>1, <2>4
      <4>3. QED
        BY <4>1, <4>2, <2>7, <2>8
    <3>7. QED
      BY <1>1, <2>1, <3>2, <3>3, <3>4, <3>5, <3>6 DEF Linked
  <2>11. Place(begin)' = Place(begin) + 1 /\ Place(back)' = Place(back) /\ Place(end)' = Place(end)
    BY <2>1, <2>2, <2>4, <2>7, <1>1, <1>2 DEF Place
  <2>12. CursorsFit'
    BY <2>11, <1>1 DEF CursorsFit
  <2>13. Moved
    <3>1. \A a \in Address : a.chunk \in Listed \ {b} => a.chunk \in Listed' /\ Place(a)' = Place(a)
      BY <2>7, <2>8 DEF Place
    <3>2. \A a \in Address : a.chunk = b => ~(Place(begin)' <= Place(a))
      <4>1. \A a \in Address : a.pos \in 0..N - 1
        BY DEF Address
      <4>2. QED
        BY <4>1, <2>2, <2>11, <1>2, <1>3 DEF Place
    <3>3. QED
      BY <3>1, <3>2, <2>8 DEF Moved
  <2>14. SameValues
    BY <2>7, <2>8 DEF SameValues, ValueAt
  <2>15. QED
    BY <2>9, <2>10, <2>11, <2>12, <2>13, <2>14, <1>1
<1>6. QED
  BY <1>4, <1>5

LEMMA PopRetireKeeps ==
  ASSUME StorageInv, PopRetire
  PROVE  /\ StorageInv' /\ Moved /\ SameValues
         /\ Place(begin)' = Place(begin) /\ Place(back)' = Place(back)
         /\ linking' = linking /\ retiring' = NULL /\ back' = back /\ begin' = begin
<1> USE DEF StorageInv
<1>1. /\ begin' = begin /\ back' = back /\ end' = end /\ linking' = linking
      /\ retiring # NULL /\ spare' = retiring /\ retiring' = NULL /\ heap' = Freed(spare)
  BY DEF PopRetire
<1>2. DOMAIN heap' = DOMAIN heap \ {spare} /\ \A c \in DOMAIN heap' : heap'[c] = heap[c]
  BY <1>1, FreedFacts
<1>3. NULL \notin Chunks
  BY BatchAssumption DEF BatchAssumption
<1>4. Listed' = Listed
  BY <1>1, <1>2, <1>3 DEF Listed, HeapTyped
<1>5. \A c \in Listed : heap'[c] = heap[c]
  BY <1>2, <1>4 DEF Listed
<1>6. SameList
  BY <1>1, <1>4, <1>5 DEF SameList, Linked
<1>7. Linked' /\ Moved
  BY <1>6, SameListKeeps
<1>8. HeapTyped'
  BY <1>1, <1>2, <1>3 DEF HeapTyped
<1>9. Place(begin)' = Place(begin) /\ Place(back)' = Place(back) /\ Place(end)' = Place(end)
  BY <1>1, <1>5 DEF Place, Linked
<1>10. CursorsFit'
  BY <1>1, <1>9 DEF CursorsFit
<1>11. SameValues
  BY <1>5 DEF SameValues, ValueAt
<1>12. QED
  BY <1>1, <1>7, <1>8, <1>9, <1>10, <1>11

LEMMA InitStorage ==
  ASSUME InitAllocates
  PROVE  /\ StorageInv /\ begin = back /\ Place(begin) = 1 /\ linking = NULL /\ retiring = NULL
         /\ back \in Address /\ back.chunk \in Listed
<1>1. PICK chunk \in Chunks :
        /\ heap = [c \in {chunk} |-> Blank]
        /\ begin = [chunk |-> chunk, pos |-> 0] /\ back = begin
        /\ end = [chunk |-> chunk, pos |-> 1]
        /\ spare = NULL /\ linking = NULL /\ retiring = NULL
  BY DEF InitAllocates
<1>2. N \in Nat /\ N >= 2 /\ NULL \notin Chunks
  BY BatchAssumption DEF BatchAssumption
<1>3. DOMAIN heap = {chunk} /\ heap[chunk] = Blank /\ Blank \in ChunkType /\ Blank.first = 1
  BY <1>1 DEF Blank, ChunkType
<1>4. Listed = {chunk}
  BY <1>1, <1>2, <1>3 DEF Listed
<1>5. begin \in Address /\ end \in [chunk : Chunks, pos : 0..N]
      /\ begin.chunk = chunk /\ back.chunk = chunk /\ end.chunk = chunk
  BY <1>1, <1>2 DEF Address
<1>6. HeapTyped
  BY <1>1, <1>3, <1>5 DEF HeapTyped
<1>7. Linked
  BY <1>3, <1>4, <1>5 DEF Linked
<1>8. Place(begin) = 1 /\ Place(back) = 1 /\ Place(end) = 2
  BY <1>1, <1>3 DEF Place
<1>9. CursorsFit
  BY <1>1, <1>2, <1>8 DEF CursorsFit
<1>10. QED
  BY <1>1, <1>4, <1>5, <1>6, <1>7, <1>8, <1>9 DEF StorageInv

-----------------------------------------------------------------------------
(* The queue on top of the storage.                                         *)

\* An address of a slot in the list.
Pointed(p) == p \in Address /\ p.chunk \in Listed

Pointers ==
  /\ Pointed(f_item)
  /\ w_item # NULL => Pointed(w_item)
  /\ r_item # NULL => Pointed(r_item)
  /\ contention # NULL => Pointed(contention)

\* The position up to which the writer has handed over.
FlushedAt == IF storing THEN Place(begin) ELSE Place(w_item)

Order ==
  /\ contention \in {NULL, w_item}
  /\ storing <=> w_item = NULL
  /\ storing => contention = NULL /\ Place(begin) < Place(f_item)
  /\ Place(begin) <= FlushedAt /\ FlushedAt <= Place(f_item) /\ Place(f_item) <= Place(back)
  /\ r_item # NULL => Place(begin) <= Place(r_item) /\ Place(r_item) <= FlushedAt
  /\ contention = NULL => Place(begin) = FlushedAt /\ r_item \in {NULL, begin}
  /\ Place(begin) = Len(got) + 1

\* What is in the slots between the cursors; without a failing malloc the
\* items that were accepted, each at its position.
Contents ==
  \A a \in Address :
    a.chunk \in Listed /\ Place(begin) <= Place(a) /\ Place(a) < Place(back) =>
      /\ ValueAt(a) \in Items
      /\ ~MallocMayFail => ValueAt(a) = accepted[Place(a)]

Complete ==
  /\ ~MallocMayFail => Place(back) = Len(accepted) + 1
  /\ ~MallocMayFail /\ linking # NULL => Place(f_item) < Place(back)
  /\ linking # NULL => ~storing

History ==
  /\ storing \in BOOLEAN /\ more \in BOOLEAN
  /\ accepted \in Seq(Items) /\ got \in Seq(Items)

QueueInv == Pointers /\ Order /\ Contents /\ Complete /\ History

\* An address keeps its position in a step.
Stays(p) == p \in Address /\ p.chunk \in Listed' /\ heap'[p.chunk].first + p.pos = Place(p)

\* The places of the pointers are numbers.
LEMMA PlacesTyped ==
  ASSUME StorageInv, QueueInv
  PROVE  /\ Place(begin) \in Nat /\ Place(back) \in Nat /\ Place(end) \in Nat /\ Place(f_item) \in Nat
         /\ w_item # NULL => Place(w_item) \in Nat
         /\ r_item # NULL => Place(r_item) \in Nat
         /\ FlushedAt \in Nat
<1>1. HeapTyped /\ Linked /\ Pointers /\ Order
  BY DEF StorageInv, QueueInv
<1>2. \A p : Pointed(p) => Place(p) \in Nat
  BY <1>1, ListedTyped DEF Pointed
<1>3. Place(begin) \in Nat /\ Place(back) \in Nat /\ Place(end) \in Nat
  BY <1>1, ListedTyped
<1>4. QED
  BY <1>1, <1>2, <1>3 DEF Pointers, Order, FlushedAt

LEMMA PointersStay ==
  ASSUME StorageInv, QueueInv, Moved, Place(begin)' \in Nat, Place(back)' \in Nat,
         Place(begin)' <= FlushedAt, r_item # NULL => Place(begin)' <= Place(r_item),
         Place(f_item) <= Place(back)'
  PROVE  /\ Stays(f_item)
         /\ w_item # NULL => Stays(w_item)
         /\ r_item # NULL => Stays(r_item)
         /\ contention # NULL => Stays(contention)
<1>1. Pointers /\ Order
  BY DEF QueueInv
<1>2. ASSUME NEW p, Pointed(p), Place(begin)' <= Place(p), Place(p) <= Place(back)'
      PROVE  Stays(p)
  BY <1>2 DEF Moved, Pointed, Stays, Place
<1>3. Stays(f_item)
  <2>1. Place(begin)' <= Place(f_item)
    BY <1>1, PlacesTyped DEF Order
  <2>2. QED
    BY <2>1, <1>1, <1>2 DEF Pointers
<1>4. ASSUME w_item # NULL PROVE Stays(w_item)
  <2>1. FlushedAt = Place(w_item)
    BY <1>1, <1>4 DEF Order, FlushedAt
  <2>2. Place(w_item) <= Place(back)'
    BY <2>1, <1>1, <1>4, PlacesTyped DEF Order
  <2>3. QED
    BY <2>1, <2>2, <1>1, <1>2, <1>4 DEF Pointers
<1>5. ASSUME r_item # NULL PROVE Stays(r_item)
  <2>1. Place(r_item) <= Place(back)'
    BY <1>1, <1>5, PlacesTyped DEF Order
  <2>2. QED
    BY <2>1, <1>1, <1>2, <1>5 DEF Pointers
<1>6. contention # NULL => contention = w_item
  BY <1>1 DEF Order
<1>7. QED
  BY <1>3, <1>4, <1>5, <1>6

\* What a step that leaves the pointers alone has to show.
LEMMA StepOfStorage ==
  ASSUME StorageInv, QueueInv, Moved, Place(begin)' \in Nat, Place(back)' \in Nat,
         Place(begin)' <= FlushedAt, r_item # NULL => Place(begin)' <= Place(r_item),
         Place(f_item) <= Place(back)',
         UNCHANGED <<w_item, r_item, contention, storing>>
  PROVE  /\ Stays(f_item)
         /\ w_item # NULL => Pointed(w_item)' /\ Place(w_item)' = Place(w_item)
         /\ r_item # NULL => Pointed(r_item)' /\ Place(r_item)' = Place(r_item)
         /\ contention # NULL => Pointed(contention)'
         /\ ~storing => FlushedAt' = FlushedAt
         /\ f_item' = f_item => Pointed(f_item)' /\ Place(f_item)' = Place(f_item)
<1>1. /\ Stays(f_item)
      /\ w_item # NULL => Stays(w_item)
      /\ r_item # NULL => Stays(r_item)
      /\ contention # NULL => Stays(contention)
  BY PointersStay
<1>2. storing <=> w_item = NULL
  BY DEF QueueInv, Order
<1>3. w_item # NULL => Pointed(w_item)' /\ Place(w_item)' = Place(w_item)
  BY <1>1 DEF Stays, Pointed, Place, Address
<1>4. r_item # NULL => Pointed(r_item)' /\ Place(r_item)' = Place(r_item)
  BY <1>1 DEF Stays, Pointed, Place, Address
<1>5. contention # NULL => Pointed(contention)'
  BY <1>1 DEF Stays, Pointed, Address
<1>6. f_item' = f_item => Pointed(f_item)' /\ Place(f_item)' = Place(f_item)
  BY <1>1 DEF Stays, Pointed, Place, Address
<1>7. ~storing => FlushedAt' = FlushedAt
  BY <1>2, <1>3 DEF FlushedAt
<1>8. QED
  BY <1>1, <1>3, <1>4, <1>5, <1>6, <1>7

\* What the three ways of Push have in common.
Pushed(item) ==
  /\ StorageInv' /\ Moved /\ Stored(item)
  /\ begin' = begin /\ Place(begin)' = Place(begin)
  /\ back' \in Address /\ Place(back)' = Place(end)

LEMMA PushedContents ==
  ASSUME StorageInv, QueueInv, NEW item \in Items, Pushed(item), linking = NULL,
         accepted' = Append(accepted, item)
  PROVE  /\ Contents' /\ accepted' \in Seq(Items)
         /\ ~MallocMayFail => Place(back)' = Len(accepted)' + 1
<1>1. /\ accepted \in Seq(Items) /\ accepted' \in Seq(Items) /\ Len(accepted)' = Len(accepted) + 1
      /\ Len(accepted) \in Nat
      /\ accepted'[Len(accepted) + 1] = item
      /\ \A k \in 1..Len(accepted) : accepted'[k] = accepted[k]
  BY AppendProperties, LenProperties DEF QueueInv, History
<1>2. /\ Place(begin) \in Nat /\ Place(back) \in Nat /\ Place(end) \in Nat
      /\ (Place(end) = Place(back) \/ Place(end) = Place(back) + 1)
      /\ ~MallocMayFail => Place(end) = Place(back) + 1 /\ Place(back) = Len(accepted) + 1
      /\ 1 <= Place(begin)
  <2>1. Len(got) \in Nat /\ Place(begin) = Len(got) + 1
    BY LenProperties DEF QueueInv, Order, History
  <2>2. QED
    BY <2>1, PlacesTyped DEF StorageInv, CursorsFit, QueueInv, Complete
<1>3. ASSUME NEW a \in Address, a.chunk \in Listed', Place(begin)' <= Place(a)', Place(a)' < Place(back)'
      PROVE  ValueAt(a)' \in Items /\ (~MallocMayFail => ValueAt(a)' = accepted'[Place(a)'])
  <2>1. a.chunk \in Listed /\ Place(a)' = Place(a)
    BY <1>3 DEF Pushed, Moved
  <2>2. Place(a) \in Nat /\ Place(begin) <= Place(a) /\ Place(a) < Place(end)
    BY <2>1, <1>3, ListedTyped DEF Pushed, StorageInv
  <2>3. ValueAt(a)' = IF a = back THEN item ELSE ValueAt(a)
    BY <2>1, <1>3 DEF Pushed, Stored
  <2>4. CASE a = back
    BY <2>1, <2>3, <2>4, <1>1, <1>2
  <2>5. CASE a # back
    <3>1. Place(a) # Place(back)
      BY <2>1, <2>5, PlacesDiffer DEF StorageInv, HeapTyped, Linked
    <3>2. Place(a) < Place(back)
      BY <3>1, <2>2, <1>2
    <3>3. ValueAt(a) \in Items /\ (~MallocMayFail => ValueAt(a) = accepted[Place(a)])
      BY <3>2, <2>1, <2>2 DEF QueueInv, Contents
    <3>4. ~MallocMayFail => Place(a) \in 1..Len(accepted)
      BY <3>2, <2>2, <1>1, <1>2
    <3>5. QED
      BY <3>3, <3>4, <2>1, <2>3, <2>5, <1>1
  <2>6. QED
    BY <2>4, <2>5
<1>4. Contents'
  BY <1>3 DEF Contents
<1>5. ~MallocMayFail => Place(back)' = Len(accepted)' + 1
  BY <1>1, <1>2 DEF Pushed
<1>6. QED
  BY <1>1, <1>4, <1>5

CursorsNumbered == Place(begin) \in Nat /\ Place(back) \in Nat

LEMMA CursorsNumberedNow == StorageInv => CursorsNumbered
  BY ListedTyped DEF StorageInv, CursorsNumbered

LEMMA CursorsNumberedNext == StorageInv' => CursorsNumbered'
  BY CursorsNumberedNow, PTL

LEMMA SameContents ==
  ASSUME StorageInv, StorageInv', QueueInv, Moved, SameValues,
         Place(begin) <= Place(begin)', Place(back)' <= Place(back),
         \A k \in Nat : 1 <= k /\ k < Place(back)' /\ ~MallocMayFail => accepted'[k] = accepted[k]
  PROVE  Contents'
<1>1. /\ Place(begin) \in Nat /\ Place(back) \in Nat /\ Place(begin)' \in Nat /\ Place(back)' \in Nat
      /\ 1 <= Place(begin)
  <2>1. Len(got) \in Nat /\ Place(begin) = Len(got) + 1
    BY LenProperties DEF QueueInv, Order, History
  <2>2. Place(begin)' \in Nat /\ Place(back)' \in Nat
    BY CursorsNumberedNext DEF CursorsNumbered
  <2>3. QED
    BY <2>1, <2>2, PlacesTyped
<1>2. ASSUME NEW a \in Address, a.chunk \in Listed', Place(begin)' <= Place(a)', Place(a)' < Place(back)'
      PROVE  ValueAt(a)' \in Items /\ (~MallocMayFail => ValueAt(a)' = accepted'[Place(a)'])
  <2>1. a.chunk \in Listed /\ Place(a)' = Place(a)
    BY <1>2 DEF Moved
  <2>2. Place(a) \in Nat /\ Place(begin) <= Place(a) /\ Place(a) < Place(back) /\ 1 <= Place(a)
    BY <2>1, <1>1, <1>2, ListedTyped DEF StorageInv
  <2>3. ValueAt(a)' = ValueAt(a)
    BY <2>1, <1>2 DEF SameValues
  <2>4. ValueAt(a) \in Items /\ (~MallocMayFail => ValueAt(a) = accepted[Place(a)])
    BY <2>1, <2>2 DEF QueueInv, Contents
  <2>5. QED
    BY <2>1, <2>2, <2>3, <2>4, <1>2
<1>3. QED
  BY <1>2 DEF Contents

LEMMA FlushedIsKept ==
  ASSUME QueueInv
  PROVE  /\ ~storing => FlushedAt = Place(w_item) /\ w_item # NULL
         /\ storing => FlushedAt = Place(begin)
  BY DEF QueueInv, Order, FlushedAt

LEMMA WriteStep ==
  ASSUME StorageInv, QueueInv, NEW item \in Items, NEW incomplete \in BOOLEAN, Write(item, incomplete)
  PROVE  /\ StorageInv' /\ QueueInv'
         /\ Place(begin)' = Place(begin) /\ Place(back)' = Place(end)
         /\ \A a \in {w_item, f_item, r_item, contention} : a # NULL => Stays(a)
<1>1. /\ ~storing /\ linking = NULL /\ accepted' = Append(accepted, item)
      /\ UNCHANGED <<w_item, r_item, contention, storing, got>>
  BY DEF Write, WriterIdle
<1>2. PushWithin(item) \/ PushFails(item) \/ PushTakeChunk(item)
  BY DEF Write
<1>3. begin' = begin
  BY <1>2 DEF PushWithin, PushFails, PushTakeChunk
<1>4. Pushed(item)
  BY <1>1, <1>2, <1>3, PushWithinKeeps, PushFailsKeeps, PushTakeChunkKeeps DEF Pushed
<1>5. /\ Place(begin) \in Nat /\ Place(back) \in Nat /\ Place(end) \in Nat /\ Place(f_item) \in Nat
      /\ FlushedAt \in Nat /\ (r_item # NULL => Place(r_item) \in Nat)
      /\ Place(back) <= Place(end) /\ (~MallocMayFail => Place(back) < Place(end))
  BY PlacesTyped DEF StorageInv, CursorsFit
<1>6. /\ contention \in {NULL, w_item} /\ w_item # NULL
      /\ Place(begin) <= FlushedAt /\ FlushedAt <= Place(f_item) /\ Place(f_item) <= Place(back)
      /\ r_item # NULL => Place(begin) <= Place(r_item) /\ Place(r_item) <= FlushedAt
      /\ contention = NULL => Place(begin) = FlushedAt /\ r_item \in {NULL, begin}
      /\ Place(begin) = Len(got) + 1
  BY <1>1 DEF QueueInv, Order
<1>7. /\ Stays(f_item) /\ FlushedAt' = FlushedAt
      /\ \A a \in {w_item, f_item, r_item, contention} : a # NULL => Stays(a)
      /\ w_item # NULL => Pointed(w_item)'
      /\ r_item # NULL => Pointed(r_item)' /\ Place(r_item)' = Place(r_item)
      /\ contention # NULL => Pointed(contention)'
      /\ f_item' = f_item => Pointed(f_item)' /\ Place(f_item)' = Place(f_item)
  <2>1. /\ Moved /\ Place(begin)' \in Nat /\ Place(back)' \in Nat
        /\ Place(begin)' <= FlushedAt /\ Place(f_item) <= Place(back)'
        /\ r_item # NULL => Place(begin)' <= Place(r_item)
    BY <1>4, <1>5, <1>6 DEF Pushed
  <2>2. QED
    BY <1>1, <2>1, StepOfStorage, PointersStay
<1>8. Contents' /\ accepted' \in Seq(Items) /\ (~MallocMayFail => Place(back)' = Len(accepted)' + 1)
  BY <1>1, <1>4, PushedContents
<1>9. Pointed(back)'
  BY <1>4 DEF Pushed, Pointed, StorageInv, Linked
<1>10. /\ Place(begin)' <= FlushedAt' /\ Place(begin)' = Len(got)' + 1
       /\ r_item' # NULL => Place(begin)' <= Place(r_item)' /\ Place(r_item)' <= FlushedAt'
       /\ contention' = NULL => Place(begin)' = FlushedAt' /\ r_item' \in {NULL, begin'}
       /\ contention' \in {NULL, w_item'} /\ (storing' <=> w_item' = NULL) /\ ~storing'
  BY <1>1, <1>3, <1>4, <1>6, <1>7 DEF Pushed
<1>11. ASSUME Pointed(f_item)', FlushedAt' <= Place(f_item)', Place(f_item)' <= Place(back)'
       PROVE  Pointers' /\ Order'
  <2>1. Pointers'
    BY <1>1, <1>7, <1>11 DEF Pointers
  <2>2. Order'
    BY <1>10, <1>11 DEF Order
  <2>3. QED
    BY <2>1, <2>2
<1>12. CASE /\ PushWithin(item) \/ PushFails(item)
            /\ f_item' = (IF incomplete THEN f_item ELSE back')
            /\ UNCHANGED more
  <2>1. linking' = NULL
    BY <1>1, <1>12 DEF PushWithin, PushFails
  <2>2. Pointed(f_item)' /\ FlushedAt' <= Place(f_item)' /\ Place(f_item)' <= Place(back)'
    <3>1. CASE f_item' = f_item
      BY <3>1, <1>4, <1>5, <1>6, <1>7 DEF Pushed
    <3>2. CASE f_item' = back'
      <4>1. Pointed(f_item)' /\ Place(f_item)' = Place(back)'
        BY <3>2, <1>9 DEF Pointed, Place
      <4>2. QED
        BY <4>1, <1>4, <1>5, <1>6, <1>7 DEF Pushed
    <3>3. QED
      BY <3>1, <3>2, <1>12
  <2>3. Complete'
    BY <2>1, <1>8 DEF Complete
  <2>4. History'
    BY <1>1, <1>8, <1>12 DEF QueueInv, History
  <2>5. QED
    BY <2>2, <2>3, <2>4, <1>4, <1>7, <1>8, <1>11 DEF QueueInv, Pushed
<1>13. CASE PushTakeChunk(item) /\ more' = incomplete /\ UNCHANGED f_item
  <2>1. Pointed(f_item)' /\ FlushedAt' <= Place(f_item)' /\ Place(f_item)' <= Place(back)'
        /\ (~MallocMayFail => Place(f_item)' < Place(back)')
    BY <1>4, <1>5, <1>6, <1>7, <1>13 DEF Pushed
  <2>2. Complete'
    BY <2>1, <1>8, <1>10 DEF Complete
  <2>3. History'
    BY <1>1, <1>8, <1>13 DEF QueueInv, History
  <2>4. QED
    BY <2>1, <2>2, <2>3, <1>4, <1>7, <1>8, <1>11 DEF QueueInv, Pushed
<1>14. QED
  BY <1>12, <1>13 DEF Write

LEMMA WriteLinkStep ==
  ASSUME StorageInv, QueueInv, WriteLink
  PROVE  /\ StorageInv' /\ QueueInv' /\ linking # NULL /\ linking' = NULL
         /\ Place(begin)' = Place(begin) /\ Place(back)' = Place(back)
         /\ \A a \in {w_item, f_item, r_item, contention} : a # NULL => Stays(a)
<1>1. /\ PushLink /\ begin' = begin
      /\ f_item' = (IF more THEN f_item ELSE back) /\ more' = FALSE
      /\ UNCHANGED <<w_item, r_item, contention, storing, accepted, got>>
  BY DEF WriteLink, PushLink
<1>2. /\ StorageInv' /\ Moved /\ SameValues
      /\ Place(begin)' = Place(begin) /\ Place(back)' = Place(back)
      /\ linking' = NULL /\ back' = back /\ linking # NULL
  BY <1>1, PushLinkKeeps
<1>3. ~storing
  BY <1>2 DEF QueueInv, Complete
<1>4. /\ Place(begin) \in Nat /\ Place(back) \in Nat /\ Place(f_item) \in Nat
      /\ FlushedAt \in Nat /\ (r_item # NULL => Place(r_item) \in Nat)
  BY PlacesTyped
<1>5. /\ contention \in {NULL, w_item} /\ w_item # NULL
      /\ Place(begin) <= FlushedAt /\ FlushedAt <= Place(f_item) /\ Place(f_item) <= Place(back)
      /\ r_item # NULL => Place(begin) <= Place(r_item) /\ Place(r_item) <= FlushedAt
      /\ contention = NULL => Place(begin) = FlushedAt /\ r_item \in {NULL, begin}
      /\ Place(begin) = Len(got) + 1
  BY <1>3 DEF QueueInv, Order
<1>6. /\ Stays(f_item) /\ FlushedAt' = FlushedAt
      /\ \A a \in {w_item, f_item, r_item, contention} : a # NULL => Stays(a)
      /\ w_item # NULL => Pointed(w_item)'
      /\ r_item # NULL => Pointed(r_item)' /\ Place(r_item)' = Place(r_item)
      /\ contention # NULL => Pointed(contention)'
      /\ f_item' = f_item => Pointed(f_item)' /\ Place(f_item)' = Place(f_item)
  <2>1. /\ Place(begin)' \in Nat /\ Place(back)' \in Nat
        /\ Place(begin)' <= FlushedAt /\ Place(f_item) <= Place(back)'
        /\ r_item # NULL => Place(begin)' <= Place(r_item)
    BY <1>2, <1>4, <1>5
  <2>2. QED
    BY <1>1, <1>2, <1>3, <2>1, StepOfStorage, PointersStay
<1>7. Pointed(f_item)' /\ FlushedAt' <= Place(f_item)' /\ Place(f_item)' <= Place(back)'
  <2>1. CASE f_item' = f_item
    BY <2>1, <1>2, <1>5, <1>6
  <2>2. CASE f_item' = back
    <3>1. Pointed(f_item)' /\ Place(f_item)' = Place(back)'
      BY <2>2, <1>2 DEF StorageInv, HeapTyped, Linked, Pointed, Place
    <3>2. QED
      BY <3>1, <1>2, <1>4, <1>5, <1>6
  <2>3. QED
    BY <2>1, <2>2, <1>1
<1>8. Pointers'
  BY <1>1, <1>6, <1>7 DEF Pointers
<1>9. Order'
  BY <1>1, <1>2, <1>3, <1>5, <1>6, <1>7 DEF Order
<1>10. Contents'
  BY <1>1, <1>2, <1>4, SameContents
<1>11. Complete' /\ History'
  BY <1>1, <1>2 DEF QueueInv, Complete, History
<1>12. QED
  BY <1>2, <1>6, <1>8, <1>9, <1>10, <1>11 DEF QueueInv

LEMMA UnwriteStep ==
  ASSUME StorageInv, QueueInv, Unwrite
  PROVE  StorageInv' /\ QueueInv' /\ Place(back)' = Place(back) - 1 /\ Place(begin)' = Place(begin)
         /\ linking' = NULL
         /\ \A a \in {w_item, f_item, r_item, contention} : a # NULL => Stays(a)
<1>1. /\ ~storing /\ linking = NULL /\ f_item # back /\ Unpush /\ begin' = begin
      /\ accepted' = SubSeq(accepted, 1, Len(accepted) - 1)
      /\ UNCHANGED <<w_item, f_item, r_item, contention, storing, more, got>>
  BY DEF Unwrite, WriterIdle, Unpush
<1>2. /\ Place(begin) \in Nat /\ Place(back) \in Nat /\ Place(f_item) \in Nat
      /\ FlushedAt \in Nat /\ (r_item # NULL => Place(r_item) \in Nat)
  BY PlacesTyped
<1>3. /\ contention \in {NULL, w_item} /\ w_item # NULL
      /\ Place(begin) <= FlushedAt /\ FlushedAt <= Place(f_item) /\ Place(f_item) <= Place(back)
      /\ r_item # NULL => Place(begin) <= Place(r_item) /\ Place(r_item) <= FlushedAt
      /\ contention = NULL => Place(begin) = FlushedAt /\ r_item \in {NULL, begin}
      /\ Place(begin) = Len(got) + 1
  BY <1>1 DEF QueueInv, Order
<1>4. Place(f_item) < Place(back)
  <2>1. Place(f_item) # Place(back)
    BY <1>1, PlacesDiffer DEF StorageInv, HeapTyped, Linked, QueueInv, Pointers, Pointed
  <2>2. QED
    BY <2>1, <1>2, <1>3
<1>5. Place(begin) < Place(back)
  BY <1>2, <1>3, <1>4
<1>6. /\ StorageInv' /\ Moved /\ SameValues
      /\ Place(begin)' = Place(begin) /\ Place(back)' = Place(back) - 1
      /\ linking' = NULL
  BY <1>1, <1>5, UnpushKeeps
<1>7. /\ Stays(f_item) /\ FlushedAt' = FlushedAt
      /\ w_item # NULL => Pointed(w_item)' /\ Stays(w_item)
      /\ r_item # NULL => Pointed(r_item)' /\ Place(r_item)' = Place(r_item) /\ Stays(r_item)
      /\ contention # NULL => Pointed(contention)' /\ Stays(contention)
      /\ Pointed(f_item)' /\ Place(f_item)' = Place(f_item)
  <2>1. /\ Place(begin)' \in Nat /\ Place(back)' \in Nat
        /\ Place(begin)' <= FlushedAt /\ Place(f_item) <= Place(back)'
        /\ r_item # NULL => Place(begin)' <= Place(r_item)
    BY <1>2, <1>3, <1>4, <1>6
  <2>2. QED
    BY <1>1, <1>6, <2>1, StepOfStorage, PointersStay
<1>8. Pointers'
  BY <1>1, <1>7 DEF Pointers
<1>9. Order'
  BY <1>1, <1>2, <1>3, <1>4, <1>6, <1>7 DEF Order
<1>10. /\ accepted' \in Seq(Items)
       /\ ~MallocMayFail => /\ Place(back)' = Len(accepted)' + 1
                            /\ \A k \in Nat : 1 <= k /\ k < Place(back)' => accepted'[k] = accepted[k]
  <2>1. accepted \in Seq(Items) /\ Len(accepted) \in Nat
    BY LenProperties DEF QueueInv, History
  <2>2. \A k \in 1..Len(accepted) - 1 : accepted[k] \in Items
    BY <2>1, ElementOfSeq
  <2>3. /\ accepted' \in Seq(Items)
        /\ Len(accepted)' = IF 1 <= Len(accepted) - 1 THEN Len(accepted) - 1 ELSE 0
        /\ \A k \in 1..Len(accepted) - 1 : accepted'[k] = accepted[k]
    <3>1. /\ accepted' \in Seq(Items)
          /\ Len(accepted') = IF 1 <= Len(accepted) - 1 THEN Len(accepted) - 1 - 1 + 1 ELSE 0
          /\ \A k \in 1..Len(accepted) - 1 - 1 + 1 : accepted'[k] = accepted[1 + k - 1]
      BY <1>1, <2>1, <2>2, SubSeqProperties
    <3>2. QED
      BY <3>1, <2>1
  <2>4. ~MallocMayFail => Place(back) = Len(accepted) + 1
    BY DEF QueueInv, Complete
  <2>5. 1 <= Place(begin)
    BY <1>3, LenProperties DEF QueueInv, History
  <2>6. ASSUME ~MallocMayFail
        PROVE  /\ Place(back)' = Len(accepted)' + 1
               /\ \A k \in Nat : 1 <= k /\ k < Place(back)' => accepted'[k] = accepted[k]
    <3>1. Place(back) = Len(accepted) + 1 /\ Len(accepted) >= 1
      BY <2>1, <2>4, <2>5, <2>6, <1>2, <1>5
    <3>2. Len(accepted)' = Len(accepted) - 1 /\ Place(back)' = Len(accepted)
      BY <3>1, <2>1, <2>3, <1>2, <1>6
    <3>3. QED
      BY <3>1, <3>2, <2>1, <2>3
  <2>7. QED
    BY <2>3, <2>6
<1>11. Contents'
  <2>1. \A k \in Nat : 1 <= k /\ k < Place(back)' /\ ~MallocMayFail => accepted'[k] = accepted[k]
    BY <1>10
  <2>2. Place(begin) <= Place(begin)' /\ Place(back)' <= Place(back)
    BY <1>2, <1>6
  <2>3. QED
    BY <2>1, <2>2, <1>6, SameContents
<1>12. Complete' /\ History'
  BY <1>1, <1>6, <1>10 DEF QueueInv, Complete, History
<1>13. QED
  BY <1>1, <1>6, <1>7, <1>8, <1>9, <1>11, <1>12 DEF QueueInv

\* A step that leaves the storage alone.
LEMMA SameStorage ==
  ASSUME StorageInv, QueueInv, UNCHANGED batchVars
  PROVE  /\ StorageInv' /\ Listed' = Listed /\ heap' = heap /\ begin' = begin /\ back' = back
         /\ Place(begin)' = Place(begin) /\ Place(back)' = Place(back)
         /\ linking' = linking /\ retiring' = retiring
         /\ \A p : Pointed(p)' <=> Pointed(p)
         /\ UNCHANGED accepted => Contents'
<1>1. UNCHANGED <<heap, begin, back, end, spare, linking, retiring>>
  BY DEF batchVars
<1>2. Listed' = Listed
  BY <1>1 DEF Listed
<1>3. /\ Place(begin)' = Place(begin) /\ Place(back)' = Place(back) /\ Place(end)' = Place(end)
  BY <1>1 DEF Place
<1>4. StorageInv'
  BY <1>1, <1>2, <1>3 DEF StorageInv, HeapTyped, Linked, CursorsFit
<1>5. \A p : Pointed(p)' <=> Pointed(p)
  BY <1>2 DEF Pointed
<1>6. UNCHANGED accepted => Contents'
  BY <1>1, <1>2 DEF QueueInv, Contents, Place, ValueAt
<1>7. QED
  BY <1>1, <1>2, <1>3, <1>4, <1>5, <1>6

LEMMA FlushCasStep ==
  ASSUME StorageInv, QueueInv, FlushCas
  PROVE  StorageInv' /\ QueueInv'
<1>1. /\ ~storing /\ linking = NULL /\ w_item # f_item
      /\ UNCHANGED batchVars /\ UNCHANGED <<f_item, r_item, more, accepted, got>>
  BY DEF FlushCas, WriterIdle
<1>2. /\ StorageInv' /\ Listed' = Listed /\ heap' = heap /\ begin' = begin
      /\ Place(begin)' = Place(begin) /\ Place(back)' = Place(back)
      /\ linking' = linking /\ Contents'
  BY <1>1, SameStorage
<1>3. /\ Place(begin) \in Nat /\ Place(back) \in Nat /\ Place(f_item) \in Nat
      /\ FlushedAt \in Nat /\ (r_item # NULL => Place(r_item) \in Nat)
  BY PlacesTyped
<1>4. /\ contention \in {NULL, w_item} /\ w_item # NULL /\ FlushedAt = Place(w_item)
      /\ Place(begin) <= FlushedAt /\ FlushedAt <= Place(f_item) /\ Place(f_item) <= Place(back)
      /\ r_item # NULL => Place(begin) <= Place(r_item) /\ Place(r_item) <= FlushedAt
      /\ contention = NULL => Place(begin) = FlushedAt /\ r_item \in {NULL, begin}
      /\ Place(begin) = Len(got) + 1
  BY <1>1 DEF QueueInv, Order, FlushedAt
<1>5. FlushedAt < Place(f_item)
  <2>1. Place(w_item) # Place(f_item)
    BY <1>1, <1>4, PlacesDiffer DEF StorageInv, QueueInv, Pointers, Pointed
  <2>2. QED
    BY <2>1, <1>3, <1>4
<1>6. Place(f_item)' = Place(f_item) /\ Pointed(f_item)' /\ f_item # NULL
      /\ (r_item # NULL => Pointed(r_item)' /\ Place(r_item)' = Place(r_item))
  BY <1>1, <1>2, ChunkedAssumption DEF ChunkedAssumption, Place, Pointed, QueueInv, Pointers
<1>7. Complete'
  <2>1. UNCHANGED <<linking, accepted>> /\ linking = NULL
    BY <1>1, <1>2
  <2>2. QED
    BY <2>1, <1>2 DEF QueueInv, Complete
<1>8. CASE contention = w_item /\ contention' = f_item /\ w_item' = f_item /\ UNCHANGED storing
  <2>1. Place(w_item)' = Place(f_item) /\ FlushedAt' = Place(f_item)
    BY <1>1, <1>2, <1>8 DEF Place, FlushedAt
  <2>2. Pointers'
    BY <1>1, <1>6, <1>8 DEF Pointers, Pointed
  <2>3. Order'
    BY <2>1, <1>1, <1>2, <1>3, <1>4, <1>6, <1>8 DEF Order
  <2>4. History'
    BY <1>1, <1>8 DEF QueueInv, History
  <2>5. QED
    BY <2>2, <2>3, <2>4, <1>2, <1>7 DEF QueueInv
<1>9. CASE contention # w_item /\ w_item' = contention /\ storing' = TRUE /\ UNCHANGED contention
  <2>1. contention = NULL /\ FlushedAt' = Place(begin)
    BY <1>2, <1>4, <1>9 DEF FlushedAt
  <2>2. Pointers'
    BY <2>1, <1>1, <1>6, <1>9 DEF Pointers
  <2>3. Order'
    BY <2>1, <1>1, <1>2, <1>3, <1>4, <1>5, <1>6, <1>9 DEF Order
  <2>4. History'
    BY <1>1, <1>9 DEF QueueInv, History
  <2>5. QED
    BY <2>2, <2>3, <2>4, <1>2, <1>7 DEF QueueInv
<1>10. QED
  BY <1>8, <1>9 DEF FlushCas

LEMMA FlushStoreStep ==
  ASSUME StorageInv, QueueInv, FlushStore
  PROVE  StorageInv' /\ QueueInv'
<1>1. /\ storing /\ contention' = f_item /\ w_item' = f_item /\ storing' = FALSE
      /\ UNCHANGED batchVars /\ UNCHANGED <<f_item, r_item, more, accepted, got>>
  BY DEF FlushStore
<1>2. /\ StorageInv' /\ Listed' = Listed /\ heap' = heap /\ begin' = begin
      /\ Place(begin)' = Place(begin) /\ Place(back)' = Place(back)
      /\ linking' = linking /\ Contents'
  BY <1>1, SameStorage
<1>3. /\ Place(begin) \in Nat /\ Place(back) \in Nat /\ Place(f_item) \in Nat
      /\ FlushedAt \in Nat /\ (r_item # NULL => Place(r_item) \in Nat)
  BY PlacesTyped
<1>4. /\ contention = NULL /\ w_item = NULL /\ FlushedAt = Place(begin) /\ Place(begin) < Place(f_item)
      /\ Place(f_item) <= Place(back)
      /\ r_item # NULL => Place(begin) <= Place(r_item) /\ Place(r_item) <= FlushedAt
      /\ Place(begin) = Len(got) + 1
  BY <1>1 DEF QueueInv, Order, FlushedAt
<1>5. Place(f_item)' = Place(f_item) /\ Pointed(f_item)' /\ f_item # NULL
      /\ (r_item # NULL => Pointed(r_item)' /\ Place(r_item)' = Place(r_item))
  BY <1>1, <1>2, ChunkedAssumption DEF ChunkedAssumption, Place, Pointed, QueueInv, Pointers
<1>6. Place(w_item)' = Place(f_item) /\ FlushedAt' = Place(f_item)
  BY <1>1, <1>2 DEF Place, FlushedAt
<1>7. Pointers'
  BY <1>1, <1>5 DEF Pointers, Pointed
<1>8. Order'
  BY <1>1, <1>2, <1>3, <1>4, <1>5, <1>6 DEF Order
<1>9. Complete' /\ History'
  BY <1>1, <1>2, <1>5 DEF QueueInv, Complete, History
<1>10. QED
  BY <1>2, <1>7, <1>8, <1>9 DEF QueueInv

LEMMA PrefetchStep ==
  ASSUME StorageInv, QueueInv, Prefetch
  PROVE  StorageInv' /\ QueueInv'
<1>1. /\ ~Prefetched /\ UNCHANGED batchVars /\ UNCHANGED <<w_item, f_item, storing, more, accepted, got>>
  BY DEF Prefetch
<1>2. /\ StorageInv' /\ Listed' = Listed /\ heap' = heap /\ begin' = begin
      /\ Place(begin)' = Place(begin) /\ Place(back)' = Place(back)
      /\ linking' = linking /\ Contents'
  BY <1>1, SameStorage
<1>3. /\ Place(begin) \in Nat /\ Place(back) \in Nat /\ Place(f_item) \in Nat /\ FlushedAt \in Nat
  BY PlacesTyped
<1>4. /\ contention \in {NULL, w_item} /\ (storing <=> w_item = NULL)
      /\ storing => contention = NULL /\ Place(begin) < Place(f_item)
      /\ Place(begin) <= FlushedAt /\ FlushedAt <= Place(f_item) /\ Place(f_item) <= Place(back)
      /\ contention = NULL => Place(begin) = FlushedAt
      /\ Place(begin) = Len(got) + 1
      /\ w_item # NULL => FlushedAt = Place(w_item)
  BY DEF QueueInv, Order, FlushedAt
<1>5. Place(f_item)' = Place(f_item) /\ Pointed(f_item)' /\ FlushedAt' = FlushedAt
      /\ (w_item # NULL => Pointed(w_item)' /\ Place(w_item)' = Place(w_item))
  BY <1>1, <1>2 DEF Place, Pointed, QueueInv, Pointers, FlushedAt
<1>6. Pointed(begin) /\ begin # NULL
  BY ChunkedAssumption DEF ChunkedAssumption, StorageInv, HeapTyped, Linked, Pointed
<1>7. Complete' /\ History'
  BY <1>1, <1>2, <1>5 DEF QueueInv, Complete, History
<1>8. CASE contention = begin /\ contention' = NULL /\ r_item' = begin
  <2>1. w_item = begin /\ FlushedAt = Place(begin)
    BY <1>4, <1>6, <1>8
  <2>2. Pointed(r_item)' /\ Place(r_item)' = Place(begin)
    BY <1>2, <1>6, <1>8 DEF Pointed, Place
  <2>3. Pointers'
    BY <2>2, <1>1, <1>5, <1>8 DEF Pointers
  <2>4. Order'
    BY <2>1, <2>2, <1>1, <1>2, <1>3, <1>4, <1>5, <1>6, <1>8 DEF Order
  <2>5. QED
    BY <2>3, <2>4, <1>2, <1>7 DEF QueueInv
<1>9. CASE contention # begin /\ r_item' = contention /\ UNCHANGED contention
  <2>1. r_item' # NULL => Pointed(r_item)' /\ Place(r_item)' = FlushedAt /\ Pointed(contention)'
    BY <1>2, <1>4, <1>9 DEF Pointed, Place, QueueInv, Pointers
  <2>2. Pointers'
    BY <2>1, <1>1, <1>5, <1>9 DEF Pointers
  <2>3. Order'
    BY <2>1, <1>1, <1>2, <1>3, <1>4, <1>5, <1>9 DEF Order
  <2>4. QED
    BY <2>2, <2>3, <1>2, <1>7 DEF QueueInv
<1>10. QED
  BY <1>8, <1>9 DEF Prefetch

LEMMA PopStep ==
  ASSUME StorageInv, QueueInv, Pop
  PROVE  /\ StorageInv' /\ QueueInv'
         /\ Place(begin)' = Place(begin) + 1 /\ Place(back)' = Place(back)
         /\ Place(begin) < Place(f_item) /\ ~storing
         /\ \A a \in {w_item, f_item, r_item, contention} : a # NULL => Stays(a)
<1>1. /\ retiring = NULL /\ r_item # NULL /\ begin # r_item
      /\ got' = Append(got, ValueAt(begin)) /\ PopAdvance
      /\ UNCHANGED <<w_item, f_item, r_item, contention, storing, more, accepted>>
  BY DEF Pop, ReaderIdle, Prefetched
<1>2. /\ Place(begin) \in Nat /\ Place(back) \in Nat /\ Place(f_item) \in Nat
      /\ FlushedAt \in Nat /\ Place(r_item) \in Nat
  BY <1>1, PlacesTyped
<1>3. /\ contention \in {NULL, w_item} /\ (storing <=> w_item = NULL)
      /\ FlushedAt <= Place(f_item) /\ Place(f_item) <= Place(back)
      /\ Place(begin) <= Place(r_item) /\ Place(r_item) <= FlushedAt
      /\ contention = NULL => r_item \in {NULL, begin}
      /\ Place(begin) = Len(got) + 1
      /\ storing => contention = NULL
  BY <1>1 DEF QueueInv, Order
<1>4. Place(begin) < Place(r_item)
  <2>1. Place(begin) # Place(r_item)
    BY <1>1, PlacesDiffer DEF StorageInv, HeapTyped, Linked, QueueInv, Pointers, Pointed
  <2>2. QED
    BY <2>1, <1>2, <1>3
<1>5. contention # NULL /\ ~storing /\ w_item # NULL
  BY <1>1, <1>3
<1>6. Place(begin) < Place(back) /\ Place(begin) < Place(f_item)
  BY <1>2, <1>3, <1>4
<1>7. /\ StorageInv' /\ Moved /\ SameValues
      /\ Place(begin)' = Place(begin) + 1 /\ Place(back)' = Place(back)
      /\ linking' = linking /\ back' = back
  BY <1>1, <1>6, PopAdvanceKeeps
<1>8. /\ Stays(f_item) /\ FlushedAt' = FlushedAt
      /\ w_item # NULL => Pointed(w_item)' /\ Stays(w_item)
      /\ r_item # NULL => Pointed(r_item)' /\ Place(r_item)' = Place(r_item) /\ Stays(r_item)
      /\ contention # NULL => Pointed(contention)' /\ Stays(contention)
      /\ Pointed(f_item)' /\ Place(f_item)' = Place(f_item)
  <2>1. /\ Place(begin)' \in Nat /\ Place(back)' \in Nat
        /\ Place(begin)' <= FlushedAt /\ Place(f_item) <= Place(back)'
        /\ r_item # NULL => Place(begin)' <= Place(r_item)
    BY <1>2, <1>3, <1>4, <1>7
  <2>2. QED
    BY <1>1, <1>5, <1>7, <2>1, StepOfStorage, PointersStay
<1>9. ValueAt(begin) \in Items
  BY <1>2, <1>6 DEF QueueInv, Contents, StorageInv, HeapTyped, Linked
<1>10. got' \in Seq(Items) /\ Len(got)' = Len(got) + 1 /\ Len(got) \in Nat
  BY <1>1, <1>9, AppendProperties, LenProperties DEF QueueInv, History
<1>11. Pointers'
  BY <1>1, <1>8 DEF Pointers
<1>12. Order'
  BY <1>1, <1>2, <1>3, <1>4, <1>5, <1>7, <1>8, <1>10 DEF Order
<1>13. Contents'
  <2>1. Place(begin) <= Place(begin)' /\ Place(back)' <= Place(back)
    BY <1>2, <1>7
  <2>2. \A k \in Nat : 1 <= k /\ k < Place(back)' /\ ~MallocMayFail => accepted'[k] = accepted[k]
    BY <1>1
  <2>3. QED
    BY <2>1, <2>2, <1>7, SameContents
<1>14. Complete' /\ History'
  BY <1>1, <1>5, <1>7, <1>8, <1>10 DEF QueueInv, Complete, History
<1>15. QED
  BY <1>5, <1>6, <1>7, <1>8, <1>11, <1>12, <1>13, <1>14 DEF QueueInv

LEMMA PopDoneStep ==
  ASSUME StorageInv, QueueInv, PopDone
  PROVE  /\ StorageInv' /\ QueueInv'
         /\ Place(begin)' = Place(begin) /\ Place(back)' = Place(back)
         /\ \A a \in {w_item, f_item, r_item, contention} : a # NULL => Stays(a)
<1>1. /\ PopRetire /\ UNCHANGED <<w_item, f_item, r_item, contention, storing, more, accepted, got>>
  BY DEF PopDone
<1>2. /\ StorageInv' /\ Moved /\ SameValues
      /\ Place(begin)' = Place(begin) /\ Place(back)' = Place(back)
      /\ linking' = linking /\ back' = back /\ begin' = begin
  BY <1>1, PopRetireKeeps
<1>3. /\ Place(begin) \in Nat /\ Place(back) \in Nat /\ Place(f_item) \in Nat
      /\ FlushedAt \in Nat /\ (r_item # NULL => Place(r_item) \in Nat)
  BY PlacesTyped
<1>4. /\ contention \in {NULL, w_item} /\ (storing <=> w_item = NULL)
      /\ storing => contention = NULL /\ Place(begin) < Place(f_item)
      /\ Place(begin) <= FlushedAt /\ FlushedAt <= Place(f_item) /\ Place(f_item) <= Place(back)
      /\ r_item # NULL => Place(begin) <= Place(r_item) /\ Place(r_item) <= FlushedAt
      /\ contention = NULL => Place(begin) = FlushedAt /\ r_item \in {NULL, begin}
      /\ Place(begin) = Len(got) + 1
  BY DEF QueueInv, Order
<1>5. /\ Stays(f_item)
      /\ w_item # NULL => Pointed(w_item)' /\ Stays(w_item)
      /\ r_item # NULL => Pointed(r_item)' /\ Place(r_item)' = Place(r_item) /\ Stays(r_item)
      /\ contention # NULL => Pointed(contention)' /\ Stays(contention)
      /\ ~storing => FlushedAt' = FlushedAt
      /\ Pointed(f_item)' /\ Place(f_item)' = Place(f_item)
  <2>1. /\ Place(begin)' \in Nat /\ Place(back)' \in Nat
        /\ Place(begin)' <= FlushedAt /\ Place(f_item) <= Place(back)'
        /\ r_item # NULL => Place(begin)' <= Place(r_item)
    BY <1>2, <1>3, <1>4
  <2>2. QED
    BY <1>1, <1>2, <2>1, StepOfStorage, PointersStay
<1>6. FlushedAt' = FlushedAt
  BY <1>1, <1>2, <1>5 DEF FlushedAt
<1>7. Pointers'
  BY <1>1, <1>5 DEF Pointers
<1>8. Order'
  BY <1>1, <1>2, <1>4, <1>5, <1>6 DEF Order
<1>9. Contents'
  <2>1. Place(begin) <= Place(begin)' /\ Place(back)' <= Place(back)
    BY <1>2, <1>3
  <2>2. QED
    BY <2>1, <1>1, <1>2, SameContents
<1>10. Complete' /\ History'
  BY <1>1, <1>2, <1>5 DEF QueueInv, Complete, History
<1>11. QED
  BY <1>2, <1>5, <1>7, <1>8, <1>9, <1>10 DEF QueueInv

-----------------------------------------------------------------------------
IInv == StorageInv /\ QueueInv

\* The queue whose Init got no memory.
Empty ==
  /\ MallocMayFail
  /\ NoStorage
  /\ storing = FALSE /\ more = FALSE /\ crashed \in BOOLEAN
  /\ accepted = <<>> /\ got = <<>>

LEMMA InitEmpty == Init => Empty \/ InitAllocates
  BY DEF Init, InitBatch, InitFails, Empty, NoStorage, pointers

\* Nothing gets in, and the reader finds nothing.
LEMMA NextEmpty == Empty /\ [Next]_vars => Empty'
<1> SUFFICES ASSUME Empty, [Next]_vars PROVE Empty'
  OBVIOUS
<1>1. /\ w_item = NULL /\ f_item = NULL /\ r_item = NULL /\ contention = NULL
      /\ begin = NULL /\ back = NULL /\ end = NULL
      /\ spare = NULL /\ linking = NULL /\ retiring = NULL
  BY DEF Empty, NoStorage, pointers
<1>2. ASSUME Operation PROVE Prefetch
  <2>1. ~(\E item \in Items, incomplete \in BOOLEAN : Write(item, incomplete)) /\ ~WriteLink
    BY <1>1 DEF Write, WriteLink, PushLink
  <2>2. ~Unwrite /\ ~FlushCas /\ ~FlushStore
    BY <1>1 DEF Unwrite, FlushCas, FlushStore, Empty
  <2>3. ~Pop /\ ~PopDone
    BY <1>1 DEF Pop, Prefetched, PopDone, PopRetire
  <2>4. QED
    BY <1>2, <2>1, <2>2, <2>3 DEF Operation
<1>3. CASE Prefetch /\ UNCHANGED crashed
  <2>1. contention' = NULL /\ r_item' = NULL
    BY <1>1, <1>3 DEF Prefetch
  <2>2. QED
    BY <1>1, <1>3, <2>1 DEF Prefetch, batchVars, Empty, NoStorage, pointers
<1>4. CASE WriteToNull
  BY <1>4 DEF WriteToNull, batchVars, Empty, NoStorage, pointers
<1>5. CASE UNCHANGED vars
  BY <1>5 DEF vars, batchVars, Empty, NoStorage, pointers
<1>6. QED
  BY <1>2, <1>3, <1>4, <1>5 DEF Next

LEMMA InitIInv == Init /\ InitAllocates => IInv
<1> SUFFICES ASSUME Init, InitAllocates PROVE IInv
  OBVIOUS
<1>1. /\ StorageInv /\ begin = back /\ Place(begin) = 1 /\ linking = NULL
      /\ back \in Address /\ back.chunk \in Listed
  BY InitStorage DEF Init
<1>2. /\ w_item = back /\ f_item = back /\ r_item = back /\ contention = back
      /\ storing = FALSE /\ more = FALSE /\ accepted = <<>> /\ got = <<>>
  BY DEF Init
<1>3. back # NULL
  BY <1>1, ChunkedAssumption DEF ChunkedAssumption
<1>4. Place(w_item) = 1 /\ Place(f_item) = 1 /\ Place(r_item) = 1 /\ Place(back) = 1 /\ FlushedAt = 1
  BY <1>1, <1>2 DEF FlushedAt
<1>5. Pointers
  BY <1>1, <1>2 DEF Pointers, Pointed
<1>6. accepted \in Seq(Items) /\ got \in Seq(Items) /\ Len(accepted) = 0 /\ Len(got) = 0
  BY <1>2, EmptySeq
<1>7. Order
  BY <1>1, <1>2, <1>3, <1>4, <1>6 DEF Order
<1>8. Contents
  <2>1. ASSUME NEW a \in Address, a.chunk \in Listed, Place(begin) <= Place(a), Place(a) < Place(back)
        PROVE  FALSE
    <3>1. Place(a) \in Nat
      BY <1>1, <2>1, ListedTyped DEF StorageInv
    <3>2. QED
      BY <3>1, <2>1, <1>1, <1>4
  <2>2. QED
    BY <2>1 DEF Contents
<1>9. Complete /\ History
  <2>1. Complete
    BY <1>1, <1>2, <1>4, <1>6 DEF Complete
  <2>2. storing \in BOOLEAN /\ more \in BOOLEAN
    BY <1>2
  <2>3. QED
    BY <2>1, <2>2, <1>6 DEF History
<1>10. QED
  BY <1>1, <1>5, <1>7, <1>8, <1>9 DEF IInv, QueueInv

LEMMA CursorsAreThere == IInv => begin # NULL /\ back # NULL
  BY ChunkedAssumption DEF ChunkedAssumption, IInv, StorageInv, HeapTyped

LEMMA NextIInv == IInv /\ [Next]_vars => IInv'
<1> SUFFICES ASSUME IInv, [Next]_vars PROVE IInv'
  OBVIOUS
<1> USE DEF IInv
<1>1. ASSUME NEW item \in Items, NEW incomplete \in BOOLEAN, Write(item, incomplete) PROVE IInv'
  BY <1>1, WriteStep
<1>2. CASE WriteLink
  BY <1>2, WriteLinkStep
<1>3. CASE Unwrite
  BY <1>3, UnwriteStep
<1>4. CASE FlushCas
  BY <1>4, FlushCasStep
<1>5. CASE FlushStore
  BY <1>5, FlushStoreStep
<1>6. CASE Prefetch
  BY <1>6, PrefetchStep
<1>7. CASE Pop
  BY <1>7, PopStep
<1>8. CASE PopDone
  BY <1>8, PopDoneStep
<1>9. CASE UNCHANGED vars
  <2>1. UNCHANGED batchVars /\ UNCHANGED <<w_item, f_item, r_item, contention, storing, more, accepted, got>>
    BY <1>9 DEF vars, pointers
  <2>2. StorageInv' /\ Contents' /\ Listed' = Listed /\ heap' = heap /\ begin' = begin /\ back' = back
        /\ linking' = linking
    BY <2>1, SameStorage
  <2>3. Pointers' /\ Order' /\ Complete' /\ History'
    BY <2>1, <2>2 DEF QueueInv, Pointers, Order, Complete, History, Pointed, Place, FlushedAt
  <2>4. QED
    BY <2>2, <2>3 DEF QueueInv
<1>10. ~WriteToNull
  BY CursorsAreThere DEF WriteToNull
<1>11. QED
  BY <1>1, <1>2, <1>3, <1>4, <1>5, <1>6, <1>7, <1>8, <1>9, <1>10 DEF Next, Operation

LEMMA NextRuns == IInv /\ crashed = FALSE /\ [Next]_vars => crashed' = FALSE
  BY CursorsAreThere DEF Next, WriteToNull, vars

\* Either there is no memory at all, or the invariant holds.
Sound == Empty \/ (IInv /\ crashed = FALSE)

LEMMA SpecSound == Spec => []Sound
<1>1. Init => Sound
  BY InitEmpty, InitIInv DEF Init, Sound
<1>2. Sound /\ [Next]_vars => Sound'
  BY NextEmpty, NextIInv, NextRuns DEF Sound
<1>3. QED
  BY <1>1, <1>2, PTL DEF Spec

LEMMA TypesHold == Sound => TypeOK
<1>e. Empty => TypeOK
  BY EmptySeq DEF Empty, NoStorage, TypeOK
<1> SUFFICES ASSUME IInv, crashed = FALSE PROVE TypeOK
  BY <1>e DEF Sound
<1> DEFINE Live == { a \in Address : a.chunk \in DOMAIN heap }
<1>1. \A p : Pointed(p) => p \in Live
  BY DEF Pointed, Listed
<1>2. begin \in Live /\ back \in Live /\ f_item \in Live
  BY <1>1 DEF IInv, StorageInv, HeapTyped, Linked, QueueInv, Pointers, Pointed
<1>3. w_item \in Live \cup {NULL} /\ r_item \in Live \cup {NULL} /\ contention \in Live \cup {NULL}
  BY <1>1 DEF IInv, QueueInv, Pointers
<1>4. DOMAIN heap \subseteq Chunks /\ {spare, linking, retiring} \subseteq DOMAIN heap \cup {NULL}
  BY DEF IInv, StorageInv, HeapTyped
<1>5. end.chunk \in DOMAIN heap
  BY DEF IInv, StorageInv, Linked, Listed
<1>6. end.pos \in IF linking = NULL THEN 0..N - 1 ELSE {N}
  BY BatchAssumption DEF BatchAssumption, IInv, StorageInv, HeapTyped, CursorsFit
<1>7. QED
  BY <1>2, <1>3, <1>4, <1>5, <1>6 DEF TypeOK, IInv, QueueInv, History

(* No pointer of the queue and no cursor of its storage ever refers to a    *)
(* chunk that was freed, whether malloc fails in a Push or not; when it     *)
(* fails in Init all of them are null and stay so (spsc_queue.hpp:54-102).  *)
THEOREM TypeCorrect == Spec => []TypeOK
  BY SpecSound, TypesHold, PTL

\* The position of a pointer, as the properties have it.
LEMMA PositionIsPlace ==
  ASSUME HeapTyped, Linked, NEW p, Pointed(p)
  PROVE  PositionOf(p) = Place(p) /\ p # NULL /\ PositionOf(p) \in Nat /\ PositionOf(p) # NULL
<1>1. p # NULL
  BY ChunkedAssumption DEF ChunkedAssumption, Pointed
<1>2. p.chunk \in DOMAIN heap
  BY DEF Pointed, Listed
<1>3. Place(p) \in Nat /\ NULL \notin Nat
  BY ListedTyped, BatchAssumption DEF BatchAssumption, Pointed
<1>4. QED
  BY <1>1, <1>2, <1>3 DEF PositionOf, Place

(* Whether malloc fails in a Push or not, what the reader may read is        *)
(* flushed and is not what the writer writes, and a sleeping reader has     *)
(* consumed all that was flushed (Push's failure path, spsc_queue.hpp:      *)
(* 80-100).  When it fails in Init (:56, ignored at :196) nothing gets into *)
(* the queue, and a Write can then, and only then, go through null.         *)
THEOREM IntegrityIsKept == Spec => []IntegrityHolds
<1>e. Empty => IntegrityHolds
  BY DEF Empty, NoStorage, IntegrityHolds
<1> SUFFICES ASSUME IInv, crashed = FALSE PROVE IntegrityHolds
  BY <1>e, SpecSound, PTL DEF Sound
<1>1. /\ PositionOf(begin) = Place(begin) /\ PositionOf(back) = Place(back)
      /\ PositionOf(f_item) = Place(f_item)
      /\ w_item # NULL => PositionOf(w_item) = Place(w_item) /\ PositionOf(w_item) # NULL
      /\ r_item # NULL => PositionOf(r_item) = Place(r_item) /\ PositionOf(r_item) # NULL
      /\ contention # NULL => PositionOf(contention) # NULL
      /\ PositionOf(NULL) = NULL
  <2>1. Pointed(begin) /\ Pointed(back)
    BY DEF IInv, StorageInv, HeapTyped, Linked, Pointed
  <2>2. PositionOf(NULL) = NULL
    BY DEF PositionOf
  <2>3. QED
    BY <2>1, <2>2, PositionIsPlace DEF IInv, StorageInv, QueueInv, Pointers
<1>2. PositionView!Flushed = FlushedAt
  BY <1>1 DEF PositionView!Flushed, FlushedAt, IInv, QueueInv, Order
<1>3. /\ Place(begin) \in Nat /\ Place(f_item) \in Nat /\ FlushedAt \in Nat
      /\ r_item # NULL => Place(r_item) \in Nat
  BY PlacesTyped DEF IInv
<1>4. PositionView!ReaderSlotIsSettled
  <2>1. ASSUME PositionView!Prefetched
        PROVE  /\ PositionOf(begin) < PositionOf(r_item)
               /\ PositionOf(r_item) <= FlushedAt /\ FlushedAt <= PositionOf(f_item)
    <3>1. r_item # NULL /\ Place(begin) # Place(r_item)
      BY <2>1, <1>1 DEF PositionView!Prefetched
    <3>2. QED
      BY <3>1, <1>1, <1>3 DEF IInv, QueueInv, Order
  <2>2. QED
    BY <2>1, <1>2 DEF PositionView!ReaderSlotIsSettled
<1>5. PositionView!SleeperConsumedAll
  BY <1>1, <1>2 DEF PositionView!SleeperConsumedAll, IInv, QueueInv, Order
<1>6. PositionOf(f_item) <= PositionOf(back)
  BY <1>1 DEF IInv, QueueInv, Order
<1>7. QED
  BY <1>4, <1>5, <1>6, CursorsAreThere DEF IntegrityHolds

-----------------------------------------------------------------------------
(* The chain of chunks, which is defined by recursion: each of its stages   *)
(* is a walk along the list, and the last one reaches its end.              *)

\* Induction over the naturals, for a set instead of a predicate.
LEMMA NatSetInduction ==
  ASSUME NEW S, 0 \in S, \A n \in Nat : n \in S => n + 1 \in S
  PROVE  Nat \subseteq S
<1> SUFFICES ASSUME Nat \ S # {} PROVE FALSE
  OBVIOUS
<1>1. OpToRel(<, Nat) = {ss \in Nat \X Nat : ss[1] < ss[2]}
  BY DEF OpToRel
<1>2. PICK n \in Nat \ S : \A m \in Nat \ S : ~(<<m, n>> \in OpToRel(<, Nat))
  BY NatLessThanWellFounded, WFMin
<1>3. \A m \in Nat \ S : ~(m < n)
  BY <1>1, <1>2
<1>4. n \in Nat /\ n # 0
  OBVIOUS
<1>5. n - 1 \in Nat /\ n - 1 < n /\ n - 1 + 1 = n
  BY <1>4
<1>6. n - 1 \in S
  BY <1>3, <1>5
<1>7. QED
  BY <1>5, <1>6

\* One more chunk, unless the end is reached; and the first n stages.
Extended(before) ==
  LET last == before[Len(before)]
  IN  IF last = end.chunk \/ last \notin DOMAIN heap
      THEN before
      ELSE Append(before, heap[last].next)

Stages(n, g) == [i \in 1..n |-> IF i = 1 THEN <<begin.chunk>> ELSE Extended(g[i - 1])]

LEMMA StagesExist == \A n \in Nat : \E g : g = Stages(n, g)
<1> DEFINE S == {n \in Nat : \E g : g = Stages(n, g)}
<1>1. 0 \in S
  <2> DEFINE g == [i \in 1..0 |-> <<begin.chunk>>]
  <2>1. g = Stages(0, g)
    BY DEF Stages
  <2>2. QED
    BY <2>1
<1>2. ASSUME NEW n \in Nat, n \in S PROVE n + 1 \in S
  <2>1. PICK g : g = Stages(n, g)
    BY <1>2
  <2> DEFINE h == [i \in 1..n + 1 |-> IF i = 1 THEN <<begin.chunk>> ELSE Extended(g[i - 1])]
  <2>2. \A i \in 1..n : h[i] = g[i]
    <3>1. \A i \in 1..n : g[i] = IF i = 1 THEN <<begin.chunk>> ELSE Extended(g[i - 1])
      BY <2>1 DEF Stages
    <3>2. QED
      BY <3>1
  <2>3. h = Stages(n + 1, h)
    <3>1. \A i \in 1..n + 1 : i # 1 => i - 1 \in 1..n
      OBVIOUS
    <3>2. \A i \in 1..n + 1 : i # 1 => h[i - 1] = g[i - 1]
      BY <3>1, <2>2
    <3>3. QED
      BY <3>2 DEF Stages
  <2>4. QED
    BY <2>3
<1> HIDE DEF S
<1>3. Nat \subseteq S
  BY <1>1, <1>2, NatSetInduction
<1>4. QED
  BY <1>3 DEF S

\* A walk along the list, that has passed all the chunks up to where it is.
Walk(s) ==
  /\ s \in Seq(Listed) /\ Len(s) >= 1 /\ s[1] = begin.chunk
  /\ \A j \in 1..Len(s) - 1 : s[j] # end.chunk /\ heap[s[j]].next = s[j + 1]
  /\ \A j, k \in 1..Len(s) : j < k => heap[s[j]].first < heap[s[k]].first
  /\ \A c \in Listed : heap[c].first <= heap[s[Len(s)]].first => \E j \in 1..Len(s) : s[j] = c

LEMMA WalkBegins ==
  ASSUME HeapTyped, Linked
  PROVE  Walk(<<begin.chunk>>) /\ Len(<<begin.chunk>>) = 1
<1> DEFINE s == <<begin.chunk>>
<1>1. s \in Seq(Listed) /\ Len(s) = 1 /\ s[1] = begin.chunk
  BY DEF Linked
<1>2. ASSUME NEW c \in Listed, heap[c].first <= heap[begin.chunk].first PROVE c = begin.chunk
  <2>1. /\ heap[c].first \in Nat /\ heap[begin.chunk].first \in Nat
        /\ heap[begin.chunk].first <= heap[c].first /\ N \in Nat /\ N >= 2
    BY ListedTyped, BatchAssumption DEF BatchAssumption, Linked
  <2>2. c = begin.chunk \/ heap[c].first + N <= heap[begin.chunk].first
        \/ heap[begin.chunk].first + N <= heap[c].first
    BY DEF Linked
  <2>3. QED
    BY <2>1, <2>2, <1>2
<1>3. QED
  BY <1>1, <1>2 DEF Walk

LEMMA WalkGoesOn ==
  ASSUME HeapTyped, Linked, NEW s, Walk(s), s[Len(s)] # end.chunk
  PROVE  Extended(s) = Append(s, heap[s[Len(s)]].next) /\ Walk(Extended(s)) /\ Len(Extended(s)) = Len(s) + 1
<1> DEFINE last == s[Len(s)]
           next == heap[last].next
           t == Append(s, next)
<1>1. s \in Seq(Listed) /\ Len(s) \in Nat /\ Len(s) >= 1 /\ Len(s) \in 1..Len(s)
  BY LenProperties DEF Walk
<1>2. last \in Listed /\ last \in DOMAIN heap
  BY <1>1, ElementOfSeq DEF Listed
<1>3. /\ next \in Listed /\ heap[next].first = heap[last].first + N
      /\ N \in Nat /\ N >= 2
  BY <1>2, BatchAssumption DEF BatchAssumption, Linked
<1>4. Extended(s) = t
  BY <1>2 DEF Extended
<1>5. /\ t \in Seq(Listed) /\ Len(t) = Len(s) + 1 /\ t[Len(s) + 1] = next
      /\ \A j \in 1..Len(s) : t[j] = s[j]
  BY <1>1, <1>3, AppendProperties
<1>6. \A j \in 1..Len(s) : s[j] \in Listed /\ heap[s[j]].first \in Nat
  BY <1>1, ElementOfSeq, ListedTyped
<1>7. \A j \in 1..Len(t) - 1 : t[j] # end.chunk /\ heap[t[j]].next = t[j + 1]
  <2>1. TAKE j \in 1..Len(t) - 1
  <2>2. CASE j = Len(s)
    BY <2>2, <1>1, <1>5
  <2>3. CASE j # Len(s)
    <3>1. j \in 1..Len(s) - 1 /\ j \in 1..Len(s) /\ j + 1 \in 1..Len(s)
      BY <2>3, <1>1, <1>5
    <3>2. s[j] # end.chunk /\ heap[s[j]].next = s[j + 1]
      BY <3>1 DEF Walk
    <3>3. QED
      BY <3>1, <3>2, <1>5
  <2>4. QED
    BY <2>2, <2>3
<1>8. \A j \in 1..Len(s) : heap[s[j]].first < heap[next].first
  <2>1. TAKE j \in 1..Len(s)
  <2>2. heap[s[j]].first <= heap[last].first
    BY <1>1, <1>6 DEF Walk
  <2>3. QED
    BY <2>2, <1>1, <1>3, <1>6
<1>9. \A j, k \in 1..Len(t) : j < k => heap[t[j]].first < heap[t[k]].first
  <2>1. TAKE j, k \in 1..Len(t)
  <2>2. HAVE j < k
  <2>3. j \in 1..Len(s)
    BY <2>2, <1>1, <1>5
  <2>4. CASE k = Len(s) + 1
    BY <2>3, <2>4, <1>5, <1>8
  <2>5. CASE k # Len(s) + 1
    <3>1. k \in 1..Len(s)
      BY <2>5, <1>1, <1>5
    <3>2. QED
      BY <2>2, <2>3, <3>1, <1>5 DEF Walk
  <2>6. QED
    BY <2>4, <2>5
<1>10. ASSUME NEW c \in Listed, heap[c].first <= heap[next].first
       PROVE  \E j \in 1..Len(t) : t[j] = c
  <2>1. CASE c = next
    BY <2>1, <1>1, <1>5
  <2>2. CASE c # next
    <3>1. heap[c].first + N <= heap[next].first \/ heap[next].first + N <= heap[c].first
      BY <2>2, <1>3 DEF Linked
    <3>2. heap[c].first \in Nat /\ heap[last].first \in Nat /\ heap[next].first \in Nat
      BY <1>2, <1>3, ListedTyped
    <3>3. heap[c].first <= heap[last].first
      BY <3>1, <3>2, <1>3, <1>10
    <3>4. PICK j \in 1..Len(s) : s[j] = c
      BY <3>3 DEF Walk
    <3>5. j \in 1..Len(t) /\ t[j] = c
      BY <3>4, <1>1, <1>5
    <3>6. QED
      BY <3>5
  <2>3. QED
    BY <2>1, <2>2
<1>11. t[1] = begin.chunk /\ t[Len(t)] = next /\ Len(t) >= 1
  BY <1>1, <1>5 DEF Walk
<1>12. Walk(t)
  BY <1>5, <1>7, <1>9, <1>10, <1>11 DEF Walk
<1>13. QED
  BY <1>4, <1>5, <1>12

\* The chain is a walk to the end of the list.
LEMMA ChainReachesEnd ==
  ASSUME HeapTyped, Linked
  PROVE  Walk(Chain) /\ Chain[Len(Chain)] = end.chunk
<1> DEFINE K == Cardinality(Chunks)
           up == CHOOSE g : g = Stages(K, g)
<1>1. Chain = up[K]
  BY DEF Chain, Stages, Extended
<1>2. IsFiniteSet(Chunks) /\ K \in Nat
  BY BatchAssumption, FS_CardinalityType DEF BatchAssumption
<1>3. begin.chunk \in Listed /\ end.chunk \in Listed /\ Listed \subseteq Chunks
  BY DEF HeapTyped, Linked, Listed
<1>4. K >= 1
  <2>1. Cardinality(Chunks) # 0
    BY <1>2, <1>3, FS_EmptySet
  <2>2. QED
    BY <2>1, <1>2
<1>5. up = Stages(K, up)
  BY <1>2, StagesExist
<1> HIDE DEF up
<1>6. \A i \in 1..K : up[i] = IF i = 1 THEN <<begin.chunk>> ELSE Extended(up[i - 1])
  BY <1>5 DEF Stages
<1> DEFINE Good(i) == Walk(up[i]) /\ (Len(up[i]) = i \/ up[i][Len(up[i])] = end.chunk)
           S == {n \in Nat : n + 1 \in 1..K => Good(n + 1)}
<1>7. 0 \in S
  BY <1>4, <1>6, WalkBegins
<1>8. ASSUME NEW n \in Nat, n \in S PROVE n + 1 \in S
  <2> SUFFICES ASSUME n + 2 \in 1..K PROVE Good(n + 2)
    BY <1>8
  <2>1. n + 1 \in 1..K /\ Good(n + 1)
    BY <1>2, <1>8
  <2>2. up[n + 2] = Extended(up[n + 1])
    BY <1>6
  <2>3. CASE up[n + 1][Len(up[n + 1])] = end.chunk
    BY <2>1, <2>2, <2>3 DEF Extended
  <2>4. CASE up[n + 1][Len(up[n + 1])] # end.chunk
    BY <2>1, <2>2, <2>4, WalkGoesOn
  <2>5. QED
    BY <2>3, <2>4
<1>9. Good(K)
  <2>1. K - 1 \in Nat /\ K - 1 + 1 = K /\ K \in 1..K
    BY <1>2, <1>4
  <2> HIDE DEF S
  <2>2. K - 1 \in S
    BY <2>1, <1>7, <1>8, NatSetInduction
  <2>3. QED
    BY <2>1, <2>2 DEF S
<1>10. CASE up[K][Len(up[K])] = end.chunk
  BY <1>1, <1>9, <1>10
<1>11. CASE Len(up[K]) = K
  <2> DEFINE s == up[K]
  <2>1. /\ s \in Seq(Listed) /\ s \in [1..K -> Chunks]
        /\ \A j \in 1..K : s[j] \in Listed /\ heap[s[j]].first \in Nat
    BY <1>3, <1>9, <1>11, LenProperties, ElementOfSeq, ListedTyped DEF Walk
  <2>2. \A j, k \in 1..K : s[j] = s[k] => j = k
    BY <2>1, <1>2, <1>9, <1>11 DEF Walk
  <2>3. s \in Injection(1..K, Chunks)
    BY <2>1, <2>2 DEF Injection, IsInjective
  <2>4. Cardinality(1..K) = K
    BY <1>2, <1>4, FS_Interval
  <2>5. s \in Surjection(1..K, Chunks)
    BY <2>3, <2>4, <1>2, FS_Injection
  <2>6. PICK j \in 1..K : s[j] = end.chunk
    BY <2>5, <1>3 DEF Surjection
  <2>7. ~(j < K)
    <3>1. K \in 1..K
      BY <1>2, <1>4
    <3>2. j < K => heap[s[j]].first < heap[s[K]].first
      BY <3>1, <1>9, <1>11 DEF Walk
    <3>3. heap[s[K]].first <= heap[end.chunk].first /\ heap[s[K]].first \in Nat /\ heap[end.chunk].first \in Nat
      BY <2>1, <3>1, <1>3, ListedTyped DEF Linked
    <3>4. QED
      BY <3>2, <3>3, <2>6
  <2>8. s[K] = end.chunk
    BY <2>6, <2>7, <1>2
  <2>9. QED
    BY <2>8, <1>1, <1>9, <1>11
<1>12. QED
  BY <1>9, <1>10, <1>11

LEMMA OwnersAreRight == Sound => EveryChunkHasOneOwner
<1>e. Empty => EveryChunkHasOneOwner
  BY DEF Empty, NoStorage, EveryChunkHasOneOwner
<1> SUFFICES ASSUME IInv PROVE EveryChunkHasOneOwner
  BY <1>e DEF Sound
<1> DEFINE chain == Chain
           inHand == {linking, retiring} \ {NULL}
<1>1. /\ Walk(chain) /\ chain[Len(chain)] = end.chunk
      /\ HeapTyped /\ Linked /\ CursorsFit
  BY ChainReachesEnd DEF IInv, StorageInv
<1> HIDE DEF chain
<1>2. /\ chain \in Seq(Listed) /\ Len(chain) \in Nat
      /\ \A i \in 1..Len(chain) : chain[i] \in Listed /\ heap[chain[i]].first \in Nat
  BY <1>1, LenProperties, ElementOfSeq, ListedTyped DEF Walk
<1>3. \A c \in Listed : \E i \in 1..Len(chain) : chain[i] = c
  BY <1>1 DEF Walk, Linked
<1>4. { chain[i] : i \in 1..Len(chain) } = Listed
  BY <1>2, <1>3
<1>5. Destroyed = Listed \cup {spare}
  BY <1>4 DEF Destroyed, chain
<1>6. NULL \notin DOMAIN heap
  BY <1>1, BatchAssumption DEF BatchAssumption, HeapTyped
<1>7. Destroyed \cup inHand \cup {NULL} = DOMAIN heap \cup {NULL}
  BY <1>1, <1>5, <1>6 DEF Listed, HeapTyped
<1>8. Destroyed \cap inHand = {}
  BY <1>1, <1>5, <1>6 DEF Listed, HeapTyped
<1>9. linking # NULL => linking # retiring
  BY <1>1 DEF HeapTyped
<1>10. \A i, j \in 1..Len(chain) : i # j => chain[i] # chain[j]
  BY <1>1, <1>2 DEF Walk
<1>11. \A i \in 1..Len(chain) : chain[i] # spare
  BY <1>2 DEF Listed
<1>12. heap[begin.chunk].first + begin.pos = Len(got) + 1
  BY DEF IInv, QueueInv, Order, Place
<1>13. \A i \in 1..Len(chain) - 1 : heap[chain[i + 1]].first = heap[chain[i]].first + N
  <2>1. TAKE i \in 1..Len(chain) - 1
  <2>2. i \in 1..Len(chain) /\ chain[i] \in Listed
    BY <1>2
  <2>3. chain[i] # end.chunk /\ heap[chain[i]].next = chain[i + 1]
    BY <1>1 DEF Walk
  <2>4. QED
    BY <2>2, <2>3, <1>1 DEF Linked
<1>14. begin # NULL
  BY CursorsAreThere
<1>15. QED
  BY <1>1, <1>7, <1>8, <1>9, <1>10, <1>11, <1>12, <1>13, <1>14 DEF EveryChunkHasOneOwner, chain

(* Every chunk that malloc returned is in the list, spare, or in the hands  *)
(* of the one thread that moves it, also when malloc fails: the destructor  *)
(* (spsc_queue.hpp:38-51) frees each of them once and none is leaked.       *)
THEOREM ChunksAreOwned == Spec => []EveryChunkHasOneOwner
  BY SpecSound, OwnersAreRight, PTL
-----------------------------------------------------------------------------
(* Which items there are, when malloc may fail.  The Write behind a failed  *)
(* Push fills a slot that back does not pass, so that the next Write        *)
(* overwrites it.  But the item of each position is one that was accepted,  *)
(* and a later one for a later position.                                    *)
Came(from) ==
  /\ \A i \in Nat : 1 <= i /\ i < Place(back) => from[i] \in 1..Len(accepted)
  /\ \A i, j \in Nat : 1 <= i /\ i < j /\ j < Place(back) => from[i] < from[j]
  /\ \A i \in 1..Len(got) : got[i] = accepted[from[i]]
  /\ \A a \in Address :
       a.chunk \in Listed /\ Place(begin) <= Place(a) /\ Place(a) < Place(back) =>
         ValueAt(a) = accepted[from[Place(a)]]

InOrder == \E from : Came(from)

\* The numbers these proofs need.
LEMMA Counted ==
  ASSUME IInv
  PROVE  /\ Place(begin) \in Nat /\ Place(back) \in Nat /\ Place(end) \in Nat
         /\ 1 <= Place(begin) /\ Place(begin) <= Place(back)
         /\ Place(end) = Place(back) \/ Place(end) = Place(back) + 1
         /\ Len(got) \in Nat /\ Place(begin) = Len(got) + 1
         /\ accepted \in Seq(Items) /\ Len(accepted) \in Nat
         /\ got \in Seq(Items)
<1>1. Len(got) \in Nat /\ Place(begin) = Len(got) + 1 /\ got \in Seq(Items)
      /\ accepted \in Seq(Items) /\ Len(accepted) \in Nat
  BY LenProperties DEF IInv, QueueInv, Order, History
<1>2. Place(begin) \in Nat /\ Place(back) \in Nat /\ Place(end) \in Nat /\ Place(f_item) \in Nat /\ FlushedAt \in Nat
  BY PlacesTyped DEF IInv
<1>3. Place(begin) <= FlushedAt /\ FlushedAt <= Place(f_item) /\ Place(f_item) <= Place(back)
  BY DEF IInv, QueueInv, Order
<1>4. Place(end) = Place(back) \/ Place(end) = Place(back) + 1
  BY DEF IInv, StorageInv, CursorsFit
<1>5. QED
  BY <1>1, <1>2, <1>3, <1>4

\* A step that stores nothing.
LEMMA StaysInOrder ==
  ASSUME IInv, StorageInv', Moved, SameValues, NEW from, Came(from),
         Place(begin) <= Place(begin)', Place(back)' <= Place(back),
         \A i \in Nat : 1 <= i /\ i < Place(back)' =>
           from[i] \in 1..Len(accepted)' /\ accepted'[from[i]] = accepted[from[i]],
         \A i \in 1..Len(got)' : got'[i] = accepted'[from[i]]
  PROVE  InOrder'
<1>1. Place(begin)' \in Nat /\ Place(back)' \in Nat
  BY CursorsNumberedNext DEF CursorsNumbered
<1>2. \A i \in Nat : i < Place(back)' => i < Place(back)
  BY <1>1, Counted
<1>3. \A i \in Nat : 1 <= i /\ i < Place(back)' => from[i] \in 1..Len(accepted)'
  OBVIOUS
<1>4. \A i, j \in Nat : 1 <= i /\ i < j /\ j < Place(back)' => from[i] < from[j]
  BY <1>2 DEF Came
<1>5. ASSUME NEW a \in Address, a.chunk \in Listed', Place(begin)' <= Place(a)', Place(a)' < Place(back)'
      PROVE  ValueAt(a)' = accepted'[from[Place(a)']]
  <2>1. a.chunk \in Listed /\ Place(a)' = Place(a)
    BY <1>5 DEF Moved
  <2>2. Place(a) \in Nat
    BY <2>1, ListedTyped DEF IInv, StorageInv
  <2>3. Place(begin) <= Place(a) /\ Place(a) < Place(back) /\ 1 <= Place(a)
    BY <2>1, <2>2, <1>1, <1>5, Counted
  <2>4. ValueAt(a)' = ValueAt(a) /\ ValueAt(a) = accepted[from[Place(a)]]
    BY <2>1, <2>3, <1>5 DEF SameValues, Came
  <2>5. accepted'[from[Place(a)]] = accepted[from[Place(a)]]
    BY <2>1, <2>2, <2>3, <1>5
  <2>6. QED
    BY <2>1, <2>4, <2>5
<1>6. Came(from)'
  BY <1>3, <1>4, <1>5 DEF Came
<1>7. QED
  BY <1>6 DEF InOrder

\* A Write: what it fills is the last position, or none.
LEMMA WriteInOrder ==
  ASSUME IInv, IInv', InOrder, NEW item \in Items, NEW incomplete \in BOOLEAN, Write(item, incomplete)
  PROVE  InOrder'
<1>1. PICK from : Came(from)
  BY DEF InOrder
<1>2. /\ linking = NULL /\ accepted' = Append(accepted, item) /\ got' = got
      /\ PushWithin(item) \/ PushFails(item) \/ PushTakeChunk(item)
  BY DEF Write, WriterIdle
<1>3. begin' = begin
  BY <1>2 DEF PushWithin, PushFails, PushTakeChunk
<1>4. Pushed(item)
  BY <1>2, <1>3, PushWithinKeeps, PushFailsKeeps, PushTakeChunkKeeps DEF Pushed, IInv
<1>5. Place(begin)' = Place(begin) /\ Place(back)' = Place(end)
  BY <1>4 DEF Pushed
<1>6. /\ Len(accepted)' = Len(accepted) + 1
      /\ accepted'[Len(accepted) + 1] = item
      /\ \A k \in 1..Len(accepted) : accepted'[k] = accepted[k]
  BY <1>2, Counted, AppendProperties
<1>7. PICK next : /\ next[Place(back)] = Len(accepted) + 1
                  /\ \A i \in Nat : i # Place(back) => next[i] = from[i]
  <2> DEFINE g == [i \in Nat |-> IF i = Place(back) THEN Len(accepted) + 1 ELSE from[i]]
  <2>1. g[Place(back)] = Len(accepted) + 1
    BY Counted
  <2>2. \A i \in Nat : i # Place(back) => g[i] = from[i]
    OBVIOUS
  <2>3. QED
    BY <2>1, <2>2
<1>8. \A i \in Nat : 1 <= i /\ i < Place(back)' => i = Place(back) \/ i < Place(back)
  BY <1>5, Counted
<1>9. \A i \in Nat : 1 <= i /\ i < Place(back) =>
        next[i] = from[i] /\ from[i] \in 1..Len(accepted) /\ accepted'[from[i]] = accepted[from[i]]
  <2>1. \A i \in Nat : i < Place(back) => i # Place(back)
    BY Counted
  <2>2. QED
    BY <2>1, <1>1, <1>6, <1>7 DEF Came
<1>10. \A i \in Nat : 1 <= i /\ i < Place(back)' => next[i] \in 1..Len(accepted)'
  <2>1. \A x \in 1..Len(accepted) : x \in 1..Len(accepted)'
    BY <1>6, Counted
  <2>2. Len(accepted) + 1 \in 1..Len(accepted)'
    BY <1>6, Counted
  <2>3. QED
    BY <2>1, <2>2, <1>7, <1>8, <1>9
<1>11. \A i, j \in Nat : 1 <= i /\ i < j /\ j < Place(back)' => next[i] < next[j]
  <2>1. SUFFICES ASSUME NEW i \in Nat, NEW j \in Nat, 1 <= i, i < j, j < Place(back)'
                 PROVE  next[i] < next[j]
    OBVIOUS
  <2>2. j = Place(back) \/ j < Place(back)
    BY <2>1, <1>8
  <2>3. i < Place(back)
    BY <2>1, <2>2, Counted
  <2>4. next[i] = from[i] /\ from[i] \in 1..Len(accepted)
    BY <2>1, <2>3, <1>9
  <2>5. CASE j = Place(back)
    <3>1. \A x \in 1..Len(accepted) : x < Len(accepted) + 1
      BY Counted
    <3>2. QED
      BY <3>1, <2>4, <2>5, <1>7
  <2>6. CASE j < Place(back)
    <3>1. next[j] = from[j] /\ from[i] < from[j]
      BY <2>1, <2>6, <1>1, <1>9 DEF Came
    <3>2. QED
      BY <3>1, <2>4
  <2>7. QED
    BY <2>2, <2>5, <2>6
<1>12. \A i \in 1..Len(got)' : got'[i] = accepted'[next[i]]
  <2>1. SUFFICES ASSUME NEW i \in 1..Len(got) PROVE got[i] = accepted'[next[i]]
    BY <1>2
  <2>2. i \in Nat /\ 1 <= i /\ i < Place(back)
    BY <2>1, Counted
  <2>3. got[i] = accepted[from[i]]
    BY <2>1, <1>1 DEF Came
  <2>4. QED
    BY <2>2, <2>3, <1>9
<1>13. ASSUME NEW a \in Address, a.chunk \in Listed', Place(begin)' <= Place(a)', Place(a)' < Place(back)'
       PROVE  ValueAt(a)' = accepted'[next[Place(a)']]
  <2>1. a.chunk \in Listed /\ Place(a)' = Place(a)
    BY <1>4, <1>13 DEF Pushed, Moved
  <2>2. Place(a) \in Nat
    BY <2>1, ListedTyped DEF IInv, StorageInv
  <2>3. ValueAt(a)' = IF a = back THEN item ELSE ValueAt(a)
    BY <2>1, <1>4, <1>13 DEF Pushed, Stored
  <2>4. CASE a = back
    BY <2>1, <2>3, <2>4, <1>6, <1>7
  <2>5. CASE a # back
    <3>1. Place(a) # Place(back)
      BY <2>1, <2>5, PlacesDiffer DEF IInv, StorageInv, HeapTyped, Linked
    <3>2. Place(begin) <= Place(a) /\ Place(a) < Place(back) /\ 1 <= Place(a)
      BY <3>1, <2>1, <2>2, <1>5, <1>13, Counted
    <3>3. ValueAt(a) = accepted[from[Place(a)]]
      BY <3>2, <2>1, <1>1 DEF Came
    <3>4. QED
      BY <3>2, <3>3, <2>1, <2>2, <2>3, <2>5, <1>9
  <2>6. QED
    BY <2>4, <2>5
<1>14. Came(next)'
  BY <1>7, <1>10, <1>11, <1>12, <1>13 DEF Came
<1>15. QED
  BY <1>14 DEF InOrder

LEMMA UnwriteInOrder ==
  ASSUME IInv, IInv', InOrder, Unwrite
  PROVE  InOrder'
<1>1. PICK from : Came(from)
  BY DEF InOrder
<1>2. /\ Unpush /\ linking = NULL /\ got' = got
      /\ accepted' = SubSeq(accepted, 1, Len(accepted) - 1)
  BY DEF Unwrite, WriterIdle
<1>3. Place(back)' = Place(back) - 1 /\ Place(begin)' = Place(begin)
  BY UnwriteStep DEF IInv
<1>4. Place(begin) <= Place(back)' /\ Place(begin) < Place(back)
  <2>1. /\ Place(begin) <= FlushedAt /\ FlushedAt <= Place(f_item) /\ Place(f_item) <= Place(back)
        /\ FlushedAt \in Nat /\ Place(f_item) \in Nat
    BY PlacesTyped DEF IInv, QueueInv, Order
  <2>2. Place(f_item) # Place(back)
    <3>1. f_item # back
      BY DEF Unwrite
    <3>2. QED
      BY <3>1, PlacesDiffer DEF IInv, StorageInv, HeapTyped, Linked, QueueInv, Pointers, Pointed
  <2>3. QED
    BY <2>1, <2>2, <1>3, Counted
<1>5. StorageInv' /\ Moved /\ SameValues
  BY <1>2, <1>4, UnpushKeeps DEF IInv
<1>6. \A i \in Nat : 1 <= i /\ i < Place(back)' => from[i] \in 1..Len(accepted) - 1
  <2>1. SUFFICES ASSUME NEW i \in Nat, 1 <= i, i < Place(back)'
                 PROVE  from[i] \in 1..Len(accepted) - 1
    OBVIOUS
  <2>2. Place(back) - 1 \in Nat /\ i < Place(back) - 1 /\ Place(back) - 1 < Place(back)
        /\ 1 <= Place(back) - 1 /\ i < Place(back)
    BY <2>1, <1>3, Counted
  <2>3. from[i] < from[Place(back) - 1]
    BY <2>1, <2>2, <1>1 DEF Came
  <2>4. from[i] \in 1..Len(accepted) /\ from[Place(back) - 1] \in 1..Len(accepted)
    BY <2>1, <2>2, <1>1 DEF Came
  <2>5. \A x, y \in 1..Len(accepted) : x < y => x \in 1..Len(accepted) - 1
    BY Counted
  <2>6. QED
    BY <2>3, <2>4, <2>5
<1>7. /\ \A k \in 1..Len(accepted) - 1 : accepted'[k] = accepted[k]
      /\ Len(accepted)' = IF 1 <= Len(accepted) - 1 THEN Len(accepted) - 1 ELSE 0
  <2>1. \A k \in 1..Len(accepted) - 1 : accepted[k] \in Items
    BY Counted, ElementOfSeq
  <2>2. /\ Len(accepted') = IF 1 <= Len(accepted) - 1 THEN Len(accepted) - 1 - 1 + 1 ELSE 0
        /\ \A k \in 1..Len(accepted) - 1 - 1 + 1 : accepted'[k] = accepted[1 + k - 1]
    BY <1>2, <2>1, Counted, SubSeqProperties
  <2>3. QED
    BY <2>2, Counted
<1>8. \A i \in Nat : 1 <= i /\ i < Place(back)' =>
        from[i] \in 1..Len(accepted)' /\ accepted'[from[i]] = accepted[from[i]]
  <2>1. \A x \in 1..Len(accepted) - 1 : x \in 1..Len(accepted)'
    BY <1>7, Counted
  <2>2. QED
    BY <2>1, <1>6, <1>7
<1>9. \A i \in 1..Len(got)' : got'[i] = accepted'[from[i]]
  <2>1. SUFFICES ASSUME NEW i \in 1..Len(got) PROVE got[i] = accepted'[from[i]]
    BY <1>2
  <2>2. i \in Nat /\ 1 <= i /\ i < Place(back)'
    BY <2>1, <1>3, <1>4, Counted
  <2>3. got[i] = accepted[from[i]]
    BY <2>1, <1>1 DEF Came
  <2>4. QED
    BY <2>2, <2>3, <1>8
<1>10. Place(begin) <= Place(begin)' /\ Place(back)' <= Place(back)
  BY <1>3, Counted
<1>11. QED
  BY <1>1, <1>5, <1>8, <1>9, <1>10, StaysInOrder

LEMMA PopInOrder ==
  ASSUME IInv, IInv', InOrder, Pop
  PROVE  InOrder'
<1>1. PICK from : Came(from)
  BY DEF InOrder
<1>2. /\ PopAdvance /\ retiring = NULL /\ accepted' = accepted /\ got' = Append(got, ValueAt(begin))
  BY DEF Pop, ReaderIdle
<1>3. /\ Place(begin)' = Place(begin) + 1 /\ Place(back)' = Place(back) /\ Place(begin) < Place(f_item)
  BY PopStep DEF IInv
<1>4. Place(begin) < Place(back)
  <2>1. Place(f_item) <= Place(back) /\ Place(f_item) \in Nat
    BY PlacesTyped DEF IInv, QueueInv, Order
  <2>2. QED
    BY <2>1, <1>3, Counted
<1>5. StorageInv' /\ Moved /\ SameValues
  BY <1>2, <1>4, PopAdvanceKeeps DEF IInv
<1>6. begin \in Address /\ begin.chunk \in Listed
  BY DEF IInv, StorageInv, HeapTyped, Linked
<1>7. ValueAt(begin) = accepted[from[Place(begin)]] /\ ValueAt(begin) \in Items
  <2>1. Place(begin) <= Place(begin)
    BY Counted
  <2>2. QED
    BY <2>1, <1>1, <1>4, <1>6 DEF Came, IInv, QueueInv, Contents
<1>8. /\ Len(got)' = Len(got) + 1 /\ got'[Len(got) + 1] = ValueAt(begin)
      /\ \A i \in 1..Len(got) : got'[i] = got[i]
  BY <1>2, <1>7, Counted, AppendProperties
<1>9. \A i \in 1..Len(got)' : got'[i] = accepted'[from[i]]
  <2>1. SUFFICES ASSUME NEW i \in 1..Len(got) + 1 PROVE got'[i] = accepted[from[i]]
    BY <1>2, <1>8
  <2>2. CASE i = Len(got) + 1
    BY <2>2, <1>7, <1>8, Counted
  <2>3. CASE i # Len(got) + 1
    <3>1. i \in 1..Len(got)
      BY <2>1, <2>3, Counted
    <3>2. QED
      BY <3>1, <1>1, <1>8 DEF Came
  <2>4. QED
    BY <2>2, <2>3
<1>10. \A i \in Nat : 1 <= i /\ i < Place(back)' =>
         from[i] \in 1..Len(accepted)' /\ accepted'[from[i]] = accepted[from[i]]
  BY <1>1, <1>2, <1>3 DEF Came
<1>11. Place(begin) <= Place(begin)' /\ Place(back)' <= Place(back)
  BY <1>3, Counted
<1>12. QED
  BY <1>1, <1>5, <1>9, <1>10, <1>11, StaysInOrder

\* A step that neither writes nor reads an item.
LEMMA LinkInOrder ==
  ASSUME IInv, IInv', InOrder, Moved, SameValues, UNCHANGED <<accepted, got>>,
         Place(begin)' = Place(begin), Place(back)' = Place(back)
  PROVE  InOrder'
<1>1. PICK from : Came(from)
  BY DEF InOrder
<1>2. Place(begin) <= Place(begin)' /\ Place(back)' <= Place(back)
  BY Counted
<1>3. \A i \in Nat : 1 <= i /\ i < Place(back)' =>
        from[i] \in 1..Len(accepted)' /\ accepted'[from[i]] = accepted[from[i]]
  BY <1>1 DEF Came
<1>4. \A i \in 1..Len(got)' : got'[i] = accepted'[from[i]]
  BY <1>1 DEF Came
<1>5. QED
  BY <1>1, <1>2, <1>3, <1>4, StaysInOrder DEF IInv

LEMMA NextInOrder == IInv /\ IInv' /\ InOrder /\ [Next]_vars => InOrder'
<1> SUFFICES ASSUME IInv, IInv', InOrder, [Next]_vars PROVE InOrder'
  OBVIOUS
<1>1. ASSUME NEW item \in Items, NEW incomplete \in BOOLEAN, Write(item, incomplete) PROVE InOrder'
  BY <1>1, WriteInOrder
<1>2. CASE WriteLink
  <2>1. PushLink /\ UNCHANGED <<accepted, got>>
    BY <1>2 DEF WriteLink
  <2>2. Moved /\ SameValues /\ Place(begin)' = Place(begin) /\ Place(back)' = Place(back)
    BY <2>1, PushLinkKeeps DEF IInv
  <2>3. QED
    BY <2>1, <2>2, LinkInOrder
<1>3. CASE Unwrite
  BY <1>3, UnwriteInOrder
<1>4. CASE FlushCas \/ FlushStore \/ Prefetch \/ UNCHANGED vars
  <2>1. UNCHANGED <<batchVars, accepted, got>>
    BY <1>4 DEF FlushCas, FlushStore, Prefetch, vars
  <2>2. heap' = heap /\ Listed' = Listed /\ begin' = begin /\ back' = back
    BY <2>1 DEF batchVars, Listed
  <2>3. \A from : Came(from) => Came(from)'
    BY <2>1, <2>2 DEF Came, Place, ValueAt
  <2>4. QED
    BY <2>3 DEF InOrder
<1>5. CASE Pop
  BY <1>5, PopInOrder
<1>6. CASE PopDone
  <2>1. PopRetire /\ UNCHANGED <<accepted, got>>
    BY <1>6 DEF PopDone
  <2>2. Moved /\ SameValues /\ Place(begin)' = Place(begin) /\ Place(back)' = Place(back)
    BY <2>1, PopRetireKeeps DEF IInv
  <2>3. QED
    BY <2>1, <2>2, LinkInOrder
<1>7. ~WriteToNull
  BY CursorsAreThere DEF WriteToNull
<1>8. QED
  BY <1>1, <1>2, <1>3, <1>4, <1>5, <1>6, <1>7 DEF Next, Operation

LEMMA InitInOrder == Init /\ InitAllocates => InOrder
<1> SUFFICES ASSUME Init, InitAllocates PROVE InOrder
  OBVIOUS
<1>1. accepted = <<>> /\ got = <<>> /\ begin = back /\ Place(begin) = 1 /\ HeapTyped /\ Linked
  BY InitStorage DEF Init, StorageInv
<1>2. Place(back) = 1 /\ Len(got) = 0
  BY <1>1, EmptySeq
<1>3. \A i \in Nat : ~(1 <= i /\ i < Place(back))
  BY <1>2
<1>4. \A i, j \in Nat : ~(1 <= i /\ i < j /\ j < Place(back))
  BY <1>2
<1>5. ASSUME NEW a \in Address, a.chunk \in Listed, Place(begin) <= Place(a), Place(a) < Place(back) PROVE FALSE
  <2>1. Place(a) \in Nat
    BY <1>1, <1>5, ListedTyped
  <2>2. QED
    BY <2>1, <1>1, <1>2, <1>5
<1>6. \A from : Came(from)
  BY <1>2, <1>3, <1>4, <1>5 DEF Came
<1>7. QED
  BY <1>6 DEF InOrder

LEMMA OrderFollows == IInv /\ InOrder => ReadIsInOrder
<1> SUFFICES ASSUME IInv, InOrder PROVE ReadIsInOrder
  OBVIOUS
<1>1. PICK from : Came(from)
  BY DEF InOrder
<1> DEFINE read == [i \in 1..Len(got) |-> from[i]]
<1>2. \A i \in 1..Len(got) : i \in Nat /\ 1 <= i /\ i < Place(back)
  BY Counted
<1>3. \A i \in 1..Len(got) : from[i] \in 1..Len(accepted)
  BY <1>1, <1>2 DEF Came
<1>4. read \in [1..Len(got) -> 1..Len(accepted)]
  BY <1>3
<1>5. \A i \in 1..Len(got) : /\ got[i] = accepted[read[i]]
                             /\ \A j \in 1..Len(got) : i < j => read[i] < read[j]
  BY <1>1, <1>2 DEF Came
<1>6. QED
  BY <1>4, <1>5 DEF ReadIsInOrder

(* Even when malloc fails, what is read was written, in the order it was    *)
(* written, and once at most: of what Write accepted and Push found no room *)
(* for, items are lost and never mixed up (spsc_queue.hpp:74-102, 207-222). *)
THEOREM OrderIsKept == Spec => []ReadIsInOrder
<1> DEFINE Ordered == Empty \/ (IInv /\ InOrder)
<1>1. Init => Ordered
  BY InitEmpty, InitIInv, InitInOrder
<1>2. Ordered /\ [Next]_vars => Ordered'
  BY NextEmpty, NextIInv, NextInOrder
<1>3. Empty => ReadIsInOrder
  <2>1. ASSUME Empty PROVE ReadIsInOrder
    <3>1. got = <<>> /\ accepted = <<>> /\ Len(got) = 0
      BY <2>1, EmptySeq DEF Empty
    <3>2. got \in [1..Len(got) -> 1..Len(accepted)]
      BY <3>1
    <3>3. \A i \in 1..Len(got) : /\ got[i] = accepted[got[i]]
                                 /\ \A j \in 1..Len(got) : i < j => got[i] < got[j]
      BY <3>1
    <3>4. QED
      BY <3>2, <3>3, Zenon DEF ReadIsInOrder
  <2>2. QED
    BY <2>1
<1>4. Ordered => ReadIsInOrder
  BY <1>3, OrderFollows
<1>5. QED
  BY <1>1, <1>2, <1>4, PTL DEF Spec
-----------------------------------------------------------------------------
(* The queue of positions.  While malloc does not fail each action is the   *)
(* one of the same name over positions; a Write that takes a chunk is the   *)
(* Write over positions when it links the chunk.                            *)

\* The slots of the queue of positions.
Slots == IF linking = NULL THEN accepted ELSE SubSeq(accepted, 1, Len(accepted) - 1)

MappedInv == IInv /\ Len(accepted) <= MaxItems

LEMMA InitMapped == Init /\ ~MallocMayFail => MappedInv
<1> SUFFICES ASSUME Init, ~MallocMayFail PROVE Len(accepted) <= MaxItems
  BY InitIInv, InitEmpty DEF MappedInv, Empty
<1>1. Len(accepted) = 0
  BY EmptySeq DEF Init
<1>2. QED
  BY <1>1, ChunkedAssumption DEF ChunkedAssumption

LEMMA NextMapped == MappedInv /\ [Next]_vars => MappedInv'
<1> SUFFICES ASSUME MappedInv, [Next]_vars PROVE Len(accepted)' <= MaxItems
  BY NextIInv DEF MappedInv
<1>1. accepted \in Seq(Items) /\ Len(accepted) \in Nat /\ Len(accepted) <= MaxItems /\ MaxItems \in Nat
  BY LenProperties, ChunkedAssumption DEF ChunkedAssumption, MappedInv, IInv, QueueInv, History
<1>2. ASSUME NEW item \in Items, NEW incomplete \in BOOLEAN, Write(item, incomplete)
      PROVE  Len(accepted)' <= MaxItems
  <2>1. Len(accepted) < MaxItems /\ accepted' = Append(accepted, item)
    BY <1>2 DEF Write
  <2>2. Len(accepted)' = Len(accepted) + 1
    BY <2>1, <1>1, AppendProperties
  <2>3. QED
    BY <2>1, <2>2, <1>1
<1>3. CASE Unwrite
  <2>1. accepted' = SubSeq(accepted, 1, Len(accepted) - 1)
    BY <1>3 DEF Unwrite
  <2>2. Len(accepted)' <= Len(accepted) /\ Len(accepted)' \in Nat
    BY <2>1, <1>1
  <2>3. QED
    BY <2>2, <1>1
<1>4. CASE UNCHANGED accepted
  BY <1>1, <1>4
<1>5. QED
  BY <1>2, <1>3, <1>4
  DEF Next, Operation, WriteToNull, WriteLink, FlushCas, FlushStore, Prefetch, Pop, PopDone, vars

LEMMA SpecMapped == ASSUME ~MallocMayFail PROVE Spec => []MappedInv
  BY InitMapped, NextMapped, PTL DEF Spec

\* What a pointer is in the queue of positions.
Mapped(p) == IF p = NULL THEN NULL ELSE Place(p)

PositionsMapped ==
  /\ PositionOf(begin) = Place(begin) /\ PositionOf(f_item) = Place(f_item)
  /\ PositionOf(w_item) = Mapped(w_item)
  /\ PositionOf(r_item) = Mapped(r_item)
  /\ PositionOf(contention) = Mapped(contention)

LEMMA PositionsNow == IInv => PositionsMapped
<1> SUFFICES ASSUME IInv PROVE PositionsMapped
  OBVIOUS
<1>1. HeapTyped /\ Linked /\ Pointers /\ Pointed(begin)
  BY DEF IInv, StorageInv, QueueInv, HeapTyped, Linked, Pointed
<1>2. PositionOf(NULL) = NULL
  BY DEF PositionOf
<1>3. QED
  BY <1>1, <1>2, PositionIsPlace DEF Pointers, PositionsMapped, Mapped

LEMMA PositionsNext == IInv' => PositionsMapped'
  BY PositionsNow, PTL

\* Pointers are equal when their positions are: a comparison of addresses is
\* one of positions, for the compare-and-swaps and for the rest.
LEMMA SamePosition ==
  ASSUME IInv, NEW p, NEW q, p = NULL \/ Pointed(p), q = NULL \/ Pointed(q)
  PROVE  p = q <=> Mapped(p) = Mapped(q)
<1>1. HeapTyped /\ Linked
  BY DEF IInv, StorageInv
<1>2. \A a : Pointed(a) => Place(a) \in Nat
  BY <1>1, ListedTyped DEF Pointed
<1>3. NULL \notin Nat
  BY BatchAssumption DEF BatchAssumption
<1>4. CASE p = NULL \/ q = NULL
  BY <1>2, <1>3, <1>4 DEF Mapped
<1>5. CASE p # NULL /\ q # NULL
  BY <1>1, <1>5, PlacesDiffer DEF Mapped, Pointed
<1>6. QED
  BY <1>4, <1>5

LEMMA Comparisons ==
  ASSUME IInv
  PROVE  /\ PositionOf(w_item) = PositionOf(f_item) <=> w_item = f_item
         /\ PositionOf(contention) = PositionOf(w_item) <=> contention = w_item
         /\ PositionOf(contention) = PositionOf(begin) <=> contention = begin
         /\ PositionOf(begin) = PositionOf(r_item) <=> begin = r_item
         /\ PositionOf(r_item) = NULL <=> r_item = NULL
         /\ PositionOf(f_item) = Place(back) <=> f_item = back
<1>1. /\ Pointed(begin) /\ Pointed(back) /\ Pointed(f_item)
      /\ w_item = NULL \/ Pointed(w_item)
      /\ r_item = NULL \/ Pointed(r_item)
      /\ contention = NULL \/ Pointed(contention)
  BY DEF IInv, StorageInv, HeapTyped, Linked, Pointed, QueueInv, Pointers
<1>2. \A p : Pointed(p) => p # NULL
  BY ChunkedAssumption DEF ChunkedAssumption, Pointed
<1>3. /\ PositionOf(begin) = Mapped(begin) /\ PositionOf(f_item) = Mapped(f_item)
      /\ PositionOf(w_item) = Mapped(w_item)
      /\ PositionOf(r_item) = Mapped(r_item)
      /\ PositionOf(contention) = Mapped(contention)
      /\ Mapped(NULL) = NULL /\ Place(back) = Mapped(back)
  BY <1>1, <1>2, PositionsNow DEF PositionsMapped, Mapped
<1>4. w_item = f_item <=> Mapped(w_item) = Mapped(f_item)
  BY <1>1, SamePosition
<1>5. contention = w_item <=> Mapped(contention) = Mapped(w_item)
  BY <1>1, SamePosition
<1>6. contention = begin <=> Mapped(contention) = Mapped(begin)
  BY <1>1, SamePosition
<1>7. begin = r_item <=> Mapped(begin) = Mapped(r_item)
  BY <1>1, SamePosition
<1>8. r_item = NULL <=> Mapped(r_item) = Mapped(NULL)
  BY <1>1, SamePosition
<1>9. f_item = back <=> Mapped(f_item) = Mapped(back)
  BY <1>1, SamePosition
<1>10. QED
  BY <1>3, <1>4, <1>5, <1>6, <1>7, <1>8, <1>9

\* A pointer that is left alone keeps its position.
LEMMA PositionsStay ==
  ASSUME IInv, IInv', \A a \in {w_item, f_item, r_item, contention} : a # NULL => Stays(a)
  PROVE  /\ w_item' = w_item => PositionOf(w_item)' = PositionOf(w_item)
         /\ f_item' = f_item => PositionOf(f_item)' = PositionOf(f_item)
         /\ r_item' = r_item => PositionOf(r_item)' = PositionOf(r_item)
         /\ contention' = contention => PositionOf(contention)' = PositionOf(contention)
<1>1. PositionsMapped /\ PositionsMapped'
  BY PositionsNow, PositionsNext
<1>2. f_item # NULL
  BY ChunkedAssumption DEF ChunkedAssumption, IInv, QueueInv, Pointers, Pointed
<1>3. /\ w_item # NULL => heap'[w_item.chunk].first + w_item.pos = Place(w_item)
      /\ heap'[f_item.chunk].first + f_item.pos = Place(f_item)
      /\ r_item # NULL => heap'[r_item.chunk].first + r_item.pos = Place(r_item)
      /\ contention # NULL => heap'[contention.chunk].first + contention.pos = Place(contention)
  BY <1>2 DEF Stays
<1>4. w_item' = w_item => PositionOf(w_item)' = PositionOf(w_item)
  BY <1>1, <1>3 DEF PositionsMapped, Mapped, Place
<1>5. f_item' = f_item => PositionOf(f_item)' = PositionOf(f_item)
  BY <1>1, <1>3 DEF PositionsMapped, Place
<1>6. r_item' = r_item => PositionOf(r_item)' = PositionOf(r_item)
  BY <1>1, <1>3 DEF PositionsMapped, Mapped, Place
<1>7. contention' = contention => PositionOf(contention)' = PositionOf(contention)
  BY <1>1, <1>3 DEF PositionsMapped, Mapped, Place
<1>8. QED
  BY <1>4, <1>5, <1>6, <1>7

LEMMA SlotsFacts ==
  ASSUME IInv, ~MallocMayFail
  PROVE  /\ accepted \in Seq(Items) /\ Len(accepted) \in Nat
         /\ linking = NULL => Slots = accepted /\ Len(Slots) + 1 = Place(back)
         /\ linking # NULL => /\ Len(accepted) \in 1..Len(accepted) /\ accepted[Len(accepted)] \in Items
                              /\ accepted = Append(Slots, accepted[Len(accepted)])
                              /\ Len(Slots) + 2 = Place(back) /\ Len(Slots) + 1 = Len(accepted)
         /\ Len(Slots) \in Nat /\ \A i \in 1..Len(Slots) : Slots[i] = accepted[i]
<1>1. /\ accepted \in Seq(Items) /\ Len(accepted) \in Nat
      /\ Place(back) = Len(accepted) + 1 /\ Place(f_item) \in Nat
      /\ linking # NULL => Place(f_item) < Place(back)
  BY LenProperties, PlacesTyped DEF IInv, QueueInv, History, Complete
<1>2. 1 <= Place(f_item)
  <2>1. Len(got) \in Nat /\ Place(begin) = Len(got) + 1 /\ FlushedAt \in Nat
        /\ Place(begin) <= FlushedAt /\ FlushedAt <= Place(f_item)
    BY LenProperties, PlacesTyped DEF IInv, QueueInv, Order, History
  <2>2. QED
    BY <2>1, <1>1
<1>3. CASE linking = NULL
  BY <1>1, <1>3 DEF Slots
<1>4. CASE linking # NULL
  <2>1. Len(accepted) \in 1..Len(accepted) /\ Slots = SubSeq(accepted, 1, Len(accepted) - 1)
    BY <1>1, <1>2, <1>4 DEF Slots
  <2>2. /\ Slots \in Seq(Items) /\ Len(Slots) = Len(accepted) - 1
        /\ \A i \in 1..Len(accepted) - 1 : Slots[i] = accepted[i]
    <3>1. Len(accepted) - 1 \in Int /\ 1 <= Len(accepted)
          /\ \A k \in 1..Len(accepted) - 1 : k \in 1..Len(accepted)
      BY <1>1, <2>1
    <3>2. \A k \in 1..Len(accepted) : accepted[k] \in Items
      BY <1>1, ElementOfSeq
    <3>3. /\ Slots \in Seq(Items)
          /\ Len(Slots) = IF 1 <= Len(accepted) - 1 THEN Len(accepted) - 1 - 1 + 1 ELSE 0
          /\ \A i \in 1..Len(accepted) - 1 - 1 + 1 : Slots[i] = accepted[1 + i - 1]
      BY <3>1, <3>2, <2>1, SubSeqProperties
    <3>4. \A i \in 1..Len(accepted) - 1 : 1 + i - 1 = i /\ i \in 1..Len(accepted) - 1 - 1 + 1
      BY <1>1
    <3>5. Len(Slots) = Len(accepted) - 1
      <4>1. CASE 1 <= Len(accepted) - 1
        <5>1. Len(Slots) = Len(accepted) - 1 - 1 + 1
          BY <3>3, <4>1
        <5>2. QED
          BY <5>1, <1>1
      <4>2. CASE ~(1 <= Len(accepted) - 1)
        <5>1. Len(Slots) = 0
          BY <3>3, <4>2
        <5>2. Len(accepted) \in Nat /\ 1 <= Len(accepted)
          BY <3>1, <1>1
        <5>3. \A n \in Nat : 1 <= n => n = 1 \/ 1 <= n - 1
          OBVIOUS
        <5>4. Len(accepted) = 1
          BY <5>2, <5>3, <4>2
        <5>5. QED
          BY <5>1, <5>4
      <4>3. QED
        BY <4>1, <4>2
    <3>6. \A i \in 1..Len(accepted) - 1 : Slots[i] = accepted[i]
      BY <3>3, <3>4
    <3>7. QED
      BY <3>3, <3>5, <3>6
  <2>3. accepted[Len(accepted)] \in Items
    BY <1>1, <2>1, ElementOfSeq
  <2>4. accepted = Append(Slots, accepted[Len(accepted)])
    <3> DEFINE t == Append(Slots, accepted[Len(accepted)])
    <3>1. /\ t \in Seq(Items) /\ Len(t) = Len(accepted) /\ t[Len(accepted)] = accepted[Len(accepted)]
          /\ \A i \in 1..Len(accepted) - 1 : t[i] = accepted[i]
      BY <1>1, <2>1, <2>2, <2>3, AppendProperties
    <3>2. \A i \in 1..Len(accepted) : t[i] = accepted[i]
      BY <3>1, <1>1
    <3> HIDE DEF t
    <3>3. t = accepted
      BY <3>1, <3>2, <1>1, SeqEqual
    <3>4. QED
      BY <3>3 DEF t
  <2>5. Len(Slots) \in Nat /\ Len(Slots) + 1 = Len(accepted) /\ Len(Slots) + 2 = Place(back)
    BY <1>1, <2>1, <2>2
  <2>6. \A i \in 1..Len(Slots) : Slots[i] = accepted[i]
    BY <2>2
  <2>7. QED
    BY <1>1, <1>4, <2>1, <2>3, <2>4, <2>5, <2>6
<1>5. QED
  BY <1>3, <1>4

-----------------------------------------------------------------------------
(* Step by step.                                                            *)

LEMMA InitPositions == Init /\ ~MallocMayFail => PositionView!Init
<1> SUFFICES ASSUME Init, ~MallocMayFail PROVE PositionView!Init
  OBVIOUS
<1>0. InitAllocates
  BY InitEmpty DEF Empty
<1>1. IInv /\ PositionsMapped
  BY <1>0, InitIInv, PositionsNow
<1>2. /\ begin = back /\ Place(begin) = 1 /\ linking = NULL /\ back \in Address
  BY <1>0, InitStorage DEF Init
<1>3. /\ w_item = back /\ f_item = back /\ r_item = back /\ contention = back
      /\ storing = FALSE /\ accepted = <<>> /\ got = <<>>
  BY DEF Init
<1>4. back # NULL
  BY <1>2, ChunkedAssumption DEF ChunkedAssumption
<1>5. QED
  BY <1>1, <1>2, <1>3, <1>4 DEF PositionsMapped, Mapped, PositionView!Init

\* The state of the queue of positions, conjunct by conjunct.
LEMMA PositionVars ==
  ASSUME Slots' = Slots, PositionOf(begin)' = PositionOf(begin), PositionOf(w_item)' = PositionOf(w_item),
         PositionOf(f_item)' = PositionOf(f_item), PositionOf(r_item)' = PositionOf(r_item),
         PositionOf(contention)' = PositionOf(contention), storing' = storing, got' = got
  PROVE  UNCHANGED PositionView!vars
  BY DEF PositionView!vars, Slots

LEMMA WriteMaps ==
  ASSUME MappedInv, MappedInv', ~MallocMayFail,
         NEW item \in Items, NEW incomplete \in BOOLEAN, Write(item, incomplete)
  PROVE  PositionView!Write(item, incomplete) \/ UNCHANGED PositionView!vars
<1>1. IInv /\ IInv' /\ StorageInv /\ QueueInv
  BY DEF MappedInv, IInv
<1>2. /\ ~storing /\ linking = NULL /\ Len(accepted) < MaxItems /\ accepted' = Append(accepted, item)
      /\ UNCHANGED <<w_item, r_item, contention, storing, got>>
  BY DEF Write, WriterIdle
<1>3. /\ Place(begin)' = Place(begin) /\ Place(back)' = Place(end)
      /\ \A a \in {w_item, f_item, r_item, contention} : a # NULL => Stays(a)
  BY <1>1, WriteStep
<1>4. /\ PositionOf(w_item)' = PositionOf(w_item)
      /\ f_item' = f_item => PositionOf(f_item)' = PositionOf(f_item)
      /\ PositionOf(r_item)' = PositionOf(r_item)
      /\ PositionOf(contention)' = PositionOf(contention)
      /\ PositionOf(begin)' = PositionOf(begin)
  BY <1>1, <1>2, <1>3, PositionsStay, PositionsNow, PositionsNext DEF PositionsMapped
<1>5. /\ Slots = accepted /\ Len(Slots) + 1 = Place(back) /\ accepted \in Seq(Items) /\ Len(accepted) \in Nat
      /\ Place(end) = Place(back) + 1
  BY <1>1, <1>2, SlotsFacts DEF StorageInv, CursorsFit
<1>6. CASE PushWithin(item) /\ f_item' = (IF incomplete THEN f_item ELSE back')
  <2>1. linking' = NULL
    BY <1>2, <1>6 DEF PushWithin
  <2>2. Slots' = Append(Slots, item)
    BY <2>1, <1>2, <1>5 DEF Slots
  <2>3. PositionOf(f_item)' = IF incomplete THEN PositionOf(f_item) ELSE Len(Slots) + 1 + 1
    <3>1. CASE incomplete
      BY <3>1, <1>4, <1>6
    <3>2. CASE ~incomplete
      <4>1. Place(f_item)' = Place(back)'
        BY <3>2, <1>6 DEF Place
      <4>2. QED
        BY <3>2, <4>1, <1>1, <1>3, <1>5, PositionsNext DEF PositionsMapped
    <3>3. QED
      BY <3>1, <3>2
  <2>4. PositionView!Write(item, incomplete)
    BY <2>2, <2>3, <1>2, <1>4, <1>5
    DEF PositionView!Write, PositionView!Back, PositionView!readerVars, Slots
  <2>5. QED
    BY <2>4
<1>7. CASE PushTakeChunk(item) /\ UNCHANGED f_item
  <2>1. linking' # NULL
    BY <1>1, <1>2, <1>7, PushTakeChunkKeeps
  <2>2. Slots' = Slots
    <3>1. Len(accepted') = Len(accepted) + 1 /\ accepted' \in Seq(Items)
          /\ \A i \in 1..Len(accepted) : accepted'[i] = accepted[i]
      BY <1>2, <1>5, AppendProperties
    <3>2. Slots' = SubSeq(accepted', 1, Len(accepted))
      BY <2>1, <3>1, <1>5 DEF Slots
    <3>3. /\ SubSeq(accepted', 1, Len(accepted)) \in Seq(Items)
          /\ Len(SubSeq(accepted', 1, Len(accepted))) = Len(accepted)
          /\ \A i \in 1..Len(accepted) : SubSeq(accepted', 1, Len(accepted))[i] = accepted[i]
      BY <3>1, <1>5, SubSeqProperties
    <3>4. SubSeq(accepted', 1, Len(accepted)) = accepted
      BY <3>3, <1>5, SeqEqual
    <3>5. QED
      BY <3>2, <3>4, <1>5
  <2>3. QED
    BY <2>2, <1>2, <1>4, <1>7, PositionVars
<1>8. ~PushFails(item)
  BY DEF PushFails
<1>9. QED
  BY <1>6, <1>7, <1>8 DEF Write

LEMMA WriteLinkMaps ==
  ASSUME MappedInv, MappedInv', ~MallocMayFail, WriteLink
  PROVE  \E item \in Items, incomplete \in BOOLEAN : PositionView!Write(item, incomplete)
<1>1. IInv /\ IInv' /\ StorageInv /\ QueueInv /\ Len(accepted) <= MaxItems
  BY DEF MappedInv, IInv
<1>2. /\ f_item' = (IF more THEN f_item ELSE back) /\ more \in BOOLEAN
      /\ UNCHANGED <<w_item, r_item, contention, storing, accepted, got>>
  BY <1>1 DEF WriteLink, QueueInv, History
<1>3. /\ Place(begin)' = Place(begin) /\ Place(back)' = Place(back)
      /\ linking # NULL /\ linking' = NULL /\ back' = back
      /\ \A a \in {w_item, f_item, r_item, contention} : a # NULL => Stays(a)
  BY <1>1, WriteLinkStep DEF WriteLink, PushLink
<1>4. /\ PositionOf(w_item)' = PositionOf(w_item)
      /\ f_item' = f_item => PositionOf(f_item)' = PositionOf(f_item)
      /\ PositionOf(r_item)' = PositionOf(r_item)
      /\ PositionOf(contention)' = PositionOf(contention)
      /\ PositionOf(begin)' = PositionOf(begin)
  BY <1>1, <1>2, <1>3, PositionsStay, PositionsNow, PositionsNext DEF PositionsMapped
<1>5. /\ accepted = Append(Slots, accepted[Len(accepted)]) /\ accepted[Len(accepted)] \in Items
      /\ Len(Slots) + 2 = Place(back) /\ Len(Slots) + 1 = Len(accepted) /\ Len(accepted) \in Nat
  BY <1>1, <1>3, SlotsFacts
<1>6. ~storing
  BY <1>1, <1>3 DEF QueueInv, Complete
<1>7. Slots' = Append(Slots, accepted[Len(accepted)])
  BY <1>2, <1>3, <1>5 DEF Slots
<1>8. Len(Slots) < MaxItems /\ Place(back) = Len(Slots) + 1 + 1
  <2>1. Len(Slots) \in Nat /\ MaxItems \in Nat
    BY <1>1, SlotsFacts, ChunkedAssumption DEF ChunkedAssumption
  <2>2. QED
    BY <2>1, <1>1, <1>5
<1>9. PositionOf(f_item)' = IF more THEN PositionOf(f_item) ELSE Len(Slots) + 1 + 1
  <2>1. CASE more
    BY <2>1, <1>2, <1>4
  <2>2. CASE ~more
    <3>1. Place(f_item)' = Place(back)'
      BY <2>2, <1>2, <1>3 DEF Place
    <3>2. QED
      BY <2>2, <3>1, <1>1, <1>3, <1>8, PositionsNext DEF PositionsMapped
  <2>3. QED
    BY <2>1, <2>2
<1>10. PositionView!Write(accepted[Len(accepted)], more)
  BY <1>2, <1>4, <1>6, <1>7, <1>8, <1>9
  DEF PositionView!Write, PositionView!Back, PositionView!readerVars, Slots
<1>11. QED
  BY <1>2, <1>5, <1>10

LEMMA UnwriteMaps ==
  ASSUME MappedInv, MappedInv', ~MallocMayFail, Unwrite
  PROVE  PositionView!Unwrite
<1>1. IInv /\ IInv' /\ StorageInv /\ QueueInv
  BY DEF MappedInv, IInv
<1>2. /\ ~storing /\ linking = NULL /\ f_item # back
      /\ accepted' = SubSeq(accepted, 1, Len(accepted) - 1)
      /\ UNCHANGED <<w_item, f_item, r_item, contention, storing, got>>
  BY DEF Unwrite, WriterIdle
<1>3. /\ Place(begin)' = Place(begin) /\ linking' = NULL
      /\ \A a \in {w_item, f_item, r_item, contention} : a # NULL => Stays(a)
  BY <1>1, UnwriteStep
<1>4. /\ PositionOf(w_item)' = PositionOf(w_item)
      /\ PositionOf(f_item)' = PositionOf(f_item)
      /\ PositionOf(r_item)' = PositionOf(r_item)
      /\ PositionOf(contention)' = PositionOf(contention)
      /\ PositionOf(begin)' = PositionOf(begin)
  BY <1>1, <1>2, <1>3, PositionsStay, PositionsNow, PositionsNext DEF PositionsMapped
<1>5. Slots = accepted /\ Len(Slots) + 1 = Place(back) /\ Slots' = accepted'
  BY <1>1, <1>2, <1>3, SlotsFacts DEF Slots
<1>6. PositionOf(f_item) # Len(Slots) + 1
  BY <1>1, <1>2, <1>5, Comparisons
<1>7. QED
  BY <1>2, <1>4, <1>5, <1>6
  DEF PositionView!Unwrite, PositionView!Back, PositionView!writerVars, PositionView!readerVars, Slots

LEMMA FlushCasMaps ==
  ASSUME MappedInv, FlushCas
  PROVE  PositionView!FlushCas
<1>1. IInv
  BY DEF MappedInv
<1>2. /\ ~storing /\ w_item # f_item /\ UNCHANGED <<f_item, r_item, accepted, got>>
      /\ begin' = begin /\ heap' = heap /\ linking' = linking
  BY DEF FlushCas, WriterIdle, batchVars
<1>3. \A p : PositionOf(p)' = PositionOf(p)
  BY <1>2 DEF PositionOf
<1>4. /\ PositionOf(begin)' = PositionOf(begin) /\ PositionOf(f_item)' = PositionOf(f_item)
      /\ PositionOf(r_item)' = PositionOf(r_item) /\ Slots' = Slots
  BY <1>2 DEF PositionOf, Slots
<1>5. PositionOf(w_item) # PositionOf(f_item)
  BY <1>1, <1>2, Comparisons
<1>6. CASE contention = w_item /\ contention' = f_item /\ w_item' = f_item /\ UNCHANGED storing
  <2>1. /\ PositionOf(contention) = PositionOf(w_item)
        /\ PositionOf(contention)' = PositionOf(f_item) /\ PositionOf(w_item)' = PositionOf(f_item)
    BY <1>2, <1>6 DEF PositionOf
  <2>2. QED
    BY <2>1, <1>2, <1>4, <1>5, <1>6 DEF PositionView!FlushCas, PositionView!readerVars, Slots
<1>7. CASE contention # w_item /\ w_item' = contention /\ storing' = TRUE /\ UNCHANGED contention
  <2>1. /\ PositionOf(contention) # PositionOf(w_item)
        /\ PositionOf(contention)' = PositionOf(contention) /\ PositionOf(w_item)' = PositionOf(contention)
    <3>1. PositionOf(contention) # PositionOf(w_item)
      BY <1>1, <1>7, Comparisons
    <3>2. QED
      BY <3>1, <1>2, <1>7 DEF PositionOf
  <2>2. QED
    BY <2>1, <1>2, <1>4, <1>5, <1>7 DEF PositionView!FlushCas, PositionView!readerVars, Slots
<1>8. QED
  BY <1>6, <1>7 DEF FlushCas

LEMMA FlushStoreMaps ==
  ASSUME FlushStore
  PROVE  PositionView!FlushStore
<1>1. /\ storing /\ contention' = f_item /\ w_item' = f_item /\ storing' = FALSE
      /\ UNCHANGED <<f_item, r_item, accepted, got>>
      /\ begin' = begin /\ heap' = heap /\ linking' = linking
  BY DEF FlushStore, batchVars
<1>2. /\ PositionOf(begin)' = PositionOf(begin) /\ PositionOf(f_item)' = PositionOf(f_item)
      /\ PositionOf(r_item)' = PositionOf(r_item) /\ Slots' = Slots
      /\ PositionOf(contention)' = PositionOf(f_item) /\ PositionOf(w_item)' = PositionOf(f_item)
  BY <1>1 DEF PositionOf, Slots
<1>3. QED
  BY <1>1, <1>2 DEF PositionView!FlushStore, PositionView!readerVars, Slots

LEMMA PrefetchMaps ==
  ASSUME MappedInv, Prefetch
  PROVE  PositionView!Prefetch
<1>1. IInv
  BY DEF MappedInv
<1>2. /\ ~Prefetched /\ UNCHANGED <<w_item, f_item, storing, accepted, got>>
      /\ begin' = begin /\ heap' = heap /\ linking' = linking
  BY DEF Prefetch, batchVars
<1>3. /\ PositionOf(begin)' = PositionOf(begin) /\ PositionOf(f_item)' = PositionOf(f_item)
      /\ PositionOf(w_item)' = PositionOf(w_item) /\ Slots' = Slots
  BY <1>2 DEF PositionOf, Slots
<1>4. ~PositionView!Prefetched
  BY <1>1, <1>2, Comparisons DEF PositionView!Prefetched, Prefetched
<1>5. CASE contention = begin /\ contention' = NULL /\ r_item' = begin
  <2>1. /\ PositionOf(contention) = PositionOf(begin)
        /\ PositionOf(contention)' = NULL /\ PositionOf(r_item)' = PositionOf(begin)
    BY <1>2, <1>5 DEF PositionOf
  <2>2. QED
    BY <2>1, <1>2, <1>3, <1>4 DEF PositionView!Prefetch, PositionView!writerVars, Slots
<1>6. CASE contention # begin /\ r_item' = contention /\ UNCHANGED contention
  <2>1. PositionOf(contention) # PositionOf(begin)
    BY <1>1, <1>6, Comparisons
  <2>2. PositionOf(contention)' = PositionOf(contention) /\ PositionOf(r_item)' = PositionOf(contention)
    BY <1>2, <1>6 DEF PositionOf
  <2>3. QED
    BY <2>1, <2>2, <1>2, <1>3, <1>4 DEF PositionView!Prefetch, PositionView!writerVars, Slots
<1>7. QED
  BY <1>5, <1>6 DEF Prefetch

LEMMA PopMaps ==
  ASSUME MappedInv, MappedInv', ~MallocMayFail, Pop
  PROVE  PositionView!Pop
<1>1. IInv /\ IInv' /\ StorageInv /\ QueueInv
  BY DEF MappedInv, IInv
<1>2. /\ Prefetched /\ got' = Append(got, ValueAt(begin)) /\ linking' = linking
      /\ UNCHANGED <<w_item, f_item, r_item, contention, storing, accepted>>
  BY DEF Pop, PopAdvance
<1>3. /\ Place(begin)' = Place(begin) + 1 /\ Place(begin) < Place(f_item)
      /\ \A a \in {w_item, f_item, r_item, contention} : a # NULL => Stays(a)
  BY <1>1, PopStep
<1>4. /\ PositionOf(w_item)' = PositionOf(w_item)
      /\ PositionOf(f_item)' = PositionOf(f_item)
      /\ PositionOf(r_item)' = PositionOf(r_item)
      /\ PositionOf(contention)' = PositionOf(contention)
      /\ PositionOf(begin)' = PositionOf(begin) + 1
  BY <1>1, <1>2, <1>3, PositionsStay, PositionsNow, PositionsNext DEF PositionsMapped
<1>5. PositionView!Prefetched
  BY <1>1, <1>2, Comparisons DEF PositionView!Prefetched, Prefetched
<1>6. Slots' = Slots
  BY <1>2 DEF Slots
<1>7. /\ Place(begin) \in Nat /\ Place(f_item) \in Nat /\ Place(back) \in Nat /\ 1 <= Place(begin)
      /\ Place(f_item) <= Place(back)
      /\ linking # NULL => Place(f_item) < Place(back)
  <2>1. Len(got) \in Nat /\ Place(begin) = Len(got) + 1
    BY <1>1, LenProperties DEF QueueInv, Order, History
  <2>2. QED
    BY <2>1, <1>1, PlacesTyped DEF QueueInv, Order, Complete
<1>8. Place(begin) \in 1..Len(Slots)
  <2>1. Len(Slots) + 1 = Place(back) \/ (linking # NULL /\ Len(Slots) + 2 = Place(back))
    BY <1>1, SlotsFacts
  <2>2. Len(Slots) \in Nat
    BY <1>1, SlotsFacts
  <2>3. QED
    BY <2>1, <2>2, <1>3, <1>7
<1>9. ValueAt(begin) = Slots[PositionOf(begin)]
  <2>1. begin \in Address /\ begin.chunk \in Listed
    BY <1>1 DEF StorageInv, HeapTyped, Linked
  <2>2. Place(begin) <= Place(begin) /\ Place(begin) < Place(back) /\ Contents
    BY <1>1, <1>3, <1>7 DEF QueueInv
  <2>3. ValueAt(begin) = accepted[Place(begin)]
    BY <2>1, <2>2 DEF Contents
  <2>4. QED
    BY <2>3, <1>1, <1>8, SlotsFacts, PositionsNow DEF PositionsMapped
<1>10. QED
  BY <1>2, <1>4, <1>5, <1>6, <1>9 DEF PositionView!Pop, PositionView!writerVars, Slots

LEMMA PopDoneStutters ==
  ASSUME MappedInv, MappedInv', PopDone
  PROVE  UNCHANGED PositionView!vars
<1>1. IInv /\ IInv' /\ StorageInv /\ QueueInv
  BY DEF MappedInv, IInv
<1>2. linking' = linking /\ UNCHANGED <<w_item, f_item, r_item, contention, storing, accepted, got>>
  BY DEF PopDone, PopRetire
<1>3. /\ Place(begin)' = Place(begin)
      /\ \A a \in {w_item, f_item, r_item, contention} : a # NULL => Stays(a)
  BY <1>1, PopDoneStep
<1>4. /\ PositionOf(w_item)' = PositionOf(w_item)
      /\ PositionOf(f_item)' = PositionOf(f_item)
      /\ PositionOf(r_item)' = PositionOf(r_item)
      /\ PositionOf(contention)' = PositionOf(contention)
      /\ PositionOf(begin)' = PositionOf(begin)
  BY <1>1, <1>2, <1>3, PositionsStay, PositionsNow, PositionsNext DEF PositionsMapped
<1>5. Slots' = Slots
  BY <1>2 DEF Slots
<1>6. QED
  BY <1>2, <1>4, <1>5, PositionVars

LEMMA NextMaps ==
  MappedInv /\ MappedInv' /\ ~MallocMayFail /\ [Next]_vars => [PositionView!Next]_(PositionView!vars)
<1> SUFFICES ASSUME MappedInv, MappedInv', ~MallocMayFail, [Next]_vars
             PROVE  [PositionView!Next]_(PositionView!vars)
  OBVIOUS
<1>1. ASSUME NEW item \in Items, NEW incomplete \in BOOLEAN, Write(item, incomplete)
      PROVE  [PositionView!Next]_(PositionView!vars)
  BY <1>1, WriteMaps DEF PositionView!Next
<1>2. CASE WriteLink
  BY <1>2, WriteLinkMaps DEF PositionView!Next
<1>3. CASE Unwrite
  BY <1>3, UnwriteMaps DEF PositionView!Next
<1>4. CASE FlushCas
  BY <1>4, FlushCasMaps DEF PositionView!Next
<1>5. CASE FlushStore
  BY <1>5, FlushStoreMaps DEF PositionView!Next
<1>6. CASE Prefetch
  BY <1>6, PrefetchMaps DEF PositionView!Next
<1>7. CASE Pop
  BY <1>7, PopMaps DEF PositionView!Next
<1>8. CASE PopDone
  BY <1>8, PopDoneStutters
<1>9. CASE UNCHANGED vars
  <2>1. UNCHANGED <<heap, linking, begin, w_item, f_item, r_item, contention, storing, accepted, got>>
    BY <1>9 DEF vars, batchVars, pointers
  <2>2. Slots' = Slots
    BY <2>1 DEF Slots
  <2>3. /\ PositionOf(begin)' = PositionOf(begin) /\ PositionOf(w_item)' = PositionOf(w_item)
        /\ PositionOf(f_item)' = PositionOf(f_item) /\ PositionOf(r_item)' = PositionOf(r_item)
        /\ PositionOf(contention)' = PositionOf(contention)
    BY <2>1 DEF PositionOf
  <2>4. QED
    BY <2>1, <2>2, <2>3, PositionVars
<1>10. ~WriteToNull
  BY CursorsAreThere DEF WriteToNull, MappedInv
<1>11. QED
  BY <1>1, <1>2, <1>3, <1>4, <1>5, <1>6, <1>7, <1>8, <1>9, <1>10 DEF Next, Operation

(* The queue over the recycled chunks is the queue of positions, for every   *)
(* number of slots in a chunk and every number of chunks: that an address is *)
(* used again never makes a compare-and-swap or a comparison succeed that    *)
(* should not (contention_.Cas in Flush and CheckRead, spsc_queue.hpp).      *)
(* When malloc fails an item may be lost, hence the assumption.              *)
THEOREM ChunkedImplementsPositions == ASSUME ~MallocMayFail PROVE Spec => ImplementsSpscQueue
<1>1. Init => PositionView!Init
  BY InitPositions
<1>2. MappedInv /\ MappedInv' /\ [Next]_vars => [PositionView!Next]_(PositionView!vars)
  BY NextMaps
<1>3. QED
  BY <1>1, <1>2, SpecMapped, PTL DEF Spec, ImplementsSpscQueue, PositionView!Spec
-----------------------------------------------------------------------------
(* What is proved of the queue of positions holds of the chunked one.       *)
PositionProofs == INSTANCE SpscQueueProofs WITH
  slots      <- IF linking = NULL THEN accepted
                ELSE SubSeq(accepted, 1, Len(accepted) - 1),
  begin      <- PositionOf(begin),
  w_item     <- PositionOf(w_item),
  f_item     <- PositionOf(f_item),
  r_item     <- PositionOf(r_item),
  contention <- PositionOf(contention)

\* The queue of positions is one and the same in both instances.
LEMMA SamePositions == PositionView!Spec => PositionProofs!Spec
<1>1. PositionView!Init => PositionProofs!Init
  BY DEF PositionView!Init, PositionProofs!Init
<1>2. PositionView!Next => PositionProofs!Next
  BY DEF PositionView!Next, PositionProofs!Next, PositionView!Write, PositionProofs!Write,
         PositionView!Unwrite, PositionProofs!Unwrite, PositionView!FlushCas,
         PositionProofs!FlushCas, PositionView!FlushStore, PositionProofs!FlushStore,
         PositionView!Prefetch, PositionProofs!Prefetch, PositionView!Pop, PositionProofs!Pop,
         PositionView!Back, PositionProofs!Back, PositionView!Prefetched,
         PositionProofs!Prefetched, PositionView!writerVars, PositionProofs!writerVars,
         PositionView!readerVars, PositionProofs!readerVars
<1>3. UNCHANGED PositionView!vars => UNCHANGED PositionProofs!vars
  BY DEF PositionView!vars, PositionProofs!vars
<1>4. QED
  BY <1>1, <1>2, <1>3, PTL DEF PositionView!Spec, PositionProofs!Spec

(* The queue over the recycled chunks is the abstract channel: what was      *)
(* written comes out in order, none lost and none twice, a message becomes   *)
(* visible as a whole, and a reader sleeps only when it missed nothing       *)
(* (what spsc_queue.hpp:176-181 and :233-236 promise of the whole class).    *)
THEOREM ChunkedImplementsChannel ==
  ASSUME ~MallocMayFail PROVE Spec => PositionProofs!ImplementsChannel
<1>1. PositionProofs!SpscAssumption
  BY BatchAssumption, ChunkedAssumption
  DEF PositionProofs!SpscAssumption, BatchAssumption, ChunkedAssumption
<1>2. PositionProofs!Spec => PositionProofs!ImplementsChannel
  BY <1>1, PositionProofs!QueueImplementsChannel
<1>3. Spec => PositionView!Spec
  BY ChunkedImplementsPositions DEF ImplementsSpscQueue
<1>4. QED
  BY <1>2, <1>3, SamePositions, PTL
=============================================================================
