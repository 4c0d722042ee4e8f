-------------------------- MODULE SpscQueueProofs --------------------------
(***************************************************************************)
(* Proofs about SpscQueue for every set of items and every bound.          *)
(***************************************************************************)
EXTENDS SpscQueue, SequenceTheorems, TLAPS

(***************************************************************************)
(* The inductive invariant.  TypeOK and the two state predicates of        *)
(* SpscQueue are not inductive alone: a step of the reader trusts          *)
(* `contention', so the invariant says which values the shared word can    *)
(* have, and a step of the writer trusts that a NULL there is the reader's *)
(* last word until the store.                                              *)
(***************************************************************************)
WordIsTail == contention \in {NULL, w_item}

StorePending ==
  storing <=> w_item = NULL

StoreHasWork ==
  storing => contention = NULL /\ begin < f_item

PositionsOrdered ==
  /\ begin <= Flushed
  /\ Flushed <= f_item
  /\ r_item # NULL => begin <= r_item /\ r_item <= Flushed

IInv ==
  /\ TypeOK
  /\ WordIsTail
  /\ StorePending
  /\ StoreHasWork
  /\ PositionsOrdered
  /\ SleeperConsumedAll

LEMMA InitIInv == Init => IInv
<1> SUFFICES ASSUME Init PROVE IInv
  OBVIOUS
<1> USE DEF Init
<1>1. Back = 1
  BY DEF Back
<1>2. TypeOK
  <2>1. slots \in Seq(Items) /\ got \in Seq(Items)
    BY EmptySeq
  <2>2. storing \in BOOLEAN
    OBVIOUS
  <2>3. 1 \in 1..Back
    BY <1>1
  <2>4. QED
    BY <2>1, <2>2, <2>3 DEF TypeOK
<1>3. Flushed = 1
  BY DEF Flushed
<1>4. /\ WordIsTail
      /\ StoreHasWork
      /\ PositionsOrdered
      /\ StorePending
      /\ SleeperConsumedAll
  BY <1>3, SpscAssumption DEF SpscAssumption, WordIsTail, StoreHasWork, PositionsOrdered,
     StorePending, SleeperConsumedAll
<1>5. QED
  BY <1>2, <1>4 DEF IInv

LEMMA IInvImplies == IInv => ReaderSlotIsSettled
  BY SpscAssumption DEF SpscAssumption, IInv, Flushed, ReaderSlotIsSettled, Prefetched, PositionsOrdered, TypeOK, Back

LEMMA NextIInv == IInv /\ [Next]_vars => IInv'
<1> SUFFICES ASSUME IInv, [Next]_vars PROVE IInv'
  OBVIOUS
<1> USE SpscAssumption DEF SpscAssumption, IInv, TypeOK, WordIsTail, StorePending, StoreHasWork,
     PositionsOrdered, SleeperConsumedAll, Flushed, Back, writerVars, readerVars
<1>1. ASSUME NEW value \in Items, NEW incomplete \in BOOLEAN, Write(value, incomplete)
      PROVE  IInv'
  BY <1>1 DEF Write
<1>2. CASE Unwrite
  BY <1>2 DEF Unwrite
<1>3. CASE FlushCas
  BY <1>3 DEF FlushCas
<1>4. CASE FlushStore
  BY <1>4 DEF FlushStore
<1>5. CASE Prefetch
  BY <1>5 DEF Prefetch, Prefetched
<1>6. CASE Pop
  BY <1>6 DEF Pop, Prefetched
<1>7. CASE UNCHANGED vars
  BY <1>7 DEF vars
<1>8. QED
  BY <1>1, <1>2, <1>3, <1>4, <1>5, <1>6, <1>7 DEF Next

LEMMA SpecIInv == Spec => []IInv
  BY InitIInv, NextIInv, PTL DEF Spec

(* Every variable keeps its type and no pointer of the queue ever leaves    *)
(* the slots that exist (spsc_queue.hpp:207-302), in any interleaving of    *)
(* the writer with the reader.                                              *)
THEOREM TypeCorrect == Spec => []TypeOK
<1>1. IInv => TypeOK
  BY DEF IInv
<1>2. QED
  BY <1>1, SpecIInv, PTL

(* The reader and the writer never use the same slot without               *)
(* synchronisation (the contract of spsc_queue.hpp:17-20).                 *)
THEOREM SlotsAreDisjoint == Spec => []ReaderSlotIsSettled
  BY SpecIInv, IInvImplies, PTL

(* A reader that went to sleep has consumed all that was flushed.           *)
THEOREM SleeperMissedNothing == Spec => []SleeperConsumedAll
<1>1. IInv => SleeperConsumedAll
  BY DEF IInv
<1>2. QED
  BY <1>1, SpecIInv, PTL

(* The relaxed store of Flush overwrites nothing of the reader's            *)
(* (the claim in spsc_queue.hpp:246-250).                                   *)
THEOREM StoreOverwritesNothing == Spec => StoreIsUncontended
<1>1. IInv /\ IInv' /\ [Next]_vars
      => [storing /\ storing' => contention = NULL /\ contention' = NULL]_vars
  BY DEF IInv, StoreHasWork
<1>2. QED
  BY <1>1, SpecIInv, PTL DEF Spec, StoreIsUncontended

-----------------------------------------------------------------------------
(***************************************************************************)
(* The queue implements the channel.  Each lemma is a step of the queue    *)
(* seen through the refinement mapping: how the slices of `slots' that     *)
(* stand for the channel's two sequences change.                           *)
(***************************************************************************)
(* Slices of a sequence: two that agree in every element are equal.         *)
LEMMA SameSlice ==
  ASSUME NEW S, NEW s \in Seq(S), NEW t \in Seq(S), NEW m \in Int, NEW n \in Int,
         1 <= m, n <= Len(s), n <= Len(t),
         \A i \in m..n : s[i] = t[i]
  PROVE  SubSeq(s, m, n) = SubSeq(t, m, n)
<1>1. \A i \in m..n : s[i] \in S /\ t[i] \in S
  BY ElementOfSeq, LenProperties
<1>2. /\ SubSeq(s, m, n) \in Seq(S)
      /\ Len(SubSeq(s, m, n)) = IF m <= n THEN n - m + 1 ELSE 0
      /\ \A i \in 1..n - m + 1 : SubSeq(s, m, n)[i] = s[m + i - 1]
  BY <1>1, SubSeqProperties
<1>3. /\ SubSeq(t, m, n) \in Seq(S)
      /\ Len(SubSeq(t, m, n)) = IF m <= n THEN n - m + 1 ELSE 0
      /\ \A i \in 1..n - m + 1 : SubSeq(t, m, n)[i] = t[m + i - 1]
  BY <1>1, SubSeqProperties
<1>4. \A i \in 1..Len(SubSeq(s, m, n)) : SubSeq(s, m, n)[i] = SubSeq(t, m, n)[i]
  <2>1. TAKE i \in 1..Len(SubSeq(s, m, n))
  <2>2. m + i - 1 \in m..n /\ i \in 1..n - m + 1
    BY <1>2
  <2>3. QED
    BY <2>2, <1>2, <1>3
<1>5. QED
  BY <1>2, <1>3, <1>4, SeqEqual

(* Appending to a sequence appends to each of its final slices.             *)
LEMMA SliceOfAppend ==
  ASSUME NEW S, NEW s \in Seq(S), NEW e \in S, NEW m \in 1..Len(s) + 1
  PROVE  SubSeq(Append(s, e), m, Len(s) + 1) = Append(SubSeq(s, m, Len(s)), e)
<1>1. /\ Append(s, e) \in Seq(S)
      /\ Len(Append(s, e)) = Len(s) + 1
  BY AppendProperties
<1>2. SubSeq(Append(s, e), m, Len(s) + 1)
        = SubSeq(Append(s, e), m, Len(s)) \o <<Append(s, e)[Len(s) + 1]>>
  BY <1>1, SubSeqRecursiveSecond
<1>3. SubSeq(Append(s, e), m, Len(s)) = SubSeq(s, m, Len(s))
  BY <1>1, SameSlice, AppendProperties
<1>4. SubSeq(s, m, Len(s)) \in Seq(S)
  BY SubSeqProperties
<1>5. Append(SubSeq(s, m, Len(s)), e) = SubSeq(s, m, Len(s)) \o <<e>>
  BY <1>4, AppendIsConcat
<1>6. Append(s, e)[Len(s) + 1] = e
  BY AppendProperties
<1>7. QED
  BY <1>2, <1>3, <1>5, <1>6

LEMMA InitChannel == Init => ChannelView!Init
<1> SUFFICES ASSUME Init PROVE ChannelView!Init
  OBVIOUS
<1>1. Flushed = 1 /\ Len(slots) = 0
  BY EmptySeq DEF Init, Flushed
<1>2. SubSeq(slots, 1, 0) = <<>>
  BY SubSeqEmpty
<1>3. contention # NULL
  BY SpscAssumption DEF SpscAssumption, Init
<1>4. QED
  BY <1>1, <1>2, <1>3 DEF Init, ChannelView!Init

LEMMA WriteStages ==
  ASSUME IInv, NEW value \in Items, NEW incomplete \in BOOLEAN, Write(value, incomplete)
  PROVE  ChannelView!Stage(value, incomplete)
<1> USE SpscAssumption DEF SpscAssumption, IInv, TypeOK, PositionsOrdered, StorePending,
        Back, Write, writerVars, readerVars
<1>1. Flushed' = Flushed /\ Flushed \in 1..Len(slots)+1
  BY DEF Flushed
<1>2. SubSeq(slots', Flushed, Len(slots')) = Append(SubSeq(slots, Flushed, Len(slots)), value)
  <2>1. slots' = Append(slots, value) /\ Len(slots') = Len(slots) + 1
    BY AppendProperties
  <2>2. SubSeq(Append(slots, value), Flushed, Len(slots) + 1)
          = Append(SubSeq(slots, Flushed, Len(slots)), value)
    BY <1>1, SliceOfAppend
  <2>3. QED
    BY <2>1, <2>2
<1>3. SubSeq(slots', begin, Flushed - 1) = SubSeq(slots, begin, Flushed - 1)
  BY <1>1, SameSlice, AppendProperties
<1>4. Len(SubSeq(slots, Flushed, Len(slots))) = Len(slots) - Flushed + 1
  BY <1>1
<1>5. QED
  BY <1>1, <1>2, <1>3, <1>4 DEF ChannelView!Stage

LEMMA UnwriteUnstages ==
  ASSUME IInv, Unwrite
  PROVE  ChannelView!Unstage
<1> USE SpscAssumption DEF SpscAssumption, IInv, TypeOK, PositionsOrdered, StorePending,
        Back, Unwrite, writerVars, readerVars
<1>1. Flushed' = Flushed /\ Flushed \in 1..Len(slots)
  BY DEF Flushed
<1>4. Len(SubSeq(slots, Flushed, Len(slots))) = Len(slots) - Flushed + 1
  BY <1>1
<1>2. SubSeq(slots', Flushed, Len(slots'))
        = SubSeq(SubSeq(slots, Flushed, Len(slots)), 1, Len(slots) - Flushed)
  <2>1. SubSeq(slots', Flushed, Len(slots')) = SubSeq(slots, Flushed, Len(slots) - 1)
    BY <1>1, SameSlice, SubSeqProperties
  <2>2. SubSeq(SubSeq(slots, Flushed, Len(slots)), 1, Len(slots) - Flushed)
          = SubSeq(slots, Flushed, Len(slots) - 1)
    <3>1. CASE Flushed = Len(slots)
      BY <3>1, <1>1, SubSeqEmpty
    <3>2. CASE Flushed < Len(slots)
      BY <3>2, <1>1, SubSeqOfSubSeq
    <3>3. QED
      BY <3>1, <3>2, <1>1
  <2>3. QED
    BY <2>1, <2>2
<1>3. SubSeq(slots', begin, Flushed - 1) = SubSeq(slots, begin, Flushed - 1)
  BY <1>1, SameSlice, SubSeqProperties
<1>5. QED
  BY <1>1, <1>2, <1>3, <1>4 DEF ChannelView!Unstage

(* What a successful CAS and the store have in common: `Flushed' moves up   *)
(* to f_item and the reader is awake.                                       *)
LEMMA FlushCommits ==
  ASSUME IInv, Flushed < f_item,
         Flushed' = f_item, contention' = f_item,
         UNCHANGED <<slots, f_item, begin, got>>
  PROVE  ChannelView!Commit
<1> USE SpscAssumption DEF SpscAssumption, IInv, TypeOK, PositionsOrdered, Back
<1>1. /\ Flushed \in 1..Len(slots) /\ f_item \in Flushed + 1..Len(slots) + 1
      /\ begin \in 1..Flushed
  BY DEF Flushed, StorePending
<1>2. SubSeq(SubSeq(slots, Flushed, Len(slots)), 1, f_item - Flushed)
        = SubSeq(slots, Flushed, f_item - 1)
  BY <1>1, SubSeqOfSubSeq
<1>3. SubSeq(slots, begin, Flushed - 1) \o SubSeq(slots, Flushed, f_item - 1)
        = SubSeq(slots, begin, f_item - 1)
  <2>1. /\ begin \in 1..Len(slots) + 1
        /\ Flushed - 1 \in begin - 1..Len(slots)
        /\ f_item - 1 \in Flushed - 1..Len(slots)
    BY <1>1
  <2>2. SubSeq(slots, begin, Flushed - 1) \o SubSeq(slots, Flushed - 1 + 1, f_item - 1)
          = SubSeq(slots, begin, f_item - 1)
    BY <2>1, ConcatAdjacentSubSeq
  <2>3. QED
    BY <2>2, <1>1
<1>4. Len(SubSeq(slots, Flushed, Len(slots))) = Len(slots) - Flushed + 1
  BY <1>1
<1>5. SubSeq(SubSeq(slots, Flushed, Len(slots)), f_item - Flushed + 1, Len(slots) - Flushed + 1)
        = SubSeq(slots, f_item, Len(slots))
  <2>1. CASE f_item = Len(slots) + 1
    BY <2>1, <1>1, SubSeqEmpty
  <2>2. CASE f_item # Len(slots) + 1
    BY <2>2, <1>1, SubSeqOfSubSeq
  <2>3. QED
    BY <2>1, <2>2
<1>6. contention' # NULL
  BY <1>1
<1>7. QED
  BY <1>1, <1>2, <1>3, <1>4, <1>5, <1>6 DEF ChannelView!Commit

LEMMA FlushCasCommits ==
  ASSUME IInv, FlushCas
  PROVE  ChannelView!Commit \/ UNCHANGED ChannelView!vars
<1> USE SpscAssumption DEF SpscAssumption, IInv, TypeOK, WordIsTail, StorePending, FlushCas,
        readerVars, Flushed, Back
<1>1. CASE contention = w_item
  <2>1. Flushed < f_item
    BY <1>1 DEF PositionsOrdered
  <2>2. Flushed' = f_item
    BY <1>1
  <2>3. QED
    BY <1>1, <2>1, <2>2, FlushCommits
<1>2. CASE contention # w_item
  <2>1. Flushed = begin /\ Flushed' = begin
    BY <1>2 DEF SleeperConsumedAll
  <2>2. QED
    BY <1>2, <2>1 DEF ChannelView!vars
<1>3. QED
  BY <1>1, <1>2

LEMMA FlushStoreCommits ==
  ASSUME IInv, FlushStore
  PROVE  ChannelView!Commit
<1> USE SpscAssumption DEF SpscAssumption, IInv, TypeOK, FlushStore, readerVars, Flushed, Back
<1>1. Flushed < f_item
  BY DEF StoreHasWork
<1>2. Flushed' = f_item
  OBVIOUS
<1>3. QED
  BY <1>1, <1>2, FlushCommits

LEMMA PrefetchFallsAsleep ==
  ASSUME IInv, Prefetch
  PROVE  ChannelView!FallAsleep \/ UNCHANGED ChannelView!vars
<1> USE SpscAssumption DEF SpscAssumption, IInv, TypeOK, WordIsTail, StorePending, Prefetch,
        writerVars, Flushed, Back
<1>1. CASE contention = begin
  <2>1. Flushed = begin /\ Flushed' = begin /\ ~storing
    BY <1>1 DEF StoreHasWork
  <2>2. SubSeq(slots, begin, Flushed - 1) = <<>>
    BY <2>1, SubSeqEmpty
  <2>3. QED
    BY <1>1, <2>1, <2>2 DEF ChannelView!FallAsleep
<1>2. CASE contention # begin
  BY <1>2 DEF ChannelView!vars
<1>3. QED
  BY <1>1, <1>2

LEMMA PopTakes ==
  ASSUME IInv, Pop
  PROVE  ChannelView!Take
<1> USE SpscAssumption DEF SpscAssumption, IInv, TypeOK, WordIsTail, StorePending, Pop,
        PositionsOrdered, writerVars, Back
<1>1. begin < Flushed
  BY DEF Prefetched
<1>2. ~storing /\ Flushed' = Flushed /\ Flushed \in 1..Len(slots) + 1
  BY <1>1 DEF Flushed
<1>3. contention # NULL
  BY <1>1 DEF SleeperConsumedAll
<1>4. begin \in 1..Len(slots) /\ Flushed - 1 \in begin..Len(slots)
  BY <1>1, <1>2
<1>5. /\ Head(SubSeq(slots, begin, Flushed - 1)) = slots[begin]
      /\ Tail(SubSeq(slots, begin, Flushed - 1)) = SubSeq(slots, begin + 1, Flushed - 1)
  BY <1>4, HeadTailOfSubSeq
<1>6. SubSeq(slots, begin, Flushed - 1) # <<>>
  <2>1. Len(SubSeq(slots, begin, Flushed - 1)) = Flushed - begin
    BY <1>2, <1>4
  <2>2. QED
    BY <2>1, <1>1, <1>2, EmptySeq
<1>7. QED
  BY <1>2, <1>3, <1>5, <1>6 DEF ChannelView!Take

LEMMA NextRefines == IInv /\ [Next]_vars => [ChannelView!Next]_(ChannelView!vars)
<1> SUFFICES ASSUME IInv, [Next]_vars PROVE [ChannelView!Next]_(ChannelView!vars)
  OBVIOUS
<1>1. ASSUME NEW value \in Items, NEW incomplete \in BOOLEAN, Write(value, incomplete)
      PROVE  ChannelView!Next
  BY <1>1, WriteStages DEF ChannelView!Next
<1>2. CASE Unwrite
  BY <1>2, UnwriteUnstages DEF ChannelView!Next
<1>3. CASE FlushCas
  BY <1>3, FlushCasCommits DEF ChannelView!Next
<1>4. CASE FlushStore
  BY <1>4, FlushStoreCommits DEF ChannelView!Next
<1>5. CASE Prefetch
  BY <1>5, PrefetchFallsAsleep DEF ChannelView!Next
<1>6. CASE Pop
  BY <1>6, PopTakes DEF ChannelView!Next
<1>7. CASE UNCHANGED vars
  BY <1>7 DEF vars, ChannelView!vars, Flushed
<1>8. QED
  BY <1>1, <1>2, <1>3, <1>4, <1>5, <1>6, <1>7 DEF Next

(* The queue is the channel, for every set of items and every number of     *)
(* them: order, no loss, no duplicate, whole messages and the wake-up of    *)
(* the reader (what spsc_queue.hpp:176-181 and :233-236 promise).           *)
THEOREM QueueImplementsChannel == Spec => ImplementsChannel
<1>1. Init => ChannelView!Init
  BY InitChannel
<1>2. QED
  BY <1>1, SpecIInv, NextRefines, PTL DEF Spec, ImplementsChannel, ChannelView!Spec
=============================================================================
