--------------------------- MODULE DecoderProofs ---------------------------
(***************************************************************************)
(* Proofs about Decoder, for all sizes of head, tail, body and chunk, and  *)
(* for every stream.                                                       *)
(*                                                                         *)
(* The decoder stays within its chunk and within the frame it collects     *)
(* (TypeOK is inductive).  Every frame is handled: Starts is defined by    *)
(* recursion over the stream; that it exists and increases is shown by     *)
(* induction over the natural numbers (SumsExist, StartsAreOrdered), and   *)
(* IInv says which frame the decoder is at and that it has handled those   *)
(* before it.                                                              *)
(***************************************************************************)
EXTENDS Decoder, SequenceTheorems, WellFoundedInduction, TLAPS

LEMMA InitTyped == Init => TypeOK
<1> SUFFICES ASSUME Init PROVE TypeOK
  OBVIOUS
<1> USE DecoderAssumption DEF DecoderAssumption, Init
<1>1. handled \in Seq(Nat)
  BY EmptySeq
<1> QED BY <1>1 DEF TypeOK

\* What a header in the stream says is a length.
LEMMA BodyTyped ==
  ASSUME stream \in Streams, NEW k \in 1..Len(stream)
  PROVE  stream[k].body \in 0..MaxBody
<1>1. PICK n \in 0..MaxFrames : stream \in [1..n -> Frames]
  BY DEF Streams
<1>2. n \in Nat /\ stream \in Seq(Frames)
  BY <1>1, SeqDef, DecoderAssumption DEF DecoderAssumption
<1>3. stream[k] \in Frames
  BY <1>2, ElementOfSeq
<1> QED BY <1>3 DEF Frames

\* A step of consume takes at most what the chunk has and the part lacks.
LEMMA ConsumeBounded ==
  ASSUME TypeOK, begin < end, NEW lack \in Nat, Consume(lack)
  PROVE  /\ begin' \in Nat /\ begin <= begin' /\ begin' <= end
         /\ buffered' \in Nat /\ buffered' = buffered + (begin' - begin)
         /\ fresh + buffered' <= begin'
         /\ buffered <= buffered'
         /\ Has(lack) => buffered' = buffered + lack
         /\ ~Has(lack) => buffered' < buffered + lack
<1>1. begin \in Nat /\ end \in Nat /\ begin <= end /\ fresh \in Nat /\ fresh + buffered <= begin
  BY DEF TypeOK
<1>2. buffered \in Nat
  BY DecoderAssumption DEF TypeOK, DecoderAssumption
<1>3. PICK count \in Nat :
        /\ begin' = begin + count /\ buffered' = buffered + count
        /\ count <= end - begin
        /\ Has(lack) => count = lack
        /\ ~Has(lack) => count < lack
  BY <1>1 DEF Consume, Has
<1> QED BY <1>1, <1>2, <1>3

LEMMA NextTyped == TypeOK /\ [Next]_vars => TypeOK'
<1> SUFFICES ASSUME TypeOK, [Next]_vars PROVE TypeOK'
  OBVIOUS
<1>a. /\ HeadSize \in Nat /\ HeadSize > 0
      /\ TailSize \in Nat /\ TailSize > 0
      /\ MaxBody \in Nat
  BY DecoderAssumption DEF DecoderAssumption
<1> USE <1>a
<1>t. /\ begin \in Nat /\ end \in Nat /\ begin <= end
      /\ bodySize \in Nat /\ fresh \in Nat /\ fresh + buffered <= begin
  BY DEF TypeOK
<1>b. buffered \in Nat
  BY DEF TypeOK
<1>1. ASSUME NEW count \in 1..MaxChunk, Decode(count) PROVE TypeOK'
  BY <1>1 DEF Decode, TypeOK, stateVars
<1>2. CASE ConsumeSome
  <2>1. begin < end /\ UNCHANGED <<stream, end, state, bodySize, fresh, handled>>
    BY <1>2 DEF ConsumeSome
  <2>2. CASE state = "HEAD"
    <3>1. HeadLack \in Nat /\ Consume(HeadLack) /\ ~Has(HeadLack)
      BY <1>2, <2>2 DEF ConsumeSome, TypeOK, HeadLack
    <3>2. begin' \in Nat /\ begin <= begin' /\ begin' <= end
          /\ buffered' \in Nat /\ buffered <= buffered' /\ buffered' < buffered + (HeadSize - buffered)
          /\ fresh + buffered' <= begin'
      BY <2>1, <3>1, ConsumeBounded DEF HeadLack
    <3>3. buffered' \in 0..HeadSize - 1
      <4>1. buffered \in 0..HeadSize - 1
        BY <2>2 DEF TypeOK
      <4> QED BY <1>t, <1>b, <4>1, <3>2
    <3>4. fresh' \in Nat /\ fresh' + buffered' <= begin'
      BY <1>t, <2>1, <3>2
    <3> QED BY <2>1, <2>2, <3>2, <3>3, <3>4 DEF TypeOK
  <2>3. CASE state = "BODY"
    <3>1. BodyLack \in Nat /\ Consume(BodyLack) /\ ~Has(BodyLack)
      BY <1>2, <2>3 DEF ConsumeSome, TypeOK, BodyLack
    <3>2. begin' \in Nat /\ begin <= begin' /\ begin' <= end
          /\ buffered' \in Nat /\ buffered <= buffered' /\ buffered' < buffered + (bodySize - buffered + HeadSize)
          /\ fresh + buffered' <= begin'
      BY <2>1, <3>1, ConsumeBounded DEF BodyLack
    <3>3. buffered' \in HeadSize..HeadSize + bodySize
      <4>1. buffered \in HeadSize..HeadSize + bodySize
        BY <2>3 DEF TypeOK
      <4> QED BY <1>t, <1>b, <4>1, <3>2
    <3>4. fresh' \in Nat /\ fresh' + buffered' <= begin'
      BY <1>t, <2>1, <3>2
    <3> QED BY <2>1, <2>3, <3>2, <3>3, <3>4 DEF TypeOK
  <2>4. CASE state = "TAIL"
    <3>1. TailLack \in Nat /\ Consume(TailLack) /\ ~Has(TailLack)
      BY <1>2, <2>4 DEF ConsumeSome, TypeOK, TailLack
    <3>2. begin' \in Nat /\ begin <= begin' /\ begin' <= end
          /\ buffered' \in Nat /\ buffered <= buffered' /\ buffered' < buffered + (bodySize + HeadSize + TailSize - buffered)
          /\ fresh + buffered' <= begin'
      BY <2>1, <3>1, ConsumeBounded DEF TailLack
    <3>3. buffered' \in HeadSize + bodySize..HeadSize + bodySize + TailSize - 1
      <4>1. buffered \in HeadSize + bodySize..HeadSize + bodySize + TailSize - 1
        BY <2>4 DEF TypeOK
      <4> QED BY <1>t, <1>b, <4>1, <3>2
    <3>4. fresh' \in Nat /\ fresh' + buffered' <= begin'
      BY <1>t, <2>1, <3>2
    <3> QED BY <2>1, <2>4, <3>2, <3>3, <3>4 DEF TypeOK
  <2> QED BY <2>2, <2>3, <2>4 DEF TypeOK
<1>3. CASE ConsumeHead
  <2>1. HeadLack \in Nat /\ Consume(HeadLack) /\ Has(HeadLack) /\ begin < end /\ state = "HEAD"
    BY <1>3 DEF ConsumeHead, TypeOK, HeadLack
  <2>2. begin' \in Nat /\ begin <= begin' /\ begin' <= end /\ buffered' = HeadSize
        /\ fresh + buffered' <= begin'
    BY <2>1, <1>b, ConsumeBounded DEF HeadLack
  <2>3. bodySize' \in 0..MaxBody
    BY <1>3, BodyTyped DEF ConsumeHead, TypeOK
  <2>4. state' = "BODY" /\ UNCHANGED <<stream, end, fresh, handled>>
    BY <1>3 DEF ConsumeHead
  <2>5. buffered' \in HeadSize..HeadSize + bodySize'
    <3>1. bodySize' \in Nat /\ buffered' = HeadSize
      BY <2>2, <2>3
    <3>2. \A head, body \in Nat : head \in head..head + body
      OBVIOUS
    <3> QED BY <3>1, <3>2
  <2> QED BY <2>2, <2>3, <2>4, <2>5 DEF TypeOK
<1>4. CASE ConsumeBody
  <2>1. BodyLack \in Nat /\ Consume(BodyLack) /\ Has(BodyLack) /\ begin < end /\ state = "BODY"
    BY <1>4 DEF ConsumeBody, TypeOK, BodyLack
  <2>2. begin' \in Nat /\ begin <= begin' /\ begin' <= end /\ buffered' = HeadSize + bodySize
        /\ fresh + buffered' <= begin'
    BY <2>1, <1>t, <1>b, ConsumeBounded DEF BodyLack
  <2>3. state' = "TAIL" /\ UNCHANGED <<stream, end, bodySize, fresh, handled>>
    BY <1>4 DEF ConsumeBody
  <2>4. buffered' \in HeadSize + bodySize'..HeadSize + bodySize' + TailSize - 1
    BY <1>t, <2>2, <2>3
  <2> QED BY <2>2, <2>3, <2>4 DEF TypeOK
<1>5. CASE HandleFrame
  <2>1. state = "TAIL" /\ begin' = begin + TailLack /\ end - begin >= TailLack
    BY <1>5 DEF HandleFrame, Has
  <2>2. TailLack \in Nat
    BY <2>1 DEF TypeOK, TailLack
  <2>3. begin' \in Nat /\ begin <= begin' /\ begin' <= end
    BY <2>1, <2>2 DEF TypeOK
  <2>4. FrameBegin \in Nat
    BY <1>b DEF TypeOK, FrameBegin
  <2>5. handled' \in Seq(Nat)
    BY <1>5, <2>4 DEF HandleFrame, TypeOK
  <2> QED BY <1>5, <2>3, <2>5 DEF HandleFrame, Reset, TypeOK
<1>6. CASE RejectFrame
  <2>1. handled' \in Seq(Nat)
    BY <1>6, EmptySeq DEF RejectFrame
  <2> QED BY <1>6, <2>1 DEF RejectFrame, TypeOK, Reset
<1>7. CASE Reconnect
  <2>1. handled' \in Seq(Nat)
    BY <1>7, EmptySeq DEF Reconnect
  <2> QED BY <1>7, <2>1 DEF Reconnect, TypeOK, Reset
<1>8. CASE UNCHANGED vars
  BY <1>8 DEF vars, stateVars, TypeOK
<1> QED BY <1>1, <1>2, <1>3, <1>4, <1>5, <1>6, <1>7, <1>8 DEF Next, ConsumeStep

(* At every step the bytes consumed lie within the chunk and the bytes      *)
(* collected within the frame (szBinary_decoder.hpp:43-123).                *)
THEOREM TypeCorrect == Spec => []TypeOK
<1> QED BY InitTyped, NextTyped, PTL DEF Spec
-----------------------------------------------------------------------------
(* Where the frames begin, which is defined by recursion over the stream.   *)

\* Induction over the naturals, for a set instead of a predicate.
LEMMA NatSetInduction ==
  ASSUME NEW S, 0 \in S, \A n \in Nat : n \in S => n + 1 \in S
  PROVE  Nat \subseteq S
<1> SUFFICES ASSUME Nat \ S # {} PROVE FALSE
  OBVIOUS
<1>1. OpToRel(<, Nat) = {ss \in Nat \X Nat : ss[1] < ss[2]}
  BY DEF OpToRel
<1>2. PICK n \in Nat \ S : \A m \in Nat \ S : ~(<<m, n>> \in OpToRel(<, Nat))
  BY NatLessThanWellFounded, WFMin
<1>3. \A m \in Nat \ S : ~(m < n)
  BY <1>1, <1>2
<1>4. n \in Nat /\ n # 0
  OBVIOUS
<1>5. n - 1 \in Nat /\ n - 1 < n /\ n - 1 + 1 = n
  BY <1>4
<1>6. n - 1 \in S
  BY <1>3, <1>5
<1>7. QED
  BY <1>5, <1>6

\* One recursion step of Starts, over the frames of s up to the nth.
Sums(s, n, g) ==
  [k \in 1..n |-> IF k = 1 THEN 0 ELSE g[k - 1] + HeadSize + s[k - 1].body + TailSize]

LEMMA SumsExist == \A s : \A n \in Nat : \E g : g = Sums(s, n, g)
<1> SUFFICES ASSUME NEW s PROVE \A n \in Nat : \E g : g = Sums(s, n, g)
  OBVIOUS
<1> DEFINE S == {n \in Nat : \E g : g = Sums(s, n, g)}
<1>1. 0 \in S
  <2> DEFINE g == [k \in 1..0 |-> 0]
  <2>1. g = Sums(s, 0, g)
    BY DEF Sums
  <2>2. QED
    BY <2>1
<1>2. ASSUME NEW n \in Nat, n \in S PROVE n + 1 \in S
  <2>1. PICK g : g = Sums(s, n, g)
    BY <1>2
  <2> DEFINE h == Sums(s, n + 1, g)
  <2>2. \A k \in 1..n : h[k] = g[k]
    <3>1. \A k \in 1..n : g[k] = IF k = 1 THEN 0 ELSE g[k - 1] + HeadSize + s[k - 1].body + TailSize
      BY <2>1 DEF Sums
    <3>2. QED
      BY <3>1 DEF Sums
  <2>3. h = Sums(s, n + 1, h)
    <3>1. \A k \in 1..n + 1 : k # 1 => k - 1 \in 1..n
      OBVIOUS
    <3>2. \A k \in 1..n + 1 : k # 1 => h[k - 1] = g[k - 1]
      BY <3>1, <2>2
    <3> HIDE DEF h
    <3>3. h = [k \in 1..n + 1 |-> IF k = 1 THEN 0 ELSE g[k - 1] + HeadSize + s[k - 1].body + TailSize]
      BY DEF h, Sums
    <3>4. QED
      BY <3>2, <3>3 DEF Sums
  <2>4. QED
    BY <2>3
<1> HIDE DEF S
<1>3. Nat \subseteq S
  BY <1>1, <1>2, NatSetInduction
<1>4. QED
  BY <1>3 DEF S

\* Frame k begins where frame k - 1 ends, and the frames are in order.
StartsInOrder ==
  /\ Len(stream) \in Nat
  /\ \A k \in 1..Len(stream) : stream[k].body \in Nat
  /\ Starts[1] = 0
  /\ \A k \in 1..Len(stream) : Starts[k + 1] = Starts[k] + HeadSize + stream[k].body + TailSize
  /\ \A k \in 1..Len(stream) + 1 : Starts[k] \in Nat
  /\ \A j, k \in 1..Len(stream) + 1 : j < k => Starts[j] < Starts[k]

LEMMA StartsAreOrdered == TypeOK => StartsInOrder
<1> SUFFICES ASSUME TypeOK PROVE StartsInOrder
  OBVIOUS
<1> DEFINE L == Len(stream)
<1>0. stream \in Streams
  BY DEF TypeOK
<1>1. L \in Nat
  <2>1. PICK n \in 0..MaxFrames : stream \in [1..n -> Frames]
    BY <1>0 DEF Streams
  <2>2. n \in Nat /\ stream \in Seq(Frames)
    BY <2>1, SeqDef, DecoderAssumption DEF DecoderAssumption
  <2>3. QED
    BY <2>2, LenProperties
<1>2. \A k \in 1..L : stream[k].body \in Nat
  BY <1>0, BodyTyped, DecoderAssumption DEF DecoderAssumption
<1>3. HeadSize \in Nat /\ HeadSize > 0 /\ TailSize \in Nat
  BY DecoderAssumption DEF DecoderAssumption
<1>4. Starts = Sums(stream, L + 1, Starts)
  <2>1. Starts = CHOOSE g : g = Sums(stream, L + 1, g)
    BY DEF Starts, Sums
  <2>2. \E g : g = Sums(stream, L + 1, g)
    BY <1>1, SumsExist
  <2>3. QED
    BY <2>1, <2>2
<1>5. \A k \in 1..L + 1 :
        Starts[k] = IF k = 1 THEN 0 ELSE Starts[k - 1] + HeadSize + stream[k - 1].body + TailSize
  BY <1>4 DEF Sums
<1>6. Starts[1] = 0
  <2>1. 1 \in 1..L + 1
    BY <1>1
  <2>2. QED
    BY <2>1, <1>5
<1>7. \A k \in 1..L : Starts[k + 1] = Starts[k] + HeadSize + stream[k].body + TailSize
  <2> SUFFICES ASSUME NEW k \in 1..L
               PROVE  Starts[k + 1] = Starts[k] + HeadSize + stream[k].body + TailSize
    OBVIOUS
  <2>1. k + 1 \in 1..L + 1 /\ k + 1 # 1 /\ k + 1 - 1 = k
    BY <1>1
  <2>2. Starts[k + 1] = Starts[k + 1 - 1] + HeadSize + stream[k + 1 - 1].body + TailSize
    BY <1>5, <2>1
  <2>3. QED
    BY <2>1, <2>2
<1>8. \A k \in 1..L + 1 : /\ Starts[k] \in Nat
                          /\ \A j \in 1..L + 1 : j < k => Starts[j] < Starts[k]
  <2> DEFINE Good(n) ==
               /\ Starts[n + 1] \in Nat
               /\ \A j \in 1..L + 1 : j < n + 1 => Starts[j] \in Nat /\ Starts[j] < Starts[n + 1]
             S == {n \in Nat : n <= L => Good(n)}
  <2>1. 0 \in S
    BY <1>1, <1>6
  <2>2. ASSUME NEW n \in Nat, n \in S PROVE n + 1 \in S
    <3> SUFFICES ASSUME n + 1 <= L PROVE Good(n + 1)
      OBVIOUS
    <3>1. Good(n)
      BY <1>1, <2>2
    <3>2. n + 1 \in 1..L
      BY <1>1
    <3>3. Starts[n + 1 + 1] = Starts[n + 1] + HeadSize + stream[n + 1].body + TailSize
      BY <3>2, <1>7
    <3>4. Starts[n + 1 + 1] \in Nat /\ Starts[n + 1] < Starts[n + 1 + 1]
      BY <3>1, <3>2, <3>3, <1>2, <1>3
    <3>5. ASSUME NEW j \in 1..L + 1, j < n + 1 + 1
          PROVE  Starts[j] \in Nat /\ Starts[j] < Starts[n + 1 + 1]
      <4>1. j = n + 1 \/ j < n + 1
        BY <3>5, <1>1
      <4>2. CASE j = n + 1
        BY <4>2, <3>1, <3>4
      <4>3. CASE j < n + 1
        <5>1. Starts[j] \in Nat /\ Starts[j] < Starts[n + 1]
          BY <4>3, <3>1
        <5>2. QED
          BY <5>1, <3>1, <3>4
      <4>4. QED
        BY <4>1, <4>2, <4>3
    <3>6. QED
      BY <3>4, <3>5
  <2> HIDE DEF S
  <2>3. Nat \subseteq S
    BY <2>1, <2>2, NatSetInduction
  <2>4. \A k \in 1..L + 1 : k - 1 \in Nat /\ k - 1 <= L /\ k - 1 + 1 = k
    BY <1>1
  <2>5. QED
    BY <2>3, <2>4 DEF S
<1>9. QED
  BY <1>1, <1>2, <1>6, <1>7, <1>8 DEF StartsInOrder

LEMMA StartsAreOrderedNext == TypeOK' => StartsInOrder'
  BY StartsAreOrdered, PTL

-----------------------------------------------------------------------------
(* What was handled.                                                        *)

\* The frames between two positions are those from where f begins up to the
\* one, k, in which the second position lies.
LEMMA FramesBetween ==
  ASSUME StartsInOrder, begin \in Nat, NEW f \in 1..Len(stream) + 1, NEW k \in f..Len(stream) + 1,
         Starts[f] = fresh, Starts[k] <= begin, k <= Len(stream) => begin < Starts[k + 1]
  PROVE  FramesWithin(fresh, begin) = [i \in 1..k - f |-> Starts[f + i - 1]]
<1> DEFINE indices == { j \in 1..Len(stream) : Starts[j] >= fresh /\ Starts[j + 1] <= begin }
           first == CHOOSE a \in indices : \A j \in indices : a <= j
           count == IF indices = {} THEN 0 ELSE CHOOSE n \in 1..Len(stream) :
                      indices = first..first + n - 1
<1>1. /\ Len(stream) \in Nat /\ f \in Nat /\ k \in Nat /\ f <= k /\ k <= Len(stream) + 1 /\ 1 <= f
      /\ \A j \in 1..Len(stream) + 1 : Starts[j] \in Nat
      /\ \A j, m \in 1..Len(stream) + 1 : j < m => Starts[j] < Starts[m]
  BY DEF StartsInOrder
<1>2. indices = f..k - 1
  <2>1. ASSUME NEW j \in 1..Len(stream), Starts[j] >= fresh, Starts[j + 1] <= begin PROVE j \in f..k - 1
    <3>1. ~(j < f)
      BY <2>1, <1>1
    <3>2. ~(k <= j)
      <4>1. SUFFICES ASSUME k <= j PROVE FALSE
        OBVIOUS
      <4>2. /\ k <= Len(stream) /\ k + 1 \in 1..Len(stream) + 1 /\ j + 1 \in 1..Len(stream) + 1
            /\ k + 1 = j + 1 \/ k + 1 < j + 1
        BY <4>1, <1>1
      <4>3. begin < Starts[k + 1] /\ Starts[k + 1] <= Starts[j + 1] /\ Starts[k + 1] \in Nat /\ Starts[j + 1] \in Nat
        BY <4>2, <1>1
      <4>4. QED
        BY <4>3, <2>1
    <3>3. QED
      BY <3>1, <3>2, <1>1
  <2>2. ASSUME NEW j \in f..k - 1
        PROVE  j \in 1..Len(stream) /\ Starts[j] >= fresh /\ Starts[j + 1] <= begin
    <3>1. j \in 1..Len(stream) /\ j + 1 \in 1..Len(stream) + 1 /\ (j = f \/ f < j) /\ (j + 1 = k \/ j + 1 < k)
      BY <1>1
    <3>2. Starts[j] >= fresh
      BY <3>1, <1>1
    <3>3. Starts[j + 1] <= Starts[k] /\ Starts[k] \in Nat /\ Starts[j + 1] \in Nat
      <4>1. k \in 1..Len(stream) + 1
        BY <1>1
      <4>2. Starts[k] \in Nat /\ Starts[j + 1] \in Nat
        BY <4>1, <3>1, <1>1
      <4>3. CASE j + 1 = k
        BY <4>2, <4>3
      <4>4. CASE j + 1 < k
        <5>1. Starts[j + 1] < Starts[k]
          BY <4>1, <4>4, <3>1, <1>1
        <5>2. QED
          BY <5>1, <4>2
      <4>5. QED
        BY <4>2, <4>3, <4>4, <3>1
    <3>4. QED
      BY <3>1, <3>2, <3>3
  <2>3. QED
    BY <2>1, <2>2
<1>3. FramesWithin(fresh, begin) = [i \in 1..count |-> Starts[first + i - 1]]
  BY DEF FramesWithin
<1> HIDE DEF indices, first, count
<1>4. CASE k = f
  <2>1. indices = {}
    BY <1>1, <1>2, <1>4
  <2>2. count = 0 /\ k - f = 0
    BY <2>1, <1>1, <1>4 DEF count
  <2>3. \A i \in 1..0 : Starts[first + i - 1] = Starts[f + i - 1]
    OBVIOUS
  <2>4. QED
    BY <2>2, <2>3, <1>3
<1>5. CASE k # f
  <2>1. f \in indices /\ \A j \in indices : f <= j
    BY <1>1, <1>2, <1>5
  <2>2. first \in indices /\ \A j \in indices : first <= j
    BY <2>1 DEF first
  <2>3. first = f
    <3>1. first <= f /\ f <= first
      BY <2>1, <2>2
    <3>2. first \in f..k - 1
      BY <2>2, <1>2
    <3>3. first \in Int /\ f \in Int
      BY <3>2, <1>1
    <3>4. QED
      BY <3>1, <3>3
  <2>4. k - f \in 1..Len(stream) /\ indices = first..first + (k - f) - 1
    BY <2>3, <1>1, <1>2, <1>5
  <2>5. \A n \in 1..Len(stream) : indices = first..first + n - 1 => n = k - f
    <3>1. SUFFICES ASSUME NEW n \in 1..Len(stream), f..k - 1 = f..f + n - 1 PROVE n = k - f
      BY <2>3, <1>2
    <3>2. f + n - 1 \in f..k - 1 /\ k - 1 \in f..f + n - 1
      BY <3>1, <1>1, <1>5
    <3>3. QED
      BY <3>2, <1>1
  <2>6. count = k - f
    BY <2>1, <2>4, <2>5 DEF count
  <2>7. QED
    BY <2>3, <2>6, <1>3
<1>6. QED
  BY <1>4, <1>5

\* What TypeOK says of the numbers.
LEMMA Numbers ==
  ASSUME TypeOK
  PROVE  /\ HeadSize \in Nat /\ HeadSize > 0 /\ TailSize \in Nat /\ TailSize > 0
         /\ begin \in Nat /\ end \in Nat /\ begin <= end /\ fresh \in Nat
         /\ buffered \in Nat /\ bodySize \in Nat
         /\ state = "HEAD" => buffered < HeadSize
         /\ state # "HEAD" => buffered < HeadSize + bodySize + TailSize
<1>1. HeadSize \in Nat /\ HeadSize > 0 /\ TailSize \in Nat /\ TailSize > 0 /\ MaxBody \in Nat
  BY DecoderAssumption DEF DecoderAssumption
<1>2. begin \in Nat /\ end \in Nat /\ begin <= end /\ fresh \in Nat /\ bodySize \in Nat
  BY <1>1 DEF TypeOK
<1>3. buffered \in Nat /\ (state = "HEAD" => buffered < HeadSize)
  BY <1>1, <1>2 DEF TypeOK
<1>4. state # "HEAD" => buffered < HeadSize + bodySize + TailSize
  BY <1>1, <1>2 DEF TypeOK
<1>5. QED
  BY <1>1, <1>2, <1>3, <1>4

\* The decoder is at frame k, having handled those from f up to it.
InFrame(f, k) ==
  /\ f <= k
  /\ Starts[k] = FrameBegin
  /\ handled = [i \in 1..k - f |-> Starts[f + i - 1]]
  /\ state # "HEAD" => k <= Len(stream) /\ bodySize = stream[k].body

IInv ==
  /\ TypeOK
  /\ end <= StreamEnd
  /\ \A f \in 1..Len(stream) + 1 : Starts[f] = fresh => \E k \in 1..Len(stream) + 1 : InFrame(f, k)

LEMMA IInvHandled == IInv => FramesAreHandled
<1> SUFFICES ASSUME IInv, NEW f \in 1..Len(stream) + 1, Starts[f] = fresh
             PROVE  handled = FramesWithin(fresh, begin)
  BY DEF FramesAreHandled
<1>1. StartsInOrder /\ TypeOK
  BY StartsAreOrdered DEF IInv
<1>2. PICK k \in 1..Len(stream) + 1 : InFrame(f, k)
  BY DEF IInv
<1>3. Len(stream) \in Nat /\ k \in f..Len(stream) + 1
  BY <1>1, <1>2 DEF InFrame, StartsInOrder
<1>4. /\ begin \in Nat /\ buffered \in Nat /\ Starts[k] = begin - buffered /\ Starts[k] \in Nat
      /\ HeadSize \in Nat /\ TailSize \in Nat /\ HeadSize > 0 /\ TailSize > 0
  <2>1. Starts[k] = begin - buffered /\ Starts[k] \in Nat
    BY <1>1, <1>2 DEF InFrame, FrameBegin, StartsInOrder
  <2>2. QED
    BY <2>1, <1>1, Numbers
<1>5. Starts[k] <= begin
  BY <1>4
<1>6. ASSUME k <= Len(stream) PROVE begin < Starts[k + 1]
  <2>1. Starts[k + 1] = Starts[k] + HeadSize + stream[k].body + TailSize /\ stream[k].body \in Nat
    BY <1>1, <1>3, <1>6 DEF StartsInOrder
  <2>2. buffered < HeadSize + stream[k].body + TailSize
    <3>1. CASE state = "HEAD"
      <4>1. buffered < HeadSize
        BY <3>1, <1>1, Numbers
      <4>2. \A b \in Nat : buffered < HeadSize + b + TailSize
        BY <4>1, <1>4
      <4>3. QED
        BY <4>2, <2>1
    <3>2. CASE state # "HEAD"
      BY <3>2, <2>1, <1>1, <1>2, Numbers DEF InFrame
    <3>3. QED
      BY <3>1, <3>2
  <2>3. QED
    BY <2>1, <2>2, <1>4
<1>7. FramesWithin(fresh, begin) = [i \in 1..k - f |-> Starts[f + i - 1]]
  BY <1>1, <1>3, <1>4, <1>5, <1>6, FramesBetween
<1>8. QED
  BY <1>2, <1>7 DEF InFrame

\* A decoder that starts from nothing has handled nothing.
LEMMA FreshStart ==
  ASSUME StartsInOrder, NEW f \in 1..Len(stream) + 1, Starts[f] = begin, begin \in Nat,
         buffered = 0, state = "HEAD", handled = <<>>
  PROVE  InFrame(f, f)
<1>1. Starts[f] = FrameBegin
  BY DEF FrameBegin
<1>2. f - f = 0 /\ f <= f
  BY DEF StartsInOrder
<1>3. handled = [i \in 1..0 |-> Starts[f + i - 1]]
  <2>1. <<>> = [i \in 1..0 |-> Starts[f + i - 1]]
    <3>1. [i \in 1..0 |-> Starts[f + i - 1]] \in Seq({Starts[f]})
      BY SeqDef
    <3>2. QED
      BY <3>1, EmptySeq
  <2>2. QED
    BY <2>1
<1>4. QED
  BY <1>1, <1>2, <1>3 DEF InFrame

Restarted ==
  StartsInOrder /\ begin \in Nat /\ fresh = begin /\ buffered = 0 /\ state = "HEAD" /\ handled = <<>>
    => \A f \in 1..Len(stream) + 1 : Starts[f] = fresh => \E k \in 1..Len(stream) + 1 : InFrame(f, k)

LEMMA RestartedNow == Restarted
  BY FreshStart DEF Restarted

LEMMA RestartedNext == Restarted'
  BY RestartedNow, PTL

LEMMA InitHandled == Init => IInv
<1> SUFFICES ASSUME Init PROVE IInv
  OBVIOUS
<1>1. TypeOK /\ StartsInOrder
  BY InitTyped, StartsAreOrdered
<1>2. end <= StreamEnd
  <2>1. Len(stream) + 1 \in 1..Len(stream) + 1
    BY <1>1 DEF StartsInOrder
  <2>2. StreamEnd \in Nat
    BY <2>1, <1>1 DEF StartsInOrder, StreamEnd
  <2>3. QED
    BY <2>2 DEF Init
<1>3. QED
  BY <1>1, <1>2, RestartedNow DEF Init, Restarted, IInv

LEMMA NextHandled == IInv /\ [Next]_vars => IInv'
<1> SUFFICES ASSUME IInv, [Next]_vars PROVE IInv'
  OBVIOUS
<1>1. TypeOK /\ TypeOK' /\ StartsInOrder /\ StartsInOrder'
  BY NextTyped, StartsAreOrdered, StartsAreOrderedNext DEF IInv
<1>2. /\ begin \in Nat /\ end \in Nat /\ begin <= end /\ end <= StreamEnd /\ buffered \in Nat
      /\ bodySize \in Nat /\ fresh \in Nat
      /\ HeadSize \in Nat /\ HeadSize > 0 /\ TailSize \in Nat /\ TailSize > 0
      /\ Len(stream) \in Nat
  BY <1>1, Numbers DEF IInv, StartsInOrder
<1>3. stream' = stream => Starts' = Starts /\ StreamEnd' = StreamEnd
  BY DEF Starts, StreamEnd
\* At frame k the header is that of frame k, and while there are bytes there
\* is a frame.
<1>4. ASSUME NEW k \in 1..Len(stream) + 1, Starts[k] = FrameBegin, begin < end
      PROVE  k \in 1..Len(stream) /\ \A j \in 1..Len(stream) : AtFrame(j) => j = k
  <2>1. FrameBegin <= begin
    BY <1>2 DEF FrameBegin
  <2>2. k # Len(stream) + 1
    <3>1. SUFFICES ASSUME k = Len(stream) + 1 PROVE FALSE
      OBVIOUS
    <3>2. StreamEnd = FrameBegin /\ FrameBegin \in Nat
      BY <3>1, <1>1, <1>4 DEF StreamEnd, StartsInOrder
    <3>3. QED
      BY <3>2, <2>1, <1>2, <1>4
  <2>3. \A j \in 1..Len(stream) : AtFrame(j) => j = k
    <3>1. SUFFICES ASSUME NEW j \in 1..Len(stream), Starts[j] = Starts[k] PROVE j = k
      BY <1>4 DEF AtFrame
    <3>2. j \in 1..Len(stream) + 1 /\ Starts[j] \in Nat
      BY <1>1, <1>2 DEF StartsInOrder
    <3>3. ~(j < k)
      BY <3>1, <3>2, <1>1 DEF StartsInOrder
    <3>4. ~(k < j)
      BY <3>1, <3>2, <1>1 DEF StartsInOrder
    <3>5. QED
      BY <3>2, <3>3, <3>4, <1>2
  <2>4. QED
    BY <2>2, <2>3, <1>2
\* What the steps that stay within a frame have to show.
<1>5. ASSUME UNCHANGED <<stream, fresh, handled, end>>, FrameBegin' = FrameBegin,
             \A f, k \in 1..Len(stream) + 1 :
               InFrame(f, k) => (state' # "HEAD" => k <= Len(stream) /\ bodySize' = stream[k].body)
      PROVE  IInv'
  <2>1. Starts' = Starts /\ end' <= StreamEnd'
    BY <1>2, <1>3, <1>5
  <2>2. ASSUME NEW f \in 1..Len(stream) + 1, NEW k \in 1..Len(stream) + 1, InFrame(f, k)
        PROVE  InFrame(f, k)'
    BY <2>1, <2>2, <1>5 DEF InFrame
  <2>3. QED
    BY <2>1, <2>2, <1>1, <1>5 DEF IInv
<1>6. ASSUME NEW count \in 1..MaxChunk, Decode(count) PROVE IInv'
  <2>1. UNCHANGED <<stream, begin, state, buffered, bodySize, fresh, handled>> /\ end' <= StreamEnd
    BY <1>6 DEF Decode, stateVars
  <2>2. Starts' = Starts /\ StreamEnd' = StreamEnd /\ FrameBegin' = FrameBegin
    BY <2>1, <1>3 DEF FrameBegin
  <2>3. \A f, k : InFrame(f, k)' <=> InFrame(f, k)
    BY <2>1, <2>2 DEF InFrame
  <2>4. QED
    BY <2>1, <2>2, <2>3, <1>1 DEF IInv
\* consume keeps the beginning of the frame.
<1>7. ASSUME NEW lack \in Int, Consume(lack) PROVE FrameBegin' = FrameBegin
  <2>1. PICK count \in Int : begin' = begin + count /\ buffered' = buffered + count
    BY <1>2, <1>7 DEF Consume
  <2>2. QED
    BY <2>1, <1>2 DEF FrameBegin
<1>8. CASE ConsumeSome
  <2>1. FrameBegin' = FrameBegin
    <3>1. HeadLack \in Int /\ BodyLack \in Int /\ TailLack \in Int
      BY <1>2 DEF HeadLack, BodyLack, TailLack
    <3>2. state \in {"HEAD", "BODY", "TAIL"}
      BY <1>1 DEF TypeOK
    <3>3. QED
      BY <3>1, <3>2, <1>7, <1>8 DEF ConsumeSome
  <2>2. UNCHANGED <<stream, end, state, bodySize, fresh, handled>>
    BY <1>8 DEF ConsumeSome
  <2>3. QED
    BY <2>1, <2>2, <1>5 DEF InFrame
<1>9. CASE ConsumeHead
  <2>1. FrameBegin' = FrameBegin
    BY <1>2, <1>7, <1>9 DEF ConsumeHead, HeadLack
  <2>2. begin < end /\ UNCHANGED <<stream, end, fresh, handled>>
    BY <1>9 DEF ConsumeHead
  <2>3. ASSUME NEW f \in 1..Len(stream) + 1, NEW k \in 1..Len(stream) + 1, InFrame(f, k)
        PROVE  k <= Len(stream) /\ bodySize' = stream[k].body
    <3>1. Starts[k] = FrameBegin
      BY <2>3 DEF InFrame
    <3>2. k \in 1..Len(stream) /\ AtFrame(k) /\ \A j \in 1..Len(stream) : AtFrame(j) => j = k
      BY <3>1, <2>2, <1>4 DEF AtFrame
    <3>3. \E j \in 1..Len(stream) : AtFrame(j) /\ bodySize' = stream[j].body
      BY <3>2, <1>9 DEF ConsumeHead, Misaligned
    <3>4. QED
      BY <3>2, <3>3, <1>2
  <2>4. QED
    BY <2>1, <2>2, <2>3, <1>5
<1>10. CASE ConsumeBody
  <2>1. FrameBegin' = FrameBegin
    BY <1>2, <1>7, <1>10 DEF ConsumeBody, BodyLack
  <2>2. state = "BODY" /\ UNCHANGED <<stream, end, bodySize, fresh, handled>>
    BY <1>10 DEF ConsumeBody
  <2>3. QED
    BY <2>1, <2>2, <1>5 DEF InFrame
<1>11. CASE HandleFrame
  <2>1. /\ begin < end /\ state = "TAIL" /\ begin' = begin + TailLack
        /\ handled' = Append(handled, FrameBegin)
        /\ state' = "HEAD" /\ buffered' = 0 /\ UNCHANGED <<stream, end, fresh>>
    BY <1>11 DEF HandleFrame, Reset
  <2>2. Starts' = Starts /\ end' <= StreamEnd'
    BY <2>1, <1>2, <1>3
  <2>3. ASSUME NEW f \in 1..Len(stream) + 1, NEW k \in 1..Len(stream) + 1, InFrame(f, k)
        PROVE  k + 1 \in 1..Len(stream) + 1 /\ InFrame(f, k + 1)'
    <3>1. /\ f <= k /\ Starts[k] = FrameBegin /\ handled = [i \in 1..k - f |-> Starts[f + i - 1]]
          /\ k <= Len(stream) /\ bodySize = stream[k].body
      BY <2>1, <2>3 DEF InFrame
    <3>2. Starts[k + 1] = FrameBegin + HeadSize + bodySize + TailSize
      BY <3>1, <1>1 DEF StartsInOrder
    <3>3. FrameBegin' = Starts[k + 1]
      <4>1. FrameBegin' = begin + (bodySize + HeadSize + TailSize - buffered)
        BY <2>1, <1>2 DEF FrameBegin, TailLack
      <4>2. begin - buffered + HeadSize + bodySize + TailSize = begin + (bodySize + HeadSize + TailSize - buffered)
        BY <1>2
      <4>3. QED
        BY <4>1, <4>2, <3>2 DEF FrameBegin
    <3>4. handled' = [i \in 1..k + 1 - f |-> Starts[f + i - 1]]
      <4>1. k - f \in Nat /\ k + 1 - f = k - f + 1 /\ f + (k - f + 1) - 1 = k
        BY <3>1, <1>2
      <4>2. \A i \in 1..k - f : f + i - 1 \in 1..Len(stream) + 1
        BY <3>1, <1>2
      <4>3. handled \in Seq(Nat) /\ Len(handled) = k - f /\ FrameBegin \in Nat
        <5>1. \A i \in 1..k - f : Starts[f + i - 1] \in Nat
          BY <4>2, <1>1 DEF StartsInOrder
        <5>2. handled \in [1..k - f -> Nat]
          BY <5>1, <3>1
        <5>3. handled \in Seq(Nat) /\ Len(handled) = k - f
          BY <5>2, <4>1, SeqDef, LenProperties
        <5>4. FrameBegin \in Nat
          BY <3>1, <1>1 DEF StartsInOrder
        <5>5. QED
          BY <5>3, <5>4
      <4>4. /\ handled' \in Seq(Nat) /\ Len(handled') = k - f + 1
            /\ \A i \in 1..k - f : handled'[i] = Starts[f + i - 1]
            /\ handled'[k - f + 1] = Starts[k]
        BY <2>1, <3>1, <4>3, AppendProperties
      <4>5. \A i \in 1..k - f + 1 : handled'[i] = Starts[f + i - 1]
        <5>1. \A i \in 1..k - f + 1 : i \in 1..k - f \/ i = k - f + 1
          BY <4>1
        <5>2. QED
          BY <5>1, <4>1, <4>4
      <4>6. handled' = [i \in 1..k - f + 1 |-> handled'[i]]
        BY <4>1, <4>4, LenProperties
      <4>7. QED
        BY <4>1, <4>5, <4>6
    <3>5. k + 1 \in 1..Len(stream) + 1 /\ f <= k + 1
      BY <3>1, <1>2
    <3>6. QED
      BY <3>3, <3>4, <3>5, <2>1, <2>2 DEF InFrame
  <2>4. QED
    BY <2>1, <2>2, <2>3, <1>1 DEF IInv
<1>12. CASE RejectFrame
  <2>1. /\ begin' = end /\ fresh' = end /\ handled' = <<>> /\ UNCHANGED <<stream, end>>
        /\ state' = "HEAD" /\ buffered' = 0
    BY <1>12 DEF RejectFrame, Reset
  <2>2. end' <= StreamEnd'
    BY <2>1, <1>2, <1>3
  <2>3. QED
    BY <2>1, <2>2, <1>1, <1>2, RestartedNext DEF Restarted, IInv
<1>13. CASE Reconnect
  <2>1. /\ begin' = 0 /\ end' = 0 /\ fresh' = 0 /\ handled' = <<>> /\ state' = "HEAD" /\ buffered' = 0
    BY <1>13 DEF Reconnect, Reset
  <2>2. end' <= StreamEnd'
    <3>1. (Len(stream) + 1)' \in 1..Len(stream)' + 1
      BY <1>1 DEF StartsInOrder
    <3>2. StreamEnd' \in Nat
      BY <3>1, <1>1 DEF StartsInOrder, StreamEnd
    <3>3. QED
      BY <3>2, <2>1
  <2>3. QED
    BY <2>1, <2>2, <1>1, RestartedNext DEF Restarted, IInv
<1>14. CASE UNCHANGED vars
  <2>1. UNCHANGED <<stream, begin, end, state, buffered, bodySize, fresh, handled>>
    BY <1>14 DEF vars, stateVars
  <2>2. FrameBegin' = FrameBegin
    BY <2>1 DEF FrameBegin
  <2>3. QED
    BY <2>1, <2>2, <1>5 DEF InFrame
<1>15. QED
  BY <1>6, <1>8, <1>9, <1>10, <1>11, <1>12, <1>13, <1>14 DEF Next, ConsumeStep

(* However a stream is cut into chunks, and whatever its frames are, every  *)
(* frame is handled whole, in order, once, and as soon as its last byte is  *)
(* there (decode and consume, szBinary_decoder.hpp:25-104).                 *)
THEOREM EveryFrameIsHandled == Spec => []FramesAreHandled
<1>1. Spec => []IInv
  BY InitHandled, NextHandled, PTL DEF Spec
<1>2. QED
  BY <1>1, IInvHandled, PTL
=============================================================================
