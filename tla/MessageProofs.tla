--------------------------- MODULE MessageProofs ----------------------------
(***************************************************************************)
(* Whose a message is in PipePair, proved for all messages and capacities. *)
(* The lives of the two ends are those of PipePairProofs; the argument     *)
(* here is about the places of the messages: a step takes some of them     *)
(* from where they are to one other place, or deletes them, and what is    *)
(* known of a message at a place depends on nothing else.                  *)
(***************************************************************************)
EXTENDS PipePairProofs, NaturalsInduction

QueueType == [flushed : Seq(Messages \cup {NULL}), incomplete : Seq(Messages), alive : BOOLEAN]

MessageTypes ==
  /\ free_lists \in [Ends -> [Lists -> Seq(Messages)]]
  /\ idle_queue \in [Ends -> Seq(Messages)]
  /\ asking \in [Ends -> Capacities \cup {NULL}]
  /\ queue \in [Ends -> QueueType]
  /\ built \in [Ends -> SUBSET Messages]
  /\ got \in [Ends -> SUBSET Messages]
  /\ leaked \in [Ends -> SUBSET Messages]

\* What a message is, wherever it is: it has the size of its class.
RecordRight(msg) ==
  /\ msg \in MessageType
  /\ msg.asked \in Capacities
  /\ msg.index = ClassOf[msg.asked]
  /\ msg.capacity = IF msg.index = -1 THEN msg.asked ELSE 2^(kAllocateStart + msg.index + 1)

\* What is known of a message at a place of the end e.
PlaceRight(e, place, msg) ==
  /\ msg.origin = IF place \in {"idle", "free", "built"} THEN e ELSE Other(e)
  /\ place \in {"idle", "free"} => msg.index # -1
  /\ place \in {"idle", "got"} => msg.read
  /\ place = "free" => (msg.dirty => msg.read)

HeldRight ==
  /\ DOMAIN heap \subseteq Messages
  /\ \A m \in DOMAIN heap : RecordRight(heap[m])
  /\ \A m \in DOMAIN heap : \E e \in Ends, p \in Places : m \in Held(e)[p]
  /\ \A e \in Ends, p \in Places : \A m \in Held(e)[p] :
       m \in DOMAIN heap /\ PlaceRight(e, p, heap[m])
  /\ \A e, f \in Ends, p, q \in Places : \A m \in Held(e)[p] :
       m \in Held(f)[q] => e = f /\ p = q

\* The queues and lists of an end: nothing is in one of them twice, and an
\* end writes the null message once.
QueueRight(e) ==
  /\ IsInjective(Queued(e))
  /\ NULL \in Members(Queued(e)) => pipe[Other(e)].terminating \/ pipe[Other(e)].terminated

FreeRight(e) ==
  \A i \in Lists :
    /\ IsInjective(free_lists[e][i])
    /\ \A m \in Members(free_lists[e][i]) : heap[m].index = i

AskRight(e) == asking[e] # NULL => ClassOf[asking[e]] # -1

ListsRight ==
  \A e \in Ends :
    QueueRight(e) /\ IsInjective(idle_queue[e]) /\ FreeRight(e) /\ AskRight(e)

MessageInv == LifeInv /\ MessageTypes /\ HeldRight /\ ListsRight

-----------------------------------------------------------------------------
(* The members of a sequence that grows or shrinks at one of its ends, and  *)
(* that none is in it twice.                                                *)
LEMMA AtTheBack ==
  ASSUME NEW S, NEW s \in Seq(S), NEW m \in S
  PROVE  /\ Append(s, m) \in Seq(S)
         /\ Members(Append(s, m)) = Members(s) \cup {m}
         /\ IsInjective(s) /\ m \notin Members(s) => IsInjective(Append(s, m))
<1>1. /\ DOMAIN Append(s, m) = DOMAIN s \cup {Len(s) + 1}
      /\ Append(s, m)[Len(s) + 1] = m
      /\ \A i \in DOMAIN s : i # Len(s) + 1 /\ Append(s, m)[i] = s[i]
  OBVIOUS
<1>2. QED
  BY <1>1 DEF Members, IsInjective

(* The same in front.                                                       *)
LEMMA InFront ==
  ASSUME NEW S, NEW s \in Seq(S), NEW m \in S
  PROVE  /\ <<m>> \o s \in Seq(S)
         /\ Members(<<m>> \o s) = Members(s) \cup {m}
         /\ IsInjective(s) /\ m \notin Members(s) => IsInjective(<<m>> \o s)
<1> DEFINE t == <<m>> \o s
<1>1. /\ t \in Seq(S) /\ Len(t) = Len(s) + 1 /\ t[1] = m
      /\ \A i \in 1..Len(s) : t[i + 1] = s[i]
  OBVIOUS
<1>2. \A i \in DOMAIN t : i = 1 \/ (i - 1 \in DOMAIN s /\ t[i] = s[i - 1])
  BY <1>1
<1>3. 1 \in DOMAIN t /\ \A i \in DOMAIN s : i + 1 \in DOMAIN t /\ t[i + 1] = s[i]
  BY <1>1
<1> HIDE DEF t
<1>4. Members(t) = Members(s) \cup {m}
  BY <1>1, <1>2, <1>3 DEF Members
<1>5. ASSUME IsInjective(s), m \notin Members(s), NEW i \in DOMAIN t, NEW j \in DOMAIN t, t[i] = t[j]
      PROVE  i = j
  <2>1. i \in Nat /\ j \in Nat
    BY <1>1, <1>5
  <2>2. CASE i = 1 \/ j = 1
    BY <1>1, <1>2, <1>5, <2>2 DEF Members
  <2>3. CASE i # 1 /\ j # 1
    <3>1. i - 1 = j - 1
      BY <1>2, <1>5, <2>3 DEF IsInjective
    <3>2. QED
      BY <3>1, <2>1
  <2>4. QED
    BY <2>2, <2>3
<1>6. QED
  BY <1>1, <1>4, <1>5 DEF t, IsInjective

(* The same without the first one.                                          *)
LEMMA WithoutHead ==
  ASSUME NEW S, NEW s \in Seq(S), s # <<>>
  PROVE  /\ Tail(s) \in Seq(S) /\ Head(s) \in Members(s) /\ Head(s) \in S
         /\ IsInjective(s) => /\ IsInjective(Tail(s))
                              /\ Members(Tail(s)) = Members(s) \ {Head(s)}
         /\ Members(Tail(s)) \subseteq Members(s)
<1> DEFINE t == Tail(s)
<1>1. /\ t \in Seq(S) /\ Len(t) = Len(s) - 1 /\ Len(s) \in Nat /\ Len(s) > 0
      /\ \A i \in 1..Len(t) : t[i] = s[i + 1]
      /\ Head(s) = s[1]
  OBVIOUS
<1>2. /\ 1 \in DOMAIN s
      /\ \A i \in DOMAIN t : i \in Nat /\ i + 1 \in DOMAIN s /\ i + 1 # 1 /\ t[i] = s[i + 1]
      /\ \A i \in DOMAIN s : i = 1 \/ (i - 1 \in DOMAIN t /\ t[i - 1] = s[i])
  BY <1>1
<1>3. t \in Seq(S) /\ Head(s) = s[1]
  BY <1>1
<1> HIDE DEF t
<1>4. Members(t) \subseteq Members(s) /\ Head(s) \in Members(s)
  BY <1>2, <1>3 DEF Members
<1>5. ASSUME IsInjective(s) PROVE Members(t) = Members(s) \ {Head(s)}
  <2>1. ASSUME NEW i \in DOMAIN t PROVE t[i] \in Members(s) \ {Head(s)}
    BY <1>2, <1>3, <1>5, <2>1 DEF Members, IsInjective
  <2>2. ASSUME NEW i \in DOMAIN s, s[i] # Head(s) PROVE s[i] \in Members(t)
    BY <1>2, <1>3, <2>2 DEF Members
  <2>3. QED
    BY <2>1, <2>2 DEF Members
<1>6. ASSUME IsInjective(s), NEW i \in DOMAIN t, NEW j \in DOMAIN t, t[i] = t[j] PROVE i = j
  <2>1. i + 1 = j + 1 /\ i \in Nat /\ j \in Nat
    BY <1>2, <1>6 DEF IsInjective
  <2>2. QED
    BY <2>1
<1>7. Head(s) \in S
  BY <1>1
<1>8. QED
  BY <1>3, <1>4, <1>5, <1>6, <1>7 DEF IsInjective, t

(* The same without the last one.                                           *)
LEMMA WithoutLast ==
  ASSUME NEW S, NEW s \in Seq(S), s # <<>>
  PROVE  /\ SubSeq(s, 1, Len(s) - 1) \in Seq(S)
         /\ s[Len(s)] \in Members(s) /\ s[Len(s)] \in S
         /\ IsInjective(s) => /\ IsInjective(SubSeq(s, 1, Len(s) - 1))
                              /\ Members(SubSeq(s, 1, Len(s) - 1)) = Members(s) \ {s[Len(s)]}
<1> DEFINE t == SubSeq(s, 1, Len(s) - 1)
<1>1. /\ t \in Seq(S) /\ Len(t) = Len(s) - 1 /\ Len(s) \in Nat /\ Len(s) > 0
      /\ \A i \in 1..Len(t) : t[i] = s[i]
  <2>1. Len(s) \in Nat /\ Len(s) > 0
    OBVIOUS
  <2>2. Len(s) - 1 \in Nat /\ \A i \in 1..(Len(s) - 1) : s[i] \in S
    BY <2>1
  <2>3. t = [i \in 1..(Len(s) - 1) |-> s[i]]
    BY <2>1, <2>2
  <2> HIDE DEF t
  <2>4. t \in Seq(S) /\ Len(t) = Len(s) - 1
    BY <2>2, <2>3
  <2>5. QED
    BY <2>1, <2>3, <2>4
<1>2. /\ Len(s) \in DOMAIN s
      /\ \A i \in DOMAIN t : i \in DOMAIN s /\ i # Len(s) /\ t[i] = s[i]
      /\ \A i \in DOMAIN s : i = Len(s) \/ (i \in DOMAIN t /\ t[i] = s[i])
      /\ t \in Seq(S)
  BY <1>1
<1>3. s[Len(s)] \in S
  BY <1>1
<1> HIDE DEF t
<1>4. s[Len(s)] \in Members(s)
  BY <1>2 DEF Members
<1>5. ASSUME IsInjective(s) PROVE Members(t) = Members(s) \ {s[Len(s)]}
  BY <1>2, <1>5 DEF Members, IsInjective
<1>6. ASSUME IsInjective(s) PROVE IsInjective(t)
  BY <1>2, <1>6 DEF IsInjective
<1>7. QED
  BY <1>2, <1>3, <1>4, <1>5, <1>6 DEF t

(* The same of the empty sequence.                                          *)
LEMMA Nothing == Members(<<>>) = {} /\ IsInjective(<<>>)
BY DEF Members, IsInjective

(* The queue to an end as one sequence, after the calls that change it.     *)
LEMMA OneSequence ==
  ASSUME NEW S, NEW a \in Seq(S), NEW b \in Seq(S), NEW m \in S
  PROVE  /\ a \o b \in Seq(S) /\ a \o <<>> = a
         /\ a \o Append(b, m) = Append(a \o b, m)
         /\ a # <<>> => /\ a \o b # <<>> /\ Head(a \o b) = Head(a)
                        /\ Tail(a) \o b = Tail(a \o b)
         /\ b # <<>> => /\ a \o b # <<>> /\ (a \o b)[Len(a \o b)] = b[Len(b)]
                        /\ a \o SubSeq(b, 1, Len(b) - 1) = SubSeq(a \o b, 1, Len(a \o b) - 1)
<1>1. a \o b \in Seq(S) /\ a \o <<>> = a
  OBVIOUS
<1>2. a \o Append(b, m) = Append(a \o b, m)
  OBVIOUS
<1>3. ASSUME a # <<>>
      PROVE  a \o b # <<>> /\ Head(a \o b) = Head(a) /\ Tail(a) \o b = Tail(a \o b)
  BY <1>3
<1>4. ASSUME b # <<>>
      PROVE  /\ a \o b # <<>> /\ (a \o b)[Len(a \o b)] = b[Len(b)]
             /\ a \o SubSeq(b, 1, Len(b) - 1) = SubSeq(a \o b, 1, Len(a \o b) - 1)
  BY <1>4
<1>5. QED
  BY <1>1, <1>2, <1>3, <1>4

-----------------------------------------------------------------------------
(* The size class of a capacity. Powers of two are looked up, because the   *)
(* provers multiply no further than numbers.                                *)
Power == [n \in 0..31 |-> 2^n]

(* Powers of two, by their values.                                          *)
LEMMA PowerValues ==
  /\ Power[0] = 1 /\ Power[1] = 2 /\ Power[2] = 4 /\ Power[3] = 8
  /\ Power[4] = 16 /\ Power[5] = 32 /\ Power[6] = 64 /\ Power[7] = 128
  /\ Power[8] = 256 /\ Power[9] = 512 /\ Power[10] = 1024 /\ Power[11] = 2048
  /\ Power[12] = 4096 /\ Power[13] = 8192 /\ Power[14] = 16384 /\ Power[15] = 32768
  /\ Power[16] = 65536 /\ Power[17] = 131072 /\ Power[18] = 262144 /\ Power[19] = 524288
  /\ Power[20] = 1048576 /\ Power[21] = 2097152 /\ Power[22] = 4194304 /\ Power[23] = 8388608
  /\ Power[24] = 16777216 /\ Power[25] = 33554432 /\ Power[26] = 67108864 /\ Power[27] = 134217728
  /\ Power[28] = 268435456 /\ Power[29] = 536870912 /\ Power[30] = 1073741824 /\ Power[31] = 2147483648
BY DEF Power

LEMMA Cases ==
  \A n \in 0..31 :
    \/ n = 0 \/ n = 1 \/ n = 2 \/ n = 3 \/ n = 4 \/ n = 5 \/ n = 6 \/ n = 7
    \/ n = 8 \/ n = 9 \/ n = 10 \/ n = 11 \/ n = 12 \/ n = 13 \/ n = 14
    \/ n = 15 \/ n = 16 \/ n = 17 \/ n = 18 \/ n = 19 \/ n = 20 \/ n = 21
    \/ n = 22 \/ n = 23 \/ n = 24 \/ n = 25 \/ n = 26 \/ n = 27 \/ n = 28
    \/ n = 29 \/ n = 30 \/ n = 31
OBVIOUS

LEMMA PowerDoubles ==
  \A n \in 1..31 :
    Power[n] = 2 * Power[n - 1] /\ Power[n - 1] \in Nat /\ Power[n - 1] > 0
<1> SUFFICES ASSUME NEW n \in 1..31
             PROVE  /\ Power[n] = 2 * Power[n - 1]
                    /\ Power[n - 1] \in Nat /\ Power[n - 1] > 0
  OBVIOUS
<1>1. QED
  BY PowerValues, Cases

LEMMA PowersGrow == \A j, k \in 0..31 : j < k => 2 * Power[j] <= Power[k]
<1> SUFFICES ASSUME NEW n \in 0..31, NEW k \in 0..31, n < k PROVE 2 * Power[n] <= Power[k]
  OBVIOUS
<1>1. QED
  BY PowerValues, Cases, SMTT(60)

(* Induction over the numbers, for a set of them.                           *)
LEMMA NatSetInduction ==
  ASSUME NEW S, 0 \in S, \A n \in Nat : n \in S => n + 1 \in S
  PROVE  Nat \subseteq S
<1> SUFFICES ASSUME Nat \ S # {} PROVE FALSE
  OBVIOUS
<1>1. OpToRel(<, Nat) = {ss \in Nat \X Nat : ss[1] < ss[2]}
  BY DEF OpToRel
<1>2. PICK n \in Nat \ S : \A m \in Nat \ S : ~(<<m, n>> \in OpToRel(<, Nat))
  BY NatLessThanWellFounded, WFMin
<1>3. \A m \in Nat \ S : ~(m < n)
  BY <1>1, <1>2
<1>4. n \in Nat /\ n # 0
  OBVIOUS
<1>5. n - 1 \in Nat /\ n - 1 < n /\ n - 1 + 1 = n
  BY <1>4
<1>6. n - 1 \in S
  BY <1>3, <1>5
<1>7. QED
  BY <1>5, <1>6

(* The product with the de Bruijn constant, and its halves of 16 bits.      *)
Multiplier == 130329821
Product(n) == (Power[n] - 1) * Multiplier
HalvesOf(x) == [high |-> (x \div 65536) % 65536, low |-> x % 65536]

(* Doubled is one step of the product.                                      *)
LEMMA Doubling == \A x \in Nat : HalvesOf(2 * x + Multiplier) = Doubled(HalvesOf(x))
<1> SUFFICES ASSUME NEW x \in Nat
             PROVE  HalvesOf(2 * x + Multiplier) = Doubled(HalvesOf(x))
  OBVIOUS
<1>1. (2 * x + 130329821) % 65536 = (2 * (x % 65536) + 44253) % 65536
  BY SMT
<1>2. (2 * x + 130329821) \div 65536
        = 2 * (x \div 65536) + 1988 + ((2 * (x % 65536) + 44253) \div 65536)
  BY SMT
<1>3. \A h, c \in Nat : (2 * h + 1988 + c) % 65536 = (2 * (h % 65536) + 1988 + c) % 65536
  BY SMT
<1>4. ((2 * x + 130329821) \div 65536) % 65536
        = (2 * ((x \div 65536) % 65536) + 1988 + ((2 * (x % 65536) + 44253) \div 65536)) % 65536
  BY <1>2, <1>3, SMT
<1>5. 2^16 = 65536
  BY SMT
<1>6. QED
  BY <1>1, <1>4, <1>5, SMT DEF HalvesOf, Doubled, Multiplier

LEMMA ProductDoubles ==
  ASSUME NEW n \in 1..31
  PROVE  Product(n - 1) \in Nat /\ Product(n) = 2 * Product(n - 1) + Multiplier
<1>1. Power[n] = 2 * Power[n - 1] /\ Power[n - 1] \in Nat /\ Power[n - 1] > 0
  BY PowerDoubles
<1>2. QED
  BY <1>1, SMT DEF Product, Multiplier

(* What the recursion computes is the product.                              *)
LEMMA MultipliedIs == \A n \in 0..31 : Multiplied[n] = HalvesOf(Product(n))
<1> DEFINE Halves == [n \in 0..31 |-> HalvesOf(Product(n))]
           Zero == [high |-> 0, low |-> 0]
<1>1. ASSUME NEW n \in 0..31
      PROVE  Halves[n] = IF n = 0 THEN Zero ELSE Doubled(Halves[n - 1])
  <2>1. CASE n = 0
    <3>1. Product(0) = 0
      BY PowerValues, SMT DEF Product, Multiplier
    <3>2. HalvesOf(0) = Zero
      BY SMT DEF HalvesOf
    <3>3. QED
      BY <2>1, <3>1, <3>2
  <2>2. CASE n # 0
    <3>1. n \in 1..31 /\ n - 1 \in 0..31
      BY <2>2
    <3>2. HalvesOf(Product(n)) = Doubled(HalvesOf(Product(n - 1)))
      BY <3>1, ProductDoubles, Doubling
    <3>3. QED
      BY <2>2, <3>1, <3>2
  <2>3. QED
    BY <2>1, <2>2
<1>2. Halves = [n \in 0..31 |-> IF n = 0 THEN Zero ELSE Doubled(Halves[n - 1])]
  <2>1. Halves = [n \in 0..31 |-> Halves[n]]
    OBVIOUS
  <2> HIDE DEF Halves, Zero
  <2>2. QED
    BY <1>1, <2>1
<1> HIDE DEF Halves
<1>3. Multiplied = [n \in 0..31 |-> IF n = 0 THEN Zero ELSE Doubled(Multiplied[n - 1])]
  BY <1>2 DEF Multiplied
<1> HIDE DEF Zero
<1>4. \A n \in 0..31 : Multiplied[n] = IF n = 0 THEN Zero ELSE Doubled(Multiplied[n - 1])
  BY <1>3
<1> DEFINE S == {n \in Nat : n <= 31 => Multiplied[n] = Halves[n]}
<1>5. 0 \in S
  BY <1>1, <1>4
<1>6. ASSUME NEW n \in Nat, n \in S PROVE n + 1 \in S
  <2>1. CASE n + 1 <= 31
    <3>1. n + 1 \in 0..31 /\ n + 1 # 0 /\ (n + 1) - 1 = n /\ Multiplied[n] = Halves[n]
      BY <1>6, <2>1
    <3>2. QED
      BY <1>1, <1>4, <3>1
  <2>2. QED
    BY <2>1
<1> HIDE DEF S
<1>7. Nat \subseteq S
  BY <1>5, <1>6, NatSetInduction
<1>8. ASSUME NEW n \in 0..31 PROVE Multiplied[n] = HalvesOf(Product(n))
  <2>1. n \in S /\ n <= 31
    BY <1>7
  <2>2. Multiplied[n] = Halves[n]
    BY <2>1 DEF S
  <2>3. QED
    BY <2>2 DEF Halves
<1>9. QED
  BY <1>8

(* The table has the position of the highest bit at the product's top bits. *)
LEMMA Positions ==
  \A n \in 0..23 :
    MultiplyDeBruijnBitPosition[HalvesOf(Product(n)).high \div 2^11 + 1]
      = IF n = 0 THEN 0 ELSE n - 1
<1>1. \A n \in 0..31 :
        HalvesOf(Product(n)).high = (((Power[n] - 1) * 130329821) \div 65536) % 65536
  BY SMT DEF HalvesOf, Product, Multiplier
<1> SUFFICES ASSUME NEW n \in 0..23
             PROVE  MultiplyDeBruijnBitPosition[HalvesOf(Product(n)).high \div 2^11 + 1]
                      = IF n = 0 THEN 0 ELSE n - 1
  OBVIOUS
<1>2. 2^11 = 2048
  BY SMT
<1>3. QED
  BY <1>1, <1>2, PowerValues, Cases, SMTT(60) DEF MultiplyDeBruijnBitPosition

(* A number has as many bits as the power above it says, and one does.      *)
LEMMA BitsAre ==
  ASSUME NEW v \in Nat, NEW n \in 0..31, v < Power[n], n > 0 => Power[n - 1] <= v
  PROVE  Bits(v) = n
<1>1. \A k \in 0..31 : 2^k = Power[k]
  BY DEF Power
<1>2. ASSUME NEW k \in 0..31, v < Power[k], k > 0 => Power[k - 1] <= v
      PROVE  k = n
  <2>1. \A j \in 0..31 : Power[j] \in Nat
    BY PowerValues, Cases
  <2>2. ~(k < n) 
    <3>1. ASSUME k < n PROVE FALSE
      <4>1. n \in 1..31 /\ Power[n - 1] <= v
        BY <3>1
      <4>2. 2 * Power[k] <= Power[n] /\ Power[n] = 2 * Power[n - 1]
        BY <3>1, <4>1, PowersGrow, PowerDoubles
      <4>3. n - 1 \in 0..31
        BY <4>1
      <4>4. QED
        BY <1>2, <2>1, <4>1, <4>2, <4>3
    <3>2. QED
      BY <3>1
  <2>3. ~(n < k)
    <3>1. ASSUME n < k PROVE FALSE
      <4>1. k \in 1..31 /\ Power[k - 1] <= v
        BY <1>2, <3>1
      <4>2. 2 * Power[n] <= Power[k] /\ Power[k] = 2 * Power[k - 1]
        BY <3>1, <4>1, PowersGrow, PowerDoubles
      <4>3. k - 1 \in 0..31
        BY <4>1
      <4>4. QED
        BY <2>1, <4>1, <4>2, <4>3
    <3>2. QED
      BY <3>1
  <2>4. QED
    BY <2>2, <2>3
<1>3. n > 0 => n - 1 \in 0..31
  OBVIOUS
<1>4. \A k \in 0..31 : k > 0 => k - 1 \in 0..31
  OBVIOUS
<1>5. v < 2^n /\ (n > 0 => 2^(n - 1) <= v)
  BY <1>1, <1>3
<1>6. \A k \in 0..31 : v < 2^k /\ (k > 0 => 2^(k - 1) <= v) => k = n
  BY <1>1, <1>2, <1>4
<1>7. QED
  BY <1>5, <1>6 DEF Bits

LEMMA BitsExist ==
  ASSUME NEW v \in Nat, v <= 4194304
  PROVE  \E n \in 0..23 : v < Power[n] /\ (n > 0 => Power[n - 1] <= v)
<1> DEFINE S == {n \in Nat : n <= 23 /\ v < Power[n] =>
                   \E k \in 0..n : v < Power[k] /\ (k > 0 => Power[k - 1] <= v)}
<1>1. 0 \in S
  OBVIOUS
<1>2. ASSUME NEW n \in Nat, n \in S PROVE n + 1 \in S
  <2>1. CASE n + 1 <= 23 /\ v < Power[n + 1]
    <3>1. CASE v < Power[n]
      BY <1>2, <2>1, <3>1
    <3>2. CASE ~(v < Power[n])
      <4>1. Power[n] \in Nat
        BY <2>1, PowerValues, Cases
      <4>2. Power[n] <= v /\ (n + 1) - 1 = n /\ n + 1 \in 0..(n + 1)
        BY <3>2, <4>1
      <4>3. QED
        BY <2>1, <4>2
    <3>3. QED
      BY <3>1, <3>2
  <2>2. QED
    BY <2>1
<1> HIDE DEF S
<1>3. 23 \in S
  BY <1>1, <1>2, NatSetInduction
<1>4. v < Power[23]
  BY PowerValues
<1>5. QED
  BY <1>3, <1>4 DEF S

(* The class that Allocate computes, for every capacity.                    *)
LEMMA SizeClasses ==
  ASSUME NEW v \in Nat
  PROVE  /\ v > 2^22 => IndexOf(v) = -1
         /\ v <= 2^22 => /\ IndexOf(v) \in 0..17
                         /\ v < 2^(6 + IndexOf(v))
                         /\ IndexOf(v) > 0 => 2^(5 + IndexOf(v)) <= v
<1>1. 2^22 = 4194304
  OBVIOUS
<1>2. ASSUME v > 2^22 PROVE IndexOf(v) = -1
  BY <1>2 DEF IndexOf, kAllocateStop
<1>3. ASSUME v <= 2^22
      PROVE  /\ IndexOf(v) \in 0..17
             /\ v < 2^(6 + IndexOf(v))
             /\ IndexOf(v) > 0 => 2^(5 + IndexOf(v)) <= v
  <2>1. PICK n \in 0..23 : v < Power[n] /\ (n > 0 => Power[n - 1] <= v)
    BY <1>1, <1>3, BitsExist
  <2>2. Bits(v) = n
    BY <2>1, BitsAre
  <2>3. Log2(v) = IF n = 0 THEN 0 ELSE n - 1
    BY <2>2, MultipliedIs, Positions DEF Log2
  <2>4. ~(v > 2^22)
    BY <1>1, <1>3
  <2>5. IndexOf(v) = IF n > 6 THEN n - 6 ELSE 0
    BY <2>3, <2>4 DEF IndexOf, kAllocateStart, kAllocateStop
  <2>6. /\ \A k \in 0..31 : 2^k = Power[k]
        /\ \A k \in 0..31 : Power[k] \in Nat
    <3>1. \A k \in 0..31 : Power[k] \in Nat
      BY PowerValues, Cases
    <3>2. QED
      BY <3>1 DEF Power
  <2>7. CASE n > 6
    <3>1. IndexOf(v) = n - 6 /\ 6 + IndexOf(v) = n /\ 5 + IndexOf(v) = n - 1 /\ n - 1 \in 0..31
      BY <2>5, <2>7
    <3>2. n \in 0..31 /\ n > 0 /\ IndexOf(v) \in 0..17
      BY <2>7, <3>1
    <3>3. 2^n = Power[n] /\ 2^(n - 1) = Power[n - 1]
      BY <2>6, <3>1, <3>2, Zenon
    <3>4. v < 2^n /\ 2^(n - 1) <= v
      BY <2>1, <3>2, <3>3, Zenon
    <3>5. QED
      BY <3>1, <3>2, <3>4, Zenon
  <2>8. CASE ~(n > 6)
    <3>1. IndexOf(v) = 0 /\ 6 + IndexOf(v) = 6 /\ n \in 0..6
      BY <2>5, <2>8
    <3>2. Power[n] <= Power[6]
      BY <3>1, <2>6, PowersGrow
    <3>3. QED
      BY <2>1, <2>6, <3>1, <3>2
  <2>9. QED
    BY <2>7, <2>8
<1>4. QED
  BY <1>2, <1>3

(* In no smaller class are the messages larger than the capacity.           *)
LEMMA ClassIsFirstAbove ==
  ASSUME NEW v \in Nat, v <= 2^22
  PROVE  IndexOf(v) = FirstClassAbove(v)
<1> DEFINE i == IndexOf(v)
<1>1. i \in 0..17 /\ v < 2^(6 + i) /\ (i > 0 => 2^(5 + i) <= v)
  BY SizeClasses
<1>2. \A k \in 0..31 : 2^k = Power[k]
  BY DEF Power
<1>3. \A k \in 0..31 : Power[k] \in Nat
  BY PowerValues, Cases
<1> HIDE DEF i
<1>4. ASSUME NEW j \in 0..17, NEW k \in 0..17, v < 2^(6 + j), k > 0 => 2^(5 + k) <= v, j < k
      PROVE  FALSE
  <2>1. 6 + j \in 0..31 /\ 5 + k \in 0..31 /\ k > 0 /\ 6 + j <= 5 + k
    BY <1>4
  <2>2. v < Power[6 + j] /\ Power[5 + k] <= v
    BY <1>2, <1>4, <2>1, Zenon
  <2>3. Power[6 + j] <= Power[5 + k]
    <3>1. CASE 6 + j = 5 + k
      BY <1>3, <2>1, <3>1
    <3>2. CASE 6 + j < 5 + k
      BY <1>3, <2>1, <3>2, PowersGrow
    <3>3. QED
      BY <2>1, <3>1, <3>2
  <2>4. QED
    BY <1>3, <2>1, <2>2, <2>3
<1>5. ASSUME NEW j \in 0..17, v < 2^(6 + j), j > 0 => 2^(5 + j) <= v
      PROVE  j = i
  <2>1. ~(j < i)
    BY <1>1, <1>4, <1>5, Zenon
  <2>2. ~(i < j)
    BY <1>1, <1>4, <1>5, Zenon
  <2>3. QED
    BY <1>1, <1>5, <2>1, <2>2
<1>6. i \in 0..17 /\ \A j \in 0..17 : (v < 2^(6 + j) /\ (j > 0 => 2^(5 + j) <= v)) <=> j = i
  BY <1>1, <1>5, Zenon
<1>7. Classes = 0..17 /\ kAllocateStart = 5 /\ \A j \in Classes : kAllocateStart + 1 + j = 6 + j
  BY DEF Classes, kAllocateStart, kAllocateStop
<1>8. FirstClassAbove(v) = CHOOSE j \in 0..17 : j = i
  BY <1>6, <1>7 DEF FirstClassAbove
<1>9. QED
  BY <1>6, <1>8 DEF i

(* What the model's classes have of that.                                   *)
LEMMA ClassFacts ==
  ASSUME NEW capacity \in Capacities
  PROVE  /\ ClassOf[capacity] \in Classes \cup {-1}
         /\ ClassOf[capacity] # -1 =>
              /\ ClassOf[capacity] \in Lists
              /\ ClassOf[capacity] = FirstClassAbove(capacity)
              /\ 2^(kAllocateStart + ClassOf[capacity] + 1) \in Nat
              /\ capacity <= 2^(kAllocateStart + ClassOf[capacity] + 1)
<1>1. capacity \in Nat /\ ClassOf[capacity] = IndexOf(capacity)
  BY AllocatorAssumption DEF ClassOf
<1>2. Classes = 0..17 /\ kAllocateStart = 5 /\ 2^22 \in Nat
  BY DEF Classes, kAllocateStart, kAllocateStop
<1>3. CASE capacity > 2^22
  BY <1>1, <1>3, SizeClasses
<1>4. CASE ~(capacity > 2^22)
  <2> DEFINE i == IndexOf(capacity)
  <2>1. capacity <= 2^22
    BY <1>1, <1>2, <1>4
  <2>2. i \in 0..17 /\ capacity < 2^(6 + i) /\ i = FirstClassAbove(capacity)
    BY <1>1, <2>1, SizeClasses, ClassIsFirstAbove
  <2> HIDE DEF i
  <2>3. 6 + i \in 0..31 /\ kAllocateStart + i + 1 = 6 + i /\ i # -1
    BY <1>2, <2>2
  <2>4. 2^(6 + i) \in Nat
    <3>1. \A k \in 0..31 : Power[k] \in Nat
      BY PowerValues, Cases
    <3>2. Power[6 + i] = 2^(6 + i)
      BY <2>3, Zenon DEF Power
    <3>3. QED
      BY <2>3, <3>1, <3>2
  <2>5. capacity <= 2^(6 + i)
    BY <1>1, <2>2, <2>4
  <2>6. ClassOf[capacity] = i /\ i \in Classes
    BY <1>1, <1>2, <2>2 DEF i
  <2>7. i \in Lists
    BY <2>3, <2>6 DEF Lists
  <2>8. QED
    BY <2>2, <2>3, <2>4, <2>5, <2>6, <2>7, Zenon
<1>5. QED
  BY <1>3, <1>4

-----------------------------------------------------------------------------
(* A place stays as it is while its variable does.                          *)
LEMMA PlaceStays ==
  ASSUME NEW e \in Ends
  PROVE  /\ queue'[e] = queue[e] => Held(e)'["queue"] = Held(e)["queue"]
         /\ Queued(e)' = Queued(e) => Held(e)'["queue"] = Held(e)["queue"]
         /\ idle_queue'[e] = idle_queue[e] => Held(e)'["idle"] = Held(e)["idle"]
         /\ free_lists'[e] = free_lists[e] => Held(e)'["free"] = Held(e)["free"]
         /\ built'[e] = built[e] => Held(e)'["built"] = Held(e)["built"]
         /\ got'[e] = got[e] => Held(e)'["got"] = Held(e)["got"]
         /\ leaked'[e] = leaked[e] => Held(e)'["leaked"] = Held(e)["leaked"]
BY DEF Held, Queued

(* The places, each by its variable.                                        *)
LEMMA PlaceIs ==
  ASSUME NEW e \in Ends
  PROVE  /\ Held(e)["queue"] = Members(Queued(e)) \ {NULL}
         /\ Held(e)["idle"] = Members(idle_queue[e])
         /\ Held(e)["free"] = UNION {Members(free_lists[e][i]) : i \in Lists}
         /\ Held(e)["built"] = built[e]
         /\ Held(e)["got"] = got[e]
         /\ Held(e)["leaked"] = leaked[e]
BY DEF Held

(* A message that is at one place is at no other.                           *)
LEMMA NotElsewhere ==
  ASSUME HeldRight, NEW e \in Ends, NEW p \in Places, NEW m \in Held(e)[p]
  PROVE  /\ m \in DOMAIN heap /\ PlaceRight(e, p, heap[m]) /\ RecordRight(heap[m])
         /\ m \in Messages
         /\ \A f \in Ends, q \in Places : f # e \/ q # p => Held(f)[q] \ {m} = Held(f)[q]
BY DEF HeldRight

(* Messages M get to the place p of the end e: from where they were, or new.*)
LEMMA MessagesMove ==
  ASSUME HeldRight, NEW e \in Ends, NEW p \in Places, NEW M,
         M \subseteq Messages,
         DOMAIN heap' = DOMAIN heap \cup M,
         Held(e)'[p] = Held(e)[p] \cup M,
         \A f \in Ends, q \in Places : f # e \/ q # p => Held(f)'[q] = Held(f)[q] \ M,
         \A m \in DOMAIN heap \ M : heap'[m] = heap[m],
         \A m \in M : PlaceRight(e, p, heap'[m]) /\ RecordRight(heap'[m])
  PROVE  HeldRight'
<1>1. DOMAIN heap' \subseteq Messages
  BY DEF HeldRight
<1>2. \A m \in DOMAIN heap' : RecordRight(heap'[m])
  BY DEF HeldRight
<1>3. ASSUME NEW m \in DOMAIN heap' PROVE \E f \in Ends, q \in Places : m \in Held(f)'[q]
  <2>1. CASE m \in M
    BY <2>1
  <2>2. CASE m \notin M
    <3>1. PICK f \in Ends, q \in Places : m \in Held(f)[q]
      BY <1>3, <2>2 DEF HeldRight
    <3>2. QED
      BY <2>2, <3>1
  <2>3. QED
    BY <2>1, <2>2
<1>4. ASSUME NEW f \in Ends, NEW q \in Places, NEW m \in Held(f)'[q]
      PROVE  m \in DOMAIN heap' /\ PlaceRight(f, q, heap'[m])
  <2>1. CASE m \in M
    <3>1. f = e /\ q = p
      BY <1>4, <2>1
    <3>2. QED
      BY <2>1, <3>1
  <2>2. CASE m \notin M
    <3>1. m \in Held(f)[q]
      BY <1>4, <2>2
    <3>2. QED
      BY <2>2, <3>1 DEF HeldRight
  <2>3. QED
    BY <2>1, <2>2
<1>5. ASSUME NEW f \in Ends, NEW g \in Ends, NEW q \in Places, NEW r \in Places,
             NEW m \in Held(f)'[q], m \in Held(g)'[r]
      PROVE  f = g /\ q = r
  <2>1. CASE m \in M
    <3>1. f = e /\ q = p
      BY <1>5, <2>1
    <3>2. g = e /\ r = p
      BY <1>5, <2>1
    <3>3. QED
      BY <3>1, <3>2
  <2>2. CASE m \notin M
    <3>1. m \in Held(f)[q]
      BY <1>5, <2>2
    <3>2. m \in Held(g)[r]
      BY <1>5, <2>2
    <3>3. QED
      BY <3>1, <3>2 DEF HeldRight
  <2>3. QED
    BY <2>1, <2>2
<1>6. QED
  BY <1>1, <1>2, <1>3, <1>4, <1>5 DEF HeldRight

(* Messages M are deleted; with none, nothing changes.                      *)
LEMMA MessagesLeave ==
  ASSUME HeldRight, NEW M,
         DOMAIN heap' = DOMAIN heap \ M,
         \A f \in Ends, q \in Places : Held(f)'[q] = Held(f)[q] \ M,
         \A m \in DOMAIN heap \ M : heap'[m] = heap[m]
  PROVE  HeldRight'
<1>1. DOMAIN heap' \subseteq Messages /\ \A m \in DOMAIN heap' : RecordRight(heap'[m])
  BY DEF HeldRight
<1>2. ASSUME NEW m \in DOMAIN heap' PROVE \E f \in Ends, q \in Places : m \in Held(f)'[q]
  BY <1>2 DEF HeldRight
<1>3. ASSUME NEW f \in Ends, NEW q \in Places, NEW m \in Held(f)'[q]
      PROVE  m \in DOMAIN heap' /\ PlaceRight(f, q, heap'[m])
  BY <1>3 DEF HeldRight
<1>4. ASSUME NEW f \in Ends, NEW g \in Ends, NEW q \in Places, NEW r \in Places,
             NEW m \in Held(f)'[q], m \in Held(g)'[r]
      PROVE  f = g /\ q = r
  BY <1>4 DEF HeldRight
<1>5. QED
  BY <1>1, <1>2, <1>3, <1>4 DEF HeldRight

(* The free lists of an end when nothing is put into one or taken from it.  *)
LEMMA FreeStays ==
  ASSUME HeldRight, HeldRight', NEW e \in Ends, FreeRight(e),
         free_lists'[e] = free_lists[e],
         \A m \in DOMAIN heap \cap DOMAIN heap' : heap'[m].index = heap[m].index
  PROVE  FreeRight(e)'
<1> SUFFICES ASSUME NEW i \in Lists
             PROVE  /\ IsInjective(free_lists'[e][i])
                    /\ \A m \in Members(free_lists'[e][i]) : heap'[m].index = i
  BY DEF FreeRight
<1>1. ASSUME NEW m \in Members(free_lists[e][i]) PROVE m \in DOMAIN heap \cap DOMAIN heap'
  <2>1. "free" \in Places
    BY DEF Places
  <2>2. m \in Held(e)["free"] /\ m \in Held(e)'["free"]
    BY <1>1, PlaceIs, PlaceStays
  <2>3. QED
    BY <2>1, <2>2 DEF HeldRight
<1>2. QED
  BY <1>1 DEF FreeRight

(* One message gets from a place to another one.                            *)
OneMoved(m, e, p, f, q) ==
  /\ e # f \/ p # q
  /\ m \in Held(e)[p]
  /\ DOMAIN heap' = DOMAIN heap
  /\ Held(e)'[p] = Held(e)[p] \ {m}
  /\ Held(f)'[q] = Held(f)[q] \cup {m}
  /\ \A g \in Ends, r \in Places :
       (g # e \/ r # p) /\ (g # f \/ r # q) => Held(g)'[r] = Held(g)[r]
  /\ \A n \in DOMAIN heap \ {m} : heap'[n] = heap[n]
  /\ PlaceRight(f, q, heap'[m]) /\ RecordRight(heap'[m])

(* It is then where it was put, and the others are where they were.         *)
LEMMA OneMoves ==
  ASSUME HeldRight, NEW m, NEW e \in Ends, NEW p \in Places, NEW f \in Ends, NEW q \in Places,
         OneMoved(m, e, p, f, q)
  PROVE  HeldRight'
<1>1. /\ m \in DOMAIN heap /\ m \in Messages
      /\ \A g \in Ends, r \in Places : g # e \/ r # p => Held(g)[r] \ {m} = Held(g)[r]
  BY NotElsewhere DEF OneMoved
<1>2. \A g \in Ends, r \in Places : g # f \/ r # q => Held(g)'[r] = Held(g)[r] \ {m}
  BY <1>1 DEF OneMoved
<1> DEFINE M == {m}
<1>3. /\ M \subseteq Messages /\ DOMAIN heap' = DOMAIN heap \cup M
      /\ Held(f)'[q] = Held(f)[q] \cup M
      /\ \A g \in Ends, r \in Places : g # f \/ r # q => Held(g)'[r] = Held(g)[r] \ M
      /\ \A n \in DOMAIN heap \ M : heap'[n] = heap[n]
      /\ \A n \in M : PlaceRight(f, q, heap'[n]) /\ RecordRight(heap'[n])
  BY <1>1, <1>2 DEF OneMoved
<1> HIDE DEF M
<1>4. QED
  BY <1>3, MessagesMove

(* The free lists of an end when a message is put into one of them.         *)
LEMMA PushFree ==
  ASSUME MessageTypes, NEW e \in Ends, FreeRight(e), NEW i \in Lists, NEW m \in Messages,
         m \notin Held(e)["free"],
         free_lists' = [free_lists EXCEPT ![e][i] = <<m>> \o @],
         heap'[m].index = i,
         \A n \in Held(e)["free"] : heap'[n].index = heap[n].index
  PROVE  /\ free_lists' \in [Ends -> [Lists -> Seq(Messages)]]
         /\ \A f \in Ends : f # e => free_lists'[f] = free_lists[f]
         /\ Held(e)'["free"] = Held(e)["free"] \cup {m}
         /\ FreeRight(e)'
<1>1. free_lists \in [Ends -> [Lists -> Seq(Messages)]]
  BY DEF MessageTypes
<1> DEFINE list == free_lists[e][i]
<1>2. /\ <<m>> \o list \in Seq(Messages)
      /\ Members(<<m>> \o list) = Members(list) \cup {m}
      /\ IsInjective(list) /\ m \notin Members(list) => IsInjective(<<m>> \o list)
  BY <1>1, InFront
<1>3. /\ free_lists' = [free_lists EXCEPT ![e] = [free_lists[e] EXCEPT ![i] = <<m>> \o list]]
      /\ free_lists'[e][i] = <<m>> \o list
      /\ \A j \in Lists : j # i => free_lists'[e][j] = free_lists[e][j]
      /\ \A f \in Ends : f # e => free_lists'[f] = free_lists[f]
  BY <1>1
<1>4. free_lists' \in [Ends -> [Lists -> Seq(Messages)]]
  <2>1. [free_lists[e] EXCEPT ![i] = <<m>> \o list] \in [Lists -> Seq(Messages)]
    BY <1>1, <1>2
  <2>2. QED
    BY <1>1, <1>3, <2>1
<1>5. \A j \in Lists : Members(free_lists[e][j]) \subseteq Held(e)["free"]
  BY PlaceIs
<1> HIDE DEF list
<1>6. Held(e)'["free"] = Held(e)["free"] \cup {m}
  <2>1. Held(e)'["free"] = UNION {Members(free_lists'[e][j]) : j \in Lists}
    BY DEF Held
  <2>2. ASSUME NEW n \in Held(e)'["free"] PROVE n \in Held(e)["free"] \cup {m}
    <3>1. PICK j \in Lists : n \in Members(free_lists'[e][j])
      BY <2>1, <2>2
    <3>2. CASE j = i
      BY <1>2, <1>3, <1>5, <3>1, <3>2 DEF list
    <3>3. CASE j # i
      BY <1>3, <1>5, <3>1, <3>3
    <3>4. QED
      BY <3>2, <3>3
  <2>3. ASSUME NEW n \in Held(e)["free"] PROVE n \in Held(e)'["free"]
    <3>1. PICK j \in Lists : n \in Members(free_lists[e][j])
      BY <2>3, PlaceIs
    <3>2. n \in Members(free_lists'[e][j])
      BY <1>2, <1>3, <3>1 DEF list
    <3>3. QED
      BY <2>1, <3>2
  <2>4. m \in Held(e)'["free"]
    <3>1. m \in Members(free_lists'[e][i])
      BY <1>2, <1>3
    <3>2. QED
      BY <2>1, <3>1
  <2>5. QED
    BY <2>2, <2>3, <2>4
<1>7. ASSUME NEW j \in Lists
      PROVE  /\ IsInjective(free_lists'[e][j])
             /\ \A n \in Members(free_lists'[e][j]) : heap'[n].index = j
  <2>1. IsInjective(free_lists[e][j]) /\ \A n \in Members(free_lists[e][j]) : heap'[n].index = j
    BY <1>5, <1>7 DEF FreeRight
  <2>2. CASE j = i
    BY <1>2, <1>3, <1>5, <2>1, <2>2 DEF list
  <2>3. CASE j # i
    BY <1>3, <1>7, <2>1, <2>3
  <2>4. QED
    BY <2>2, <2>3
<1>8. QED
  BY <1>3, <1>4, <1>6, <1>7 DEF FreeRight

(* The free lists of an end when the first message of one of them is taken. *)
LEMMA PopFree ==
  ASSUME MessageTypes, NEW e \in Ends, FreeRight(e), NEW i \in Lists,
         free_lists[e][i] # <<>>,
         free_lists' = [free_lists EXCEPT ![e][i] = Tail(@)],
         \A n \in Held(e)["free"] : heap'[n].index = heap[n].index
  PROVE  /\ free_lists' \in [Ends -> [Lists -> Seq(Messages)]]
         /\ \A f \in Ends : f # e => free_lists'[f] = free_lists[f]
         /\ Head(free_lists[e][i]) \in Held(e)["free"]
         /\ Held(e)'["free"] = Held(e)["free"] \ {Head(free_lists[e][i])}
         /\ heap[Head(free_lists[e][i])].index = i
         /\ FreeRight(e)'
<1>1. free_lists \in [Ends -> [Lists -> Seq(Messages)]]
  BY DEF MessageTypes
<1> DEFINE list == free_lists[e][i]
           m == Head(list)
<1>2. /\ Tail(list) \in Seq(Messages) /\ m \in Members(list)
      /\ IsInjective(Tail(list)) /\ Members(Tail(list)) = Members(list) \ {m}
  BY <1>1, WithoutHead DEF FreeRight
<1>3. /\ free_lists' = [free_lists EXCEPT ![e] = [free_lists[e] EXCEPT ![i] = Tail(list)]]
      /\ free_lists'[e][i] = Tail(list)
      /\ \A j \in Lists : j # i => free_lists'[e][j] = free_lists[e][j]
      /\ \A f \in Ends : f # e => free_lists'[f] = free_lists[f]
  BY <1>1
<1>4. free_lists' \in [Ends -> [Lists -> Seq(Messages)]]
  <2>1. [free_lists[e] EXCEPT ![i] = Tail(list)] \in [Lists -> Seq(Messages)]
    BY <1>1, <1>2
  <2>2. QED
    BY <1>1, <1>3, <2>1
<1>5. /\ \A j \in Lists : Members(free_lists[e][j]) \subseteq Held(e)["free"]
      /\ \A j \in Lists : \A n \in Members(free_lists[e][j]) : heap[n].index = j
  BY PlaceIs DEF FreeRight
<1>6. m \in Held(e)["free"] /\ heap[m].index = i
  BY <1>2, <1>5
<1> HIDE DEF list, m
<1>7. Held(e)'["free"] = Held(e)["free"] \ {m}
  <2>1. Held(e)'["free"] = UNION {Members(free_lists'[e][j]) : j \in Lists}
    BY DEF Held
  <2>2. ASSUME NEW n \in Held(e)'["free"] PROVE n \in Held(e)["free"] /\ n # m
    <3>1. PICK j \in Lists : n \in Members(free_lists'[e][j])
      BY <2>1, <2>2
    <3>2. CASE j = i
      BY <1>2, <1>3, <1>5, <3>1, <3>2 DEF list
    <3>3. CASE j # i
      BY <1>3, <1>5, <1>6, <3>1, <3>3
    <3>4. QED
      BY <3>2, <3>3
  <2>3. ASSUME NEW n \in Held(e)["free"], n # m PROVE n \in Held(e)'["free"]
    <3>1. PICK j \in Lists : n \in Members(free_lists[e][j])
      BY <2>3, PlaceIs
    <3>2. n \in Members(free_lists'[e][j])
      BY <1>2, <1>3, <2>3, <3>1 DEF list
    <3>3. QED
      BY <2>1, <3>2
  <2>4. QED
    BY <2>2, <2>3
<1>8. ASSUME NEW j \in Lists
      PROVE  /\ IsInjective(free_lists'[e][j])
             /\ \A n \in Members(free_lists'[e][j]) : heap'[n].index = j
  <2>1. IsInjective(free_lists[e][j]) /\ \A n \in Members(free_lists[e][j]) : heap'[n].index = j
    BY <1>5, <1>8 DEF FreeRight
  <2>2. CASE j = i
    BY <1>2, <1>3, <2>1, <2>2 DEF list
  <2>3. CASE j # i
    BY <1>3, <1>8, <2>1, <2>3
  <2>4. QED
    BY <2>2, <2>3
<1>9. QED
  BY <1>3, <1>4, <1>6, <1>7, <1>8 DEF FreeRight, list, m

(* A message whose contents or history change is still the one it was.      *)
LEMMA DirtyStays ==
  ASSUME NEW msg, RecordRight(msg), NEW b \in BOOLEAN, NEW r, r = [msg EXCEPT !.dirty = b]
  PROVE  /\ RecordRight(r) /\ r.index = msg.index /\ r.origin = msg.origin
         /\ r.read = msg.read /\ r.dirty = b
<1>1. /\ r \in MessageType /\ r.index = msg.index /\ r.origin = msg.origin
      /\ r.read = msg.read /\ r.dirty = b /\ r.asked = msg.asked /\ r.capacity = msg.capacity
  BY DEF RecordRight, MessageType
<1>2. QED
  BY <1>1 DEF RecordRight

(* The same of a message that is read.                                      *)
LEMMA ReadStays ==
  ASSUME NEW msg, RecordRight(msg), NEW r, r = [msg EXCEPT !.read = TRUE]
  PROVE  RecordRight(r) /\ r.index = msg.index /\ r.origin = msg.origin /\ r.read = TRUE
<1>1. /\ r \in MessageType /\ r.index = msg.index /\ r.origin = msg.origin
      /\ r.read = TRUE /\ r.asked = msg.asked /\ r.capacity = msg.capacity
  BY DEF RecordRight, MessageType
<1>2. QED
  BY <1>1 DEF RecordRight

(* The same of one that is taken for another capacity of its class.         *)
LEMMA TakenStays ==
  ASSUME NEW msg, RecordRight(msg), NEW capacity \in Capacities,
         ClassOf[capacity] = msg.index, msg.index # -1
  PROVE  /\ RecordRight(Taken(msg, capacity))
         /\ Taken(msg, capacity).index = msg.index /\ Taken(msg, capacity).origin = msg.origin
<1> DEFINE r == Taken(msg, capacity)
<1>1. capacity \in Nat /\ msg \in MessageType
  BY AllocatorAssumption DEF RecordRight
<1>2. /\ r \in MessageType /\ r.index = msg.index /\ r.origin = msg.origin
      /\ r.asked = capacity /\ r.capacity = msg.capacity
  BY <1>1 DEF MessageType, Taken
<1> HIDE DEF r
<1>3. RecordRight(r)
  BY <1>2 DEF RecordRight
<1>4. QED
  BY <1>2, <1>3 DEF r

(* A message that Allocate makes.                                           *)
LEMMA NewIsRight ==
  ASSUME NEW e \in Ends, NEW capacity \in Capacities
  PROVE  RecordRight(NewMessage(e, capacity)) /\ PlaceRight(e, "built", NewMessage(e, capacity))
<1> DEFINE i == ClassOf[capacity]
<1>1. /\ i \in Classes \cup {-1}
      /\ i # -1 => 2^(kAllocateStart + i + 1) \in Nat
      /\ capacity \in Nat
  BY ClassFacts, AllocatorAssumption
<1> HIDE DEF i
<1> DEFINE size == IF i = -1 THEN capacity ELSE 2^(kAllocateStart + i + 1)
           msg == [index |-> i, capacity |-> size, asked |-> capacity, origin |-> e,
                   read |-> FALSE, dirty |-> FALSE]
<1>2. size \in Nat
  BY <1>1
<1> HIDE DEF size
<1>3. msg \in MessageType
  BY <1>1, <1>2 DEF MessageType
<1>4. /\ msg.index = i /\ msg.capacity = size /\ msg.asked = capacity /\ msg.origin = e
      /\ msg.read = FALSE
  OBVIOUS
<1>5. NewMessage(e, capacity) = msg
  BY DEF NewMessage, i, size
<1> HIDE DEF msg
<1>6. RecordRight(msg)
  BY <1>3, <1>4 DEF RecordRight, i, size
<1>7. PlaceRight(e, "built", msg)
  BY <1>4 DEF PlaceRight
<1>8. QED
  BY <1>5, <1>6, <1>7

(* Allocate hands out the head of a free list.                              *)
LEMMA TakeStep ==
  ASSUME MessageInv, NEW e \in Ends, NEW capacity \in Capacities,
         ClassOf[capacity] # -1,
         free_lists[e][ClassOf[capacity]] # <<>>,
         NEW m, m = Head(free_lists[e][ClassOf[capacity]]),
         Take(e, capacity),
         built' = [built EXCEPT ![e] = @ \cup {m}],
         UNCHANGED <<pipe, idle_queue, queue, got, leaked>>,
         asking' \in {asking, [asking EXCEPT ![e] = NULL]}
  PROVE  MessageTypes' /\ HeldRight' /\ ListsRight'
<1> DEFINE i == ClassOf[capacity]
<1>1. MessageTypes /\ HeldRight /\ ListsRight /\ i \in Lists /\ FreeRight(e)
  BY ClassFacts DEF MessageInv, ListsRight
<1>2. free_lists \in [Ends -> [Lists -> Seq(Messages)]]
  BY <1>1 DEF MessageTypes
<1>3. m \in Held(e)["free"] /\ m \in Messages
  BY <1>1, <1>2, WithoutHead, PlaceIs
<1>4. /\ m \in DOMAIN heap /\ PlaceRight(e, "free", heap[m]) /\ RecordRight(heap[m])
      /\ m \notin Held(e)["built"]
  BY <1>1, <1>3, NotElsewhere DEF Places
<1>5. /\ heap' = [heap EXCEPT ![m] = Taken(heap[m], capacity)]
      /\ free_lists' = [free_lists EXCEPT ![e][i] = Tail(@)]
  BY DEF Take
<1>6. heap[m].index = i
  BY <1>1, <1>2, WithoutHead DEF FreeRight
<1>7. /\ DOMAIN heap' = DOMAIN heap
      /\ \A n \in DOMAIN heap \ {m} : heap'[n] = heap[n]
      /\ heap'[m] = Taken(heap[m], capacity)
  BY <1>4, <1>5
<1>8. RecordRight(heap'[m]) /\ heap'[m].index = heap[m].index /\ heap'[m].origin = heap[m].origin
  <2>1. ClassOf[capacity] = heap[m].index /\ heap[m].index # -1
    BY <1>6
  <2>2. RecordRight(heap[m])
    BY <1>4
  <2>3. /\ RecordRight(Taken(heap[m], capacity))
        /\ Taken(heap[m], capacity).index = heap[m].index
        /\ Taken(heap[m], capacity).origin = heap[m].origin
    BY <2>1, <2>2, TakenStays
  <2>4. QED
    BY <1>7, <2>3, Zenon
<1>9. PlaceRight(e, "built", heap'[m])
  BY <1>4, <1>8 DEF PlaceRight
<1>10. \A n \in DOMAIN heap : heap'[n].index = heap[n].index
  BY <1>7, <1>8
<1>11. Held(e)["free"] \subseteq DOMAIN heap
  BY <1>1 DEF HeldRight, Places
<1> HIDE DEF i
<1>12. /\ free_lists' \in [Ends -> [Lists -> Seq(Messages)]]
       /\ \A f \in Ends : f # e => free_lists'[f] = free_lists[f]
       /\ Held(e)'["free"] = Held(e)["free"] \ {m}
       /\ FreeRight(e)'
  BY <1>1, <1>5, <1>10, <1>11, PopFree DEF i
<1>13. built \in [Ends -> SUBSET Messages]
  BY <1>1 DEF MessageTypes
<1>14. /\ built' \in [Ends -> SUBSET Messages]
       /\ \A f \in Ends : f # e => built'[f] = built[f]
       /\ Held(e)'["built"] = Held(e)["built"] \cup {m}
  BY <1>3, <1>13, PlaceIs DEF Held
<1>15. ASSUME NEW g \in Ends, NEW r \in Places,
              g # e \/ r # "free", g # e \/ r # "built"
       PROVE  Held(g)'[r] = Held(g)[r]
  BY <1>12, <1>14, <1>15, PlaceStays DEF Places
<1>16. HeldRight'
  <2>1. "free" \in Places /\ "built" \in Places /\ "free" # "built"
    BY DEF Places
  <2>2. OneMoved(m, e, "free", e, "built")
    BY <1>3, <1>7, <1>8, <1>9, <1>12, <1>14, <1>15 DEF OneMoved
  <2>3. QED
    BY <1>1, <2>1, <2>2, OneMoves
<1>17. MessageTypes'
  BY <1>1, <1>12, <1>14 DEF MessageTypes
<1>18. ASSUME NEW f \in Ends
       PROVE  QueueRight(f)' /\ IsInjective(idle_queue'[f]) /\ FreeRight(f)' /\ AskRight(f)'
  <2>1. QueueRight(f) /\ IsInjective(idle_queue[f]) /\ FreeRight(f) /\ AskRight(f)
    BY <1>1 DEF ListsRight
  <2>2. FreeRight(f)'
    BY <1>1, <1>7, <1>10, <1>12, <1>16, <2>1, FreeStays
  <2>3. QueueRight(f)'
    BY <2>1 DEF QueueRight, Queued
  <2>4. AskRight(f)'
    BY <1>1, <2>1 DEF AskRight, MessageTypes
  <2>5. QED
    BY <2>1, <2>2, <2>3, <2>4
<1>19. QED
  BY <1>16, <1>17, <1>18 DEF ListsRight

(* Allocate makes a message.                                                *)
LEMMA NewStep ==
  ASSUME MessageInv, NEW e \in Ends, NEW capacity \in Capacities, NEW m \in Messages,
         New(e, capacity, m),
         built' = [built EXCEPT ![e] = @ \cup {m}],
         UNCHANGED <<pipe, idle_queue, queue, got, leaked>>,
         asking' \in {asking, [asking EXCEPT ![e] = NULL]}
  PROVE  MessageTypes' /\ HeldRight' /\ ListsRight'
<1> DEFINE M == {m}
<1>1. MessageTypes /\ HeldRight /\ ListsRight
  BY DEF MessageInv
<1>2. /\ m \notin DOMAIN heap /\ UNCHANGED free_lists
      /\ DOMAIN heap' = DOMAIN heap \cup M
      /\ heap'[m] = NewMessage(e, capacity)
      /\ \A n \in DOMAIN heap : heap'[n] = heap[n]
  BY DEF New
<1>3. \A f \in Ends, q \in Places : Held(f)[q] \ M = Held(f)[q]
  BY <1>1, <1>2 DEF HeldRight
<1>4. built \in [Ends -> SUBSET Messages]
  BY <1>1 DEF MessageTypes
<1>5. /\ built' \in [Ends -> SUBSET Messages]
      /\ \A f \in Ends : f # e => built'[f] = built[f]
      /\ Held(e)'["built"] = Held(e)["built"] \cup M
  BY <1>4, PlaceIs DEF Held
<1>6. ASSUME NEW f \in Ends, NEW q \in Places, f # e \/ q # "built"
      PROVE  Held(f)'[q] = Held(f)[q] \ M
  BY <1>2, <1>3, <1>5, <1>6, PlaceStays DEF Places
<1>7. \A n \in M : PlaceRight(e, "built", heap'[n]) /\ RecordRight(heap'[n])
  BY <1>2, NewIsRight
<1>8. M \subseteq Messages /\ "built" \in Places
  BY DEF Places
<1> HIDE DEF M
<1>9. HeldRight'
  BY <1>1, <1>2, <1>5, <1>6, <1>7, <1>8, MessagesMove
<1>10. MessageTypes'
  BY <1>1, <1>2, <1>5 DEF MessageTypes
<1>11. ASSUME NEW f \in Ends
       PROVE  QueueRight(f)' /\ IsInjective(idle_queue'[f]) /\ FreeRight(f)' /\ AskRight(f)'
  <2>1. QueueRight(f) /\ IsInjective(idle_queue[f]) /\ FreeRight(f) /\ AskRight(f)
    BY <1>1 DEF ListsRight
  <2>2. FreeRight(f)'
    BY <1>1, <1>2, <1>9, <2>1, FreeStays
  <2>3. QueueRight(f)'
    BY <2>1 DEF QueueRight, Queued
  <2>4. AskRight(f)'
    BY <1>1, <2>1 DEF AskRight, MessageTypes
  <2>5. QED
    BY <2>1, <2>2, <2>3, <2>4
<1>12. QED
  BY <1>9, <1>10, <1>11 DEF ListsRight

(* What a step does not touch, it leaves in order.                          *)
KeepsIndex == \A m \in DOMAIN heap \cap DOMAIN heap' : heap'[m].index = heap[m].index

(* The conjuncts of ListsRight, by the variable each is about.              *)
LEMMA RestStays ==
  ASSUME HeldRight, HeldRight', ListsRight, KeepsIndex, NEW f \in Ends
  PROVE  /\ UNCHANGED pipe /\ Queued(f)' = Queued(f) => QueueRight(f)'
         /\ idle_queue'[f] = idle_queue[f] => IsInjective(idle_queue'[f])
         /\ free_lists'[f] = free_lists[f] => FreeRight(f)'
         /\ asking'[f] = asking[f] => AskRight(f)'
<1>1. QueueRight(f) /\ IsInjective(idle_queue[f]) /\ FreeRight(f) /\ AskRight(f)
  BY DEF ListsRight
<1>2. ASSUME UNCHANGED pipe, Queued(f)' = Queued(f) PROVE QueueRight(f)'
  BY <1>1, <1>2 DEF QueueRight
<1>3. ASSUME free_lists'[f] = free_lists[f] PROVE FreeRight(f)'
  BY <1>1, <1>3, FreeStays DEF KeepsIndex
<1>4. ASSUME asking'[f] = asking[f] PROVE AskRight(f)'
  BY <1>1, <1>4 DEF AskRight
<1>5. QED
  BY <1>1, <1>2, <1>3, <1>4

(* Messages that are deleted.                                               *)
LEMMA DeletedFacts ==
  ASSUME NEW M, heap' = Deleted(M)
  PROVE  /\ DOMAIN heap' = DOMAIN heap \ M
         /\ \A n \in DOMAIN heap \ M : heap'[n] = heap[n]
         /\ KeepsIndex
BY DEF Deleted, KeepsIndex

(* The idle queue of an end.                                                *)
LEMMA PushIdle ==
  ASSUME MessageTypes, NEW e \in Ends, NEW m \in Messages,
         IsInjective(idle_queue[e]), m \notin Held(e)["idle"],
         idle_queue' = [idle_queue EXCEPT ![e] = Append(@, m)]
  PROVE  /\ idle_queue' \in [Ends -> Seq(Messages)]
         /\ \A f \in Ends : f # e => idle_queue'[f] = idle_queue[f]
         /\ Held(e)'["idle"] = Held(e)["idle"] \cup {m}
         /\ IsInjective(idle_queue'[e])
<1>1. idle_queue \in [Ends -> Seq(Messages)] /\ m \notin Members(idle_queue[e])
  BY PlaceIs DEF MessageTypes
<1> DEFINE new == Append(idle_queue[e], m)
<1>2. /\ new \in Seq(Messages) /\ Members(new) = Members(idle_queue[e]) \cup {m}
      /\ IsInjective(new)
  BY <1>1, AtTheBack
<1> HIDE DEF new
<1>3. /\ idle_queue' = [idle_queue EXCEPT ![e] = new] /\ idle_queue'[e] = new
      /\ \A f \in Ends : f # e => idle_queue'[f] = idle_queue[f]
  BY <1>1 DEF new
<1>4. idle_queue' \in [Ends -> Seq(Messages)]
  BY <1>1, <1>2, <1>3
<1>5. Held(e)'["idle"] = Members(idle_queue'[e])
  BY DEF Held
<1>6. QED
  BY <1>2, <1>3, <1>4, <1>5, PlaceIs

(* The same when its first message is read.                                 *)
LEMMA PopIdle ==
  ASSUME MessageTypes, NEW e \in Ends,
         IsInjective(idle_queue[e]), idle_queue[e] # <<>>,
         idle_queue' = [idle_queue EXCEPT ![e] = Tail(@)]
  PROVE  /\ idle_queue' \in [Ends -> Seq(Messages)]
         /\ \A f \in Ends : f # e => idle_queue'[f] = idle_queue[f]
         /\ Head(idle_queue[e]) \in Held(e)["idle"]
         /\ Held(e)'["idle"] = Held(e)["idle"] \ {Head(idle_queue[e])}
         /\ IsInjective(idle_queue'[e])
<1>1. idle_queue \in [Ends -> Seq(Messages)]
  BY DEF MessageTypes
<1> DEFINE new == Tail(idle_queue[e])
           m == Head(idle_queue[e])
<1>2. /\ new \in Seq(Messages) /\ Members(new) = Members(idle_queue[e]) \ {m}
      /\ IsInjective(new) /\ m \in Members(idle_queue[e])
  BY <1>1, WithoutHead
<1> HIDE DEF new, m
<1>3. /\ idle_queue' = [idle_queue EXCEPT ![e] = new] /\ idle_queue'[e] = new
      /\ \A f \in Ends : f # e => idle_queue'[f] = idle_queue[f]
  BY <1>1 DEF new
<1>4. idle_queue' \in [Ends -> Seq(Messages)]
  BY <1>1, <1>2, <1>3
<1>5. Held(e)'["idle"] = Members(idle_queue'[e])
  BY DEF Held
<1>6. QED
  BY <1>2, <1>3, <1>4, <1>5, PlaceIs DEF m

(* The queue to an end, written to: by Staged, or by Flushed.               *)
LEMMA PushQueue ==
  ASSUME MessageTypes, NEW f \in Ends, NEW m \in Messages \cup {NULL},
         \/ queue' = [queue EXCEPT ![f] = Flushed(@, m)]
         \/ m \in Messages /\ queue' = [queue EXCEPT ![f] = Staged(@, m)]
  PROVE  /\ queue' \in [Ends -> QueueType]
         /\ \A g \in Ends : g # f => queue'[g] = queue[g]
         /\ Queued(f) \in Seq(Messages \cup {NULL})
         /\ Queued(f)' = Append(Queued(f), m)
<1> DEFINE S == Messages \cup {NULL}
           a == queue[f].flushed
           b == queue[f].incomplete
<1>1. queue \in [Ends -> QueueType] /\ queue[f] \in QueueType
  BY DEF MessageTypes
<1>2. a \in Seq(S) /\ b \in Seq(S) /\ b \in Seq(Messages) /\ queue[f].alive \in BOOLEAN
  <2>1. a \in Seq(S) /\ b \in Seq(Messages) /\ queue[f].alive \in BOOLEAN
    BY <1>1 DEF QueueType
  <2>2. b \in Seq(S)
    BY <2>1
  <2>3. QED
    BY <2>1, <2>2
<1> HIDE DEF S, a, b
<1>3. a \o b \in Seq(S) /\ a \o Append(b, m) = Append(a \o b, m) /\ m \in S
      /\ Append(b, m) \in Seq(S)
  BY <1>2, OneSequence, AtTheBack DEF S
<1>4. CASE queue' = [queue EXCEPT ![f] = Flushed(@, m)]
  <2> DEFINE q == Flushed(queue[f], m)
             c == a \o Append(b, m)
  <2>1. c \in Seq(S) /\ c \o <<>> = c
    BY <1>2, <1>3, OneSequence
  <2>2. q = [queue[f] EXCEPT !.flushed = c, !.incomplete = <<>>]
    BY DEF Flushed, a, b
  <2> HIDE DEF q, c
  <2>3. q \in QueueType /\ q.flushed = c /\ q.incomplete = <<>>
    <3>1. q = [flushed |-> c, incomplete |-> <<>>, alive |-> queue[f].alive]
      BY <1>1, <2>2 DEF QueueType
    <3>2. <<>> \in Seq(Messages)
      OBVIOUS
    <3>3. QED
      BY <1>2, <2>1, <3>1, <3>2 DEF QueueType, S
  <2>4. queue' = [queue EXCEPT ![f] = q]
    BY <1>4 DEF q
  <2>5. queue' \in [Ends -> QueueType] /\ queue'[f] = q
        /\ \A g \in Ends : g # f => queue'[g] = queue[g]
    BY <1>1, <2>3, <2>4
  <2>6. Queued(f)' = c \o <<>>
    BY <2>3, <2>5 DEF Queued
  <2>7. QED
    BY <1>3, <2>1, <2>5, <2>6 DEF c, Queued, a, b, S
<1>5. CASE m \in Messages /\ queue' = [queue EXCEPT ![f] = Staged(@, m)]
  <2> DEFINE q == Staged(queue[f], m)
             c == Append(b, m)
  <2>1. c \in Seq(Messages)
    BY <1>2, <1>5
  <2>2. q = [queue[f] EXCEPT !.incomplete = c]
    BY DEF Staged, b
  <2>3. a \o c = Append(a \o b, m)
    BY <1>3
  <2> HIDE DEF q, c
  <2>4. q \in QueueType /\ q.flushed = a /\ q.incomplete = c
    BY <1>1, <2>1, <2>2 DEF QueueType, a
  <2>5. queue' = [queue EXCEPT ![f] = q]
    BY <1>5 DEF q
  <2>6. queue' \in [Ends -> QueueType] /\ queue'[f] = q
        /\ \A g \in Ends : g # f => queue'[g] = queue[g]
    BY <1>1, <2>4, <2>5
  <2>7. Queued(f)' = a \o c
    BY <2>4, <2>6 DEF Queued
  <2>8. QED
    BY <1>3, <2>3, <2>6, <2>7 DEF Queued, a, b, S
<1>6. QED
  BY <1>4, <1>5

(* The queue to an end, read by the end or unwritten by the other.          *)
LEMMA PopQueue ==
  ASSUME MessageTypes, NEW f \in Ends, NEW m, IsInjective(Queued(f)),
         \/ /\ queue[f].flushed # <<>> /\ m = Head(queue[f].flushed)
            /\ queue' = [queue EXCEPT ![f].flushed = Tail(@)]
         \/ /\ queue[f].incomplete # <<>>
            /\ m = queue[f].incomplete[Len(queue[f].incomplete)]
            /\ queue' = [queue EXCEPT ![f].incomplete = SubSeq(@, 1, Len(@) - 1)]
  PROVE  /\ queue' \in [Ends -> QueueType]
         /\ \A g \in Ends : g # f => queue'[g] = queue[g]
         /\ m \in Members(Queued(f)) /\ m \in Messages \cup {NULL}
         /\ Members(Queued(f)') = Members(Queued(f)) \ {m}
         /\ IsInjective(Queued(f)')
         /\ m = NULL => queue[f].flushed # <<>> /\ m = Head(queue[f].flushed)
<1> DEFINE S == Messages \cup {NULL}
           a == queue[f].flushed
           b == queue[f].incomplete
<1>1. queue \in [Ends -> QueueType] /\ queue[f] \in QueueType
  BY DEF MessageTypes
<1>2. a \in Seq(S) /\ b \in Seq(S) /\ b \in Seq(Messages) /\ queue[f].alive \in BOOLEAN
  <2>1. a \in Seq(S) /\ b \in Seq(Messages) /\ queue[f].alive \in BOOLEAN
    BY <1>1 DEF QueueType
  <2>2. b \in Seq(S)
    BY <2>1
  <2>3. QED
    BY <2>1, <2>2
<1>3. Queued(f) = a \o b /\ NULL \notin Messages
  BY AllocatorAssumption DEF Queued
<1>4. CASE /\ a # <<>> /\ m = Head(a)
           /\ queue' = [queue EXCEPT ![f].flushed = Tail(@)]
  <2> DEFINE c == Tail(a)
             q == [queue[f] EXCEPT !.flushed = c]
  <2>1. c \in Seq(S) /\ m \in S
    BY <1>2, <1>4, WithoutHead
  <2>2. queue' = [queue EXCEPT ![f] = q]
    BY <1>1, <1>4
  <2>3. /\ a \o b \in Seq(S) /\ a \o b # <<>> /\ Head(a \o b) = m /\ c \o b = Tail(a \o b)
    <3>1. NULL \in S
      OBVIOUS
    <3> HIDE DEF S, a, b
    <3>2. QED
      BY <1>2, <1>4, <3>1, OneSequence
  <2>4. q \in QueueType /\ q.flushed = c /\ q.incomplete = b
    BY <1>1, <2>1 DEF QueueType
  <2> HIDE DEF q, c, a, b, S
  <2>5. queue' \in [Ends -> QueueType] /\ queue'[f] = q
        /\ \A g \in Ends : g # f => queue'[g] = queue[g]
    BY <1>1, <2>2, <2>4
  <2>6. Queued(f)' = Tail(a \o b)
    BY <2>3, <2>4, <2>5 DEF Queued
  <2>7. /\ m \in Members(a \o b) /\ IsInjective(Tail(a \o b))
        /\ Members(Tail(a \o b)) = Members(a \o b) \ {m}
    BY <1>3, <2>3, WithoutHead
  <2>8. QED
    BY <1>3, <1>4, <2>1, <2>5, <2>6, <2>7 DEF a, S
<1>5. CASE /\ b # <<>> /\ m = b[Len(b)]
           /\ queue' = [queue EXCEPT ![f].incomplete = SubSeq(@, 1, Len(@) - 1)]
  <2> DEFINE c == SubSeq(b, 1, Len(b) - 1)
             q == [queue[f] EXCEPT !.incomplete = c]
             d == SubSeq(a \o b, 1, Len(a \o b) - 1)
  <2>1. c \in Seq(Messages) /\ m \in Messages
    BY <1>2, <1>5, WithoutLast
  <2>2. queue' = [queue EXCEPT ![f] = q]
    BY <1>1, <1>5
  <2>3. /\ a \o b \in Seq(S) /\ a \o b # <<>> /\ (a \o b)[Len(a \o b)] = m /\ a \o c = d
    <3>1. NULL \in S
      OBVIOUS
    <3> HIDE DEF S, a, b
    <3>2. QED
      BY <1>2, <1>5, <3>1, OneSequence
  <2>4. q \in QueueType /\ q.flushed = a /\ q.incomplete = c
    BY <1>1, <2>1 DEF QueueType
  <2>5. /\ m \in Members(a \o b) /\ IsInjective(d)
        /\ Members(d) = Members(a \o b) \ {m}
    <3> HIDE DEF S, a, b
    <3>1. QED
      BY <1>3, <2>3, WithoutLast
  <2> HIDE DEF q, c, a, b, S, d
  <2>6. queue' \in [Ends -> QueueType] /\ queue'[f] = q
        /\ \A g \in Ends : g # f => queue'[g] = queue[g]
    BY <1>1, <2>2, <2>4
  <2>7. Queued(f)' = d
    BY <2>3, <2>4, <2>6 DEF Queued
  <2>8. QED
    BY <1>3, <2>1, <2>5, <2>6, <2>7 DEF S
<1>6. QED
  BY <1>4, <1>5

(* A step that leaves all messages where they are.                          *)
LEMMA NothingMoves ==
  ASSUME MessageInv,
         UNCHANGED <<heap, free_lists, idle_queue, pipe, queue, built, got, leaked>>,
         asking' \in [Ends -> Capacities \cup {NULL}],
         \A f \in Ends : AskRight(f)'
  PROVE  MessageTypes' /\ HeldRight' /\ ListsRight'
<1>1. MessageTypes /\ HeldRight /\ ListsRight
  BY DEF MessageInv
<1>2. ASSUME NEW f \in Ends PROVE Held(f)' = Held(f) /\ Queued(f)' = Queued(f)
  BY DEF Held, Queued
<1>3. HeldRight'
  BY <1>1, <1>2 DEF HeldRight
<1>4. ASSUME NEW f \in Ends
      PROVE  QueueRight(f)' /\ IsInjective(idle_queue'[f]) /\ FreeRight(f)' /\ AskRight(f)'
  BY <1>1, <1>2 DEF ListsRight, QueueRight, FreeRight
<1>5. QED
  BY <1>1, <1>3, <1>4 DEF MessageTypes, ListsRight

(* Allocate finds its free list empty, and begins to empty the idle queue.  *)
LEMMA WaitStep ==
  ASSUME MessageInv, NEW e \in Ends, NEW capacity \in Capacities, AllocateWaits(e, capacity)
  PROVE  MessageTypes' /\ HeldRight' /\ ListsRight'
<1>1. /\ UNCHANGED <<heap, free_lists, idle_queue, pipe, queue, built, got, leaked>>
      /\ asking' = [asking EXCEPT ![e] = capacity] /\ ClassOf[capacity] # -1
  BY DEF AllocateWaits, AllocateConsume, UnchangedButOwners
<1>2. asking \in [Ends -> Capacities \cup {NULL}] /\ \A f \in Ends : AskRight(f)
  BY DEF MessageInv, MessageTypes, ListsRight
<1>3. asking' \in [Ends -> Capacities \cup {NULL}] /\ \A f \in Ends : AskRight(f)'
  BY <1>1, <1>2 DEF AskRight
<1>4. QED
  BY <1>1, <1>3, NothingMoves

(* ConsumeIdleQueue puts a message that came back into its free list.       *)
LEMMA ConsumeStep ==
  ASSUME MessageInv, NEW e \in Ends, Consume(e)
  PROVE  MessageTypes' /\ HeldRight' /\ ListsRight'
<1> DEFINE m == Head(idle_queue[e])
           i == heap[m].index
<1>1. /\ MessageTypes /\ HeldRight /\ ListsRight /\ FreeRight(e) /\ IsInjective(idle_queue[e])
      /\ idle_queue[e] # <<>>
      /\ free_lists' = [free_lists EXCEPT ![e][i] = <<m>> \o @]
      /\ idle_queue' = [idle_queue EXCEPT ![e] = Tail(@)]
      /\ UNCHANGED <<heap, asking, queue, built, got, pipe, leaked>>
  BY DEF MessageInv, ListsRight, Consume, ConsumeOne, UnchangedButOwners
<1> HIDE DEF m, i
<1>2. /\ idle_queue' \in [Ends -> Seq(Messages)]
      /\ \A f \in Ends : f # e => idle_queue'[f] = idle_queue[f]
      /\ m \in Held(e)["idle"]
      /\ Held(e)'["idle"] = Held(e)["idle"] \ {m}
      /\ IsInjective(idle_queue'[e])
  BY <1>1, PopIdle DEF m
<1>3. "idle" \in Places /\ "free" \in Places /\ "idle" # "free"
  BY DEF Places
<1>4. /\ m \in DOMAIN heap /\ m \in Messages
      /\ PlaceRight(e, "idle", heap[m]) /\ RecordRight(heap[m])
      /\ m \notin Held(e)["free"]
  BY <1>1, <1>2, <1>3, NotElsewhere
<1>5. i \in Lists /\ heap'[m].index = i
  BY <1>1, <1>4 DEF PlaceRight, RecordRight, Lists, i
<1>6. \A n \in Held(e)["free"] : heap'[n].index = heap[n].index
  BY <1>1
<1>7. /\ free_lists' \in [Ends -> [Lists -> Seq(Messages)]]
      /\ \A f \in Ends : f # e => free_lists'[f] = free_lists[f]
      /\ Held(e)'["free"] = Held(e)["free"] \cup {m}
      /\ FreeRight(e)'
  BY <1>1, <1>4, <1>5, <1>6, PushFree
<1>8. PlaceRight(e, "free", heap'[m]) /\ RecordRight(heap'[m])
  BY <1>1, <1>4 DEF PlaceRight
<1>9. ASSUME NEW g \in Ends, NEW r \in Places,
             g # e \/ r # "idle", g # e \/ r # "free"
      PROVE  Held(g)'[r] = Held(g)[r]
  BY <1>1, <1>2, <1>7, <1>9, PlaceStays DEF Places
<1>10. HeldRight'
  <2>1. OneMoved(m, e, "idle", e, "free")
    BY <1>1, <1>2, <1>3, <1>7, <1>8, <1>9 DEF OneMoved
  <2>2. QED
    BY <1>1, <1>3, <2>1, OneMoves
<1>11. MessageTypes'
  BY <1>1, <1>2, <1>7 DEF MessageTypes
<1>12. KeepsIndex
  BY <1>1 DEF KeepsIndex
<1>13. ASSUME NEW f \in Ends
       PROVE  QueueRight(f)' /\ IsInjective(idle_queue'[f]) /\ FreeRight(f)' /\ AskRight(f)'
  <2>1. Queued(f)' = Queued(f)
    BY <1>1 DEF Queued
  <2>2. QueueRight(f)' /\ AskRight(f)'
    BY <1>1, <1>10, <1>12, <2>1, RestStays
  <2>3. FreeRight(f)'
    BY <1>1, <1>7, <1>10, <1>12, RestStays
  <2>4. IsInjective(idle_queue'[f])
    BY <1>1, <1>2, <1>10, <1>12, RestStays
  <2>5. QED
    BY <2>2, <2>3, <2>4
<1>14. QED
  BY <1>10, <1>11, <1>13 DEF ListsRight

(* Releasemessage_t deletes a big message, and puts another one, cleared,   *)
(* into its free list.                                                      *)
LEMMA ReleaseStep ==
  ASSUME MessageInv, NEW e \in Ends, NEW m \in Messages, Releasemessage_t(e, m)
  PROVE  MessageTypes' /\ HeldRight' /\ ListsRight'
<1> DEFINE i == heap[m].index
<1>1. /\ MessageTypes /\ HeldRight /\ ListsRight /\ FreeRight(e)
      /\ m \in built[e] /\ Release(e, m)
      /\ built' = [built EXCEPT ![e] = @ \ {m}]
      /\ UNCHANGED <<idle_queue, asking, queue, got, pipe, leaked>>
  BY DEF MessageInv, ListsRight, Releasemessage_t, Release, UnchangedButOwners
<1>2. /\ built' \in [Ends -> SUBSET Messages] /\ built'[e] = built[e] \ {m}
      /\ \A f \in Ends : f # e => built'[f] = built[f]
  BY <1>1 DEF MessageTypes
<1>3. m \in Held(e)["built"] /\ Held(e)'["built"] = Held(e)["built"] \ {m}
  BY <1>1, <1>2, PlaceIs DEF Held
<1>4. "built" \in Places /\ "free" \in Places /\ "built" # "free"
  BY DEF Places
<1>5. /\ m \in DOMAIN heap /\ PlaceRight(e, "built", heap[m]) /\ RecordRight(heap[m])
      /\ \A f \in Ends, q \in Places : f # e \/ q # "built" => Held(f)[q] \ {m} = Held(f)[q]
  BY <1>1, <1>3, <1>4, NotElsewhere
<1>6. ASSUME HeldRight', KeepsIndex, FreeRight(e)',
             free_lists' \in [Ends -> [Lists -> Seq(Messages)]],
             \A f \in Ends : f # e => free_lists'[f] = free_lists[f]
      PROVE  MessageTypes' /\ HeldRight' /\ ListsRight'
  <2>1. MessageTypes'
    BY <1>1, <1>2, <1>6 DEF MessageTypes
  <2>2. ASSUME NEW f \in Ends
        PROVE  QueueRight(f)' /\ IsInjective(idle_queue'[f]) /\ FreeRight(f)' /\ AskRight(f)'
    <3>1. Queued(f)' = Queued(f)
      BY <1>1 DEF Queued
    <3>2. QueueRight(f)' /\ AskRight(f)' /\ IsInjective(idle_queue'[f])
      BY <1>1, <1>6, <3>1, RestStays
    <3>3. FreeRight(f)'
      BY <1>1, <1>6, RestStays
    <3>4. QED
      BY <3>2, <3>3
  <2>3. QED
    BY <1>6, <2>1, <2>2 DEF ListsRight
<1>7. CASE i < 0
  <2> DEFINE M == {m}
  <2>1. heap' = Deleted(M) /\ UNCHANGED free_lists
    BY <1>1, <1>7 DEF Release
  <2>2. ASSUME NEW f \in Ends, NEW q \in Places PROVE Held(f)'[q] = Held(f)[q] \ M
    <3>1. CASE f = e /\ q = "built"
      BY <1>3, <3>1
    <3>2. CASE f # e \/ q # "built"
      <4>1. Held(f)'[q] = Held(f)[q]
        BY <1>1, <1>2, <2>1, <3>2, PlaceStays DEF Places
      <4>2. QED
        BY <1>5, <3>2, <4>1
    <3>3. QED
      BY <3>1, <3>2
  <2> HIDE DEF M
  <2>3. HeldRight' /\ KeepsIndex
    <3>1. /\ DOMAIN heap' = DOMAIN heap \ M /\ KeepsIndex
          /\ \A n \in DOMAIN heap \ M : heap'[n] = heap[n]
      BY <2>1, DeletedFacts
    <3>2. QED
      BY <1>1, <2>2, <3>1, MessagesLeave
  <2>4. FreeRight(e)'
    BY <1>1, <2>1, <2>3, RestStays
  <2>5. QED
    BY <1>1, <1>6, <2>1, <2>3, <2>4 DEF MessageTypes
<1>8. CASE ~(i < 0)
  <2>1. /\ heap' = [heap EXCEPT ![m] = Cleared(heap[m])]
        /\ free_lists' = [free_lists EXCEPT ![e][i] = <<m>> \o @]
    BY <1>1, <1>8 DEF Release
  <2>2. i # -1 /\ i \in Lists
    BY <1>5, <1>8 DEF RecordRight, Lists
  <2>3. /\ RecordRight(Cleared(heap[m])) /\ Cleared(heap[m]).index = heap[m].index
        /\ Cleared(heap[m]).origin = heap[m].origin /\ Cleared(heap[m]).dirty = FALSE
    BY <1>5, DirtyStays DEF Cleared
  <2>4. /\ DOMAIN heap' = DOMAIN heap /\ heap'[m] = Cleared(heap[m])
        /\ \A n \in DOMAIN heap \ {m} : heap'[n] = heap[n]
    BY <1>5, <2>1
  <2>5. RecordRight(heap'[m]) /\ PlaceRight(e, "free", heap'[m]) /\ heap'[m].index = i
    <3>1. heap[m].origin = e
      BY <1>5 DEF PlaceRight
    <3>2. QED
      BY <2>2, <2>3, <2>4, <3>1 DEF PlaceRight
  <2>6. m \notin Held(e)["free"]
    BY <1>4, <1>5
  <2>7. \A n \in Held(e)["free"] : heap'[n].index = heap[n].index
    BY <1>1, <1>4, <2>4, <2>6 DEF HeldRight
  <2> HIDE DEF i
  <2>8. /\ free_lists' \in [Ends -> [Lists -> Seq(Messages)]]
        /\ \A f \in Ends : f # e => free_lists'[f] = free_lists[f]
        /\ Held(e)'["free"] = Held(e)["free"] \cup {m}
        /\ FreeRight(e)'
    BY <1>1, <2>1, <2>2, <2>5, <2>6, <2>7, PushFree
  <2>9. ASSUME NEW g \in Ends, NEW r \in Places,
               g # e \/ r # "built", g # e \/ r # "free"
        PROVE  Held(g)'[r] = Held(g)[r]
    BY <1>1, <1>2, <2>8, <2>9, PlaceStays DEF Places
  <2>10. HeldRight'
    <3>1. OneMoved(m, e, "built", e, "free")
      BY <1>3, <1>4, <2>4, <2>5, <2>8, <2>9 DEF OneMoved
    <3>2. QED
      BY <1>1, <1>4, <3>1, OneMoves
  <2>11. KeepsIndex
    BY <2>4, <2>5 DEF KeepsIndex, i
  <2>12. QED
    BY <1>6, <2>8, <2>10, <2>11
<1>9. QED
  BY <1>7, <1>8

(* Recyclemessage_t gives a message that was read back to the allocator of  *)
(* the peer, or deletes a big one.                                          *)
LEMMA RecycleStep ==
  ASSUME MessageInv, NEW e \in Ends, NEW m \in Messages, Recyclemessage_t(e, m), pipe[e].peer
  PROVE  MessageTypes' /\ HeldRight' /\ ListsRight'
<1> DEFINE f == Other(e)
<1>1. /\ MessageTypes /\ HeldRight /\ ListsRight /\ IsInjective(idle_queue[f])
      /\ m \in got[e] /\ Recycle(f, m)
      /\ got' = [got EXCEPT ![e] = @ \ {m}]
      /\ UNCHANGED <<free_lists, asking, queue, built, pipe, leaked>>
      /\ f \in Ends /\ f # e
  BY TwoEnds DEF MessageInv, ListsRight, Recyclemessage_t, Recycle, UnchangedButOwners
<1>2. /\ got' \in [Ends -> SUBSET Messages] /\ got'[e] = got[e] \ {m}
      /\ \A g \in Ends : g # e => got'[g] = got[g]
  BY <1>1 DEF MessageTypes
<1>3. m \in Held(e)["got"] /\ Held(e)'["got"] = Held(e)["got"] \ {m}
  BY <1>1, <1>2, PlaceIs DEF Held
<1>4. "got" \in Places /\ "idle" \in Places
  BY DEF Places
<1>5. /\ m \in DOMAIN heap /\ PlaceRight(e, "got", heap[m]) /\ RecordRight(heap[m])
      /\ \A g \in Ends, q \in Places : g # e \/ q # "got" => Held(g)[q] \ {m} = Held(g)[q]
  BY <1>1, <1>3, <1>4, NotElsewhere
<1> HIDE DEF f
<1>6. ASSUME HeldRight', KeepsIndex, idle_queue' \in [Ends -> Seq(Messages)],
             IsInjective(idle_queue'[f]),
             \A g \in Ends : g # f => idle_queue'[g] = idle_queue[g]
      PROVE  MessageTypes' /\ HeldRight' /\ ListsRight'
  <2>1. MessageTypes'
    BY <1>1, <1>2, <1>6 DEF MessageTypes
  <2>2. ASSUME NEW g \in Ends
        PROVE  QueueRight(g)' /\ IsInjective(idle_queue'[g]) /\ FreeRight(g)' /\ AskRight(g)'
    <3>1. Queued(g)' = Queued(g)
      BY <1>1 DEF Queued
    <3>2. QueueRight(g)' /\ AskRight(g)' /\ FreeRight(g)'
      BY <1>1, <1>6, <3>1, RestStays
    <3>3. IsInjective(idle_queue'[g])
      BY <1>1, <1>6, RestStays
    <3>4. QED
      BY <3>2, <3>3
  <2>3. QED
    BY <1>6, <2>1, <2>2 DEF ListsRight
<1>7. CASE heap[m].index < 0
  <2> DEFINE M == {m}
  <2>1. heap' = Deleted(M) /\ UNCHANGED idle_queue
    BY <1>1, <1>7 DEF Recycle
  <2>2. ASSUME NEW g \in Ends, NEW q \in Places PROVE Held(g)'[q] = Held(g)[q] \ M
    <3>1. CASE g = e /\ q = "got"
      BY <1>3, <3>1
    <3>2. CASE g # e \/ q # "got"
      <4>1. Held(g)'[q] = Held(g)[q]
        BY <1>1, <1>2, <2>1, <3>2, PlaceStays DEF Places
      <4>2. QED
        BY <1>5, <3>2, <4>1
    <3>3. QED
      BY <3>1, <3>2
  <2> HIDE DEF M
  <2>3. HeldRight' /\ KeepsIndex
    <3>1. /\ DOMAIN heap' = DOMAIN heap \ M /\ KeepsIndex
          /\ \A n \in DOMAIN heap \ M : heap'[n] = heap[n]
      BY <2>1, DeletedFacts
    <3>2. QED
      BY <1>1, <2>2, <3>1, MessagesLeave
  <2>4. QED
    BY <1>1, <1>6, <2>1, <2>3 DEF MessageTypes
<1>8. CASE ~(heap[m].index < 0)
  <2>1. UNCHANGED heap /\ idle_queue' = [idle_queue EXCEPT ![f] = Append(@, m)]
    BY <1>1, <1>8 DEF Recycle
  <2>2. m \notin Held(f)["idle"]
    BY <1>1, <1>4, <1>5
  <2>3. /\ idle_queue' \in [Ends -> Seq(Messages)]
        /\ \A g \in Ends : g # f => idle_queue'[g] = idle_queue[g]
        /\ Held(f)'["idle"] = Held(f)["idle"] \cup {m}
        /\ IsInjective(idle_queue'[f])
    BY <1>1, <2>1, <2>2, PushIdle
  <2>4. PlaceRight(f, "idle", heap'[m]) /\ RecordRight(heap'[m])
    <3>1. heap[m].index # -1
      BY <1>8
    <3>2. QED
      BY <1>5, <2>1, <3>1, TwoEnds DEF PlaceRight, f
  <2>5. ASSUME NEW g \in Ends, NEW r \in Places,
               g # e \/ r # "got", g # f \/ r # "idle"
        PROVE  Held(g)'[r] = Held(g)[r]
    BY <1>1, <1>2, <2>1, <2>3, <2>5, PlaceStays DEF Places
  <2>6. HeldRight'
    <3>1. OneMoved(m, e, "got", f, "idle")
      BY <1>1, <1>3, <1>4, <2>1, <2>3, <2>4, <2>5 DEF OneMoved
    <3>2. QED
      BY <1>1, <1>4, <3>1, OneMoves
  <2>7. KeepsIndex
    BY <2>1 DEF KeepsIndex
  <2>8. QED
    BY <1>6, <2>3, <2>6, <2>7
<1>9. QED
  BY <1>7, <1>8

(* Write passes a message that is filled to the queue of the peer.          *)
LEMMA WriteStep ==
  ASSUME MessageInv, NEW e \in Ends, NEW m \in Messages, NEW incomplete \in BOOLEAN,
         Write(e, m, incomplete), queue[Other(e)].alive, pipe[e].peer
  PROVE  MessageTypes' /\ HeldRight' /\ ListsRight'
<1> DEFINE f == Other(e)
<1>1. /\ MessageTypes /\ HeldRight /\ ListsRight /\ QueueRight(f)
      /\ m \in built[e]
      /\ \/ queue' = [queue EXCEPT ![f] = Flushed(@, m)]
         \/ queue' = [queue EXCEPT ![f] = Staged(@, m)]
      /\ heap' = [heap EXCEPT ![m].dirty = TRUE]
      /\ built' = [built EXCEPT ![e] = @ \ {m}]
      /\ UNCHANGED <<free_lists, idle_queue, asking, got, pipe, leaked>>
      /\ f \in Ends /\ f # e
  BY TwoEnds DEF MessageInv, ListsRight, Write, UnchangedButOwners
<1> HIDE DEF f
<1>2. /\ built' \in [Ends -> SUBSET Messages] /\ built'[e] = built[e] \ {m}
      /\ \A g \in Ends : g # e => built'[g] = built[g]
  BY <1>1 DEF MessageTypes
<1>3. m \in Held(e)["built"] /\ Held(e)'["built"] = Held(e)["built"] \ {m}
  BY <1>1, <1>2, PlaceIs DEF Held
<1>4. "built" \in Places /\ "queue" \in Places /\ NULL # m
  BY AllocatorAssumption DEF Places
<1>5. /\ m \in DOMAIN heap /\ PlaceRight(e, "built", heap[m]) /\ RecordRight(heap[m])
      /\ m \notin Held(f)["queue"]
  BY <1>1, <1>3, <1>4, NotElsewhere
<1>6. /\ queue' \in [Ends -> QueueType]
      /\ \A g \in Ends : g # f => queue'[g] = queue[g]
      /\ Queued(f) \in Seq(Messages \cup {NULL})
      /\ Queued(f)' = Append(Queued(f), m)
  BY <1>1, PushQueue
<1>7. m \notin Members(Queued(f))
  BY <1>1, <1>4, <1>5, PlaceIs
<1>8. /\ Members(Queued(f)') = Members(Queued(f)) \cup {m}
      /\ IsInjective(Queued(f)')
  <2>1. m \in Messages \cup {NULL} /\ IsInjective(Queued(f))
    BY <1>1 DEF QueueRight
  <2>2. QED
    BY <1>6, <1>7, <2>1, AtTheBack
<1>9. Held(f)'["queue"] = Held(f)["queue"] \cup {m}
  BY <1>1, <1>4, <1>8, PlaceIs DEF Held, Queued
<1>10. /\ DOMAIN heap' = DOMAIN heap /\ heap'[m] = [heap[m] EXCEPT !.dirty = TRUE]
       /\ \A n \in DOMAIN heap \ {m} : heap'[n] = heap[n]
  BY <1>1, <1>5
<1>11. RecordRight(heap'[m]) /\ heap'[m].index = heap[m].index /\ heap'[m].origin = heap[m].origin
  <2> DEFINE r == [heap[m] EXCEPT !.dirty = TRUE]
  <2>1. RecordRight(r) /\ r.index = heap[m].index /\ r.origin = heap[m].origin
    BY <1>5, DirtyStays
  <2>2. heap'[m] = r
    BY <1>10
  <2> HIDE DEF r
  <2>3. QED
    BY <2>1, <2>2
<1>12. PlaceRight(f, "queue", heap'[m])
  <2>1. heap[m].origin = e
    BY <1>5 DEF PlaceRight
  <2>2. QED
    BY <1>11, <2>1, TwoEnds DEF PlaceRight, f
<1>13. ASSUME NEW g \in Ends, NEW r \in Places,
              g # e \/ r # "built", g # f \/ r # "queue"
       PROVE  Held(g)'[r] = Held(g)[r]
  BY <1>1, <1>2, <1>6, <1>13, PlaceStays DEF Places
<1>14. HeldRight'
  <2>1. OneMoved(m, e, "built", f, "queue")
    BY <1>1, <1>3, <1>4, <1>9, <1>10, <1>11, <1>12, <1>13 DEF OneMoved
  <2>2. QED
    BY <1>1, <1>4, <2>1, OneMoves
<1>15. KeepsIndex
  BY <1>10, <1>11 DEF KeepsIndex
<1>16. MessageTypes'
  BY <1>1, <1>2, <1>6 DEF MessageTypes
<1>17. ASSUME NEW g \in Ends
       PROVE  QueueRight(g)' /\ IsInjective(idle_queue'[g]) /\ FreeRight(g)' /\ AskRight(g)'
  <2>1. IsInjective(idle_queue'[g]) /\ FreeRight(g)' /\ AskRight(g)'
    BY <1>1, <1>14, <1>15, RestStays
  <2>2. CASE g = f
    BY <1>1, <1>4, <1>8, <2>1, <2>2 DEF QueueRight
  <2>3. CASE g # f
    <3>1. Queued(g)' = Queued(g)
      BY <1>6, <2>3 DEF Queued
    <3>2. QED
      BY <1>1, <1>14, <1>15, <2>1, <3>1, RestStays
  <2>4. QED
    BY <2>1, <2>2, <2>3
<1>18. QED
  BY <1>14, <1>16, <1>17 DEF ListsRight

(* Unwrite takes back what is not flushed.                                  *)
LEMMA UnwriteStep ==
  ASSUME MessageInv, NEW e \in Ends, Unwrite(e), queue[Other(e)].alive
  PROVE  MessageTypes' /\ HeldRight' /\ ListsRight'
<1> DEFINE f == Other(e)
           staged == queue[f].incomplete
           m == staged[Len(staged)]
<1>1. /\ MessageTypes /\ HeldRight /\ ListsRight /\ QueueRight(f) /\ IsInjective(Queued(f))
      /\ staged # <<>>
      /\ queue' = [queue EXCEPT ![f].incomplete = SubSeq(@, 1, Len(@) - 1)]
      /\ built' = [built EXCEPT ![e] = @ \cup {m}]
      /\ UNCHANGED <<heap, free_lists, idle_queue, asking, got, pipe, leaked>>
      /\ f \in Ends /\ f # e
  BY TwoEnds DEF MessageInv, ListsRight, QueueRight, Unwrite, UnchangedButOwners, allocatorVars
<1>2. m \in Messages
  <2>1. staged \in Seq(Messages)
    BY <1>1 DEF MessageTypes, QueueType
  <2> HIDE DEF staged
  <2>2. QED
    BY <1>1, <2>1, WithoutLast
<1>3. /\ queue' \in [Ends -> QueueType]
      /\ \A g \in Ends : g # f => queue'[g] = queue[g]
      /\ m \in Members(Queued(f))
      /\ Members(Queued(f)') = Members(Queued(f)) \ {m}
      /\ IsInjective(Queued(f)')
  BY <1>1, PopQueue
<1> HIDE DEF f, staged, m
<1>4. "built" \in Places /\ "queue" \in Places /\ NULL # m
  BY <1>2, AllocatorAssumption DEF Places
<1>5. m \in Held(f)["queue"] /\ Held(f)'["queue"] = Held(f)["queue"] \ {m}
  BY <1>1, <1>3, <1>4, PlaceIs DEF Held, Queued
<1>6. m \in DOMAIN heap /\ PlaceRight(f, "queue", heap[m]) /\ RecordRight(heap[m])
  BY <1>1, <1>4, <1>5, NotElsewhere
<1>7. /\ built' \in [Ends -> SUBSET Messages] /\ built'[e] = built[e] \cup {m}
      /\ \A g \in Ends : g # e => built'[g] = built[g]
  BY <1>1, <1>2 DEF MessageTypes
<1>8. Held(e)'["built"] = Held(e)["built"] \cup {m}
  BY <1>7, PlaceIs DEF Held
<1>9. PlaceRight(e, "built", heap'[m]) /\ RecordRight(heap'[m])
  BY <1>1, <1>6, TwoEnds DEF PlaceRight, f
<1>10. ASSUME NEW g \in Ends, NEW r \in Places,
              g # f \/ r # "queue", g # e \/ r # "built"
       PROVE  Held(g)'[r] = Held(g)[r]
  BY <1>1, <1>3, <1>7, <1>10, PlaceStays DEF Places
<1>11. HeldRight'
  <2>1. OneMoved(m, f, "queue", e, "built")
    BY <1>1, <1>4, <1>5, <1>8, <1>9, <1>10 DEF OneMoved
  <2>2. QED
    BY <1>1, <1>4, <2>1, OneMoves
<1>12. KeepsIndex
  BY <1>1 DEF KeepsIndex
<1>13. MessageTypes'
  BY <1>1, <1>3, <1>7 DEF MessageTypes
<1>14. ASSUME NEW g \in Ends
       PROVE  QueueRight(g)' /\ IsInjective(idle_queue'[g]) /\ FreeRight(g)' /\ AskRight(g)'
  <2>1. IsInjective(idle_queue'[g]) /\ FreeRight(g)' /\ AskRight(g)'
    BY <1>1, <1>11, <1>12, RestStays
  <2>2. CASE g = f
    BY <1>1, <1>3, <2>1, <2>2 DEF QueueRight
  <2>3. CASE g # f
    <3>1. Queued(g)' = Queued(g)
      BY <1>3, <2>3 DEF Queued
    <3>2. QED
      BY <1>1, <1>11, <1>12, <2>1, <3>1, RestStays
  <2>4. QED
    BY <2>1, <2>2, <2>3
<1>15. QED
  BY <1>11, <1>13, <1>14 DEF ListsRight

(* Read takes a message from the queue, or finds that the peer terminated.  *)
LEMMA ReadStep ==
  ASSUME MessageInv, NEW e \in Ends, Read(e), queue[e].alive
  PROVE  MessageTypes' /\ HeldRight' /\ ListsRight'
<1> DEFINE m == Head(queue[e].flushed)
<1>1. /\ MessageTypes /\ HeldRight /\ ListsRight /\ IsInjective(Queued(e))
      /\ queue[e].flushed # <<>>
      /\ queue' = [queue EXCEPT ![e].flushed = Tail(@)]
      /\ UNCHANGED <<free_lists, idle_queue, asking, built, leaked>>
      /\ IF m = NULL
         THEN /\ pipe' = [pipe EXCEPT ![e].peer_terminated = TRUE]
              /\ UNCHANGED <<heap, got>>
         ELSE /\ heap' = [heap EXCEPT ![m].read = TRUE]
              /\ got' = [got EXCEPT ![e] = @ \cup {m}]
              /\ UNCHANGED pipe
  BY DEF MessageInv, ListsRight, QueueRight, Read
<1>2. /\ queue' \in [Ends -> QueueType]
      /\ \A g \in Ends : g # e => queue'[g] = queue[g]
      /\ m \in Members(Queued(e)) /\ m \in Messages \cup {NULL}
      /\ Members(Queued(e)') = Members(Queued(e)) \ {m}
      /\ IsInjective(Queued(e)')
  BY <1>1, PopQueue
<1> HIDE DEF m
<1>3. pipe \in [Ends -> PipeType]
  BY DEF MessageInv, LifeInv
<1>4. \A g \in Ends : /\ pipe'[g].terminating = pipe[g].terminating
                      /\ pipe'[g].terminated = pipe[g].terminated
  BY <1>1, <1>3 DEF PipeType
<1>5. ASSUME NEW g \in Ends PROVE QueueRight(g)'
  <2>1. QueueRight(g) /\ Other(g) \in Ends
    BY <1>1, TwoEnds DEF ListsRight
  <2>2. Members(Queued(g)') \subseteq Members(Queued(g)) /\ IsInjective(Queued(g)')
    BY <1>2, <2>1 DEF Queued, QueueRight
  <2>3. QED
    BY <1>4, <2>1, <2>2 DEF QueueRight
<1>6. ASSUME HeldRight', KeepsIndex, got' \in [Ends -> SUBSET Messages]
      PROVE  MessageTypes' /\ HeldRight' /\ ListsRight'
  <2>1. MessageTypes'
    BY <1>1, <1>2, <1>6 DEF MessageTypes
  <2>2. ASSUME NEW g \in Ends
        PROVE  IsInjective(idle_queue'[g]) /\ FreeRight(g)' /\ AskRight(g)'
    BY <1>1, <1>6, RestStays
  <2>3. QED
    BY <1>5, <1>6, <2>1, <2>2 DEF ListsRight
<1>7. CASE m = NULL
  <2>1. UNCHANGED <<heap, got>>
    BY <1>1, <1>7
  <2>2. ASSUME NEW g \in Ends, NEW q \in Places PROVE Held(g)'[q] = Held(g)[q]
    <3>1. CASE g = e /\ q = "queue"
      BY <1>2, <1>7, <3>1, PlaceIs DEF Held, Queued
    <3>2. CASE g # e \/ q # "queue"
      BY <1>1, <1>2, <2>1, <3>2, PlaceStays DEF Places
    <3>3. QED
      BY <3>1, <3>2
  <2>3. HeldRight'
    BY <1>1, <2>1, <2>2 DEF HeldRight
  <2>4. KeepsIndex
    BY <2>1 DEF KeepsIndex
  <2>5. QED
    BY <1>1, <1>6, <2>1, <2>3, <2>4 DEF MessageTypes
<1>8. CASE m # NULL
  <2>1. /\ heap' = [heap EXCEPT ![m].read = TRUE]
        /\ got' = [got EXCEPT ![e] = @ \cup {m}]
        /\ m \in Messages
    BY <1>1, <1>2, <1>8
  <2>2. /\ got' \in [Ends -> SUBSET Messages] /\ got'[e] = got[e] \cup {m}
        /\ \A g \in Ends : g # e => got'[g] = got[g]
    BY <1>1, <2>1 DEF MessageTypes
  <2>3. "got" \in Places /\ "queue" \in Places /\ "got" # "queue"
    BY DEF Places
  <2>4. /\ m \in Held(e)["queue"] /\ Held(e)'["queue"] = Held(e)["queue"] \ {m}
        /\ Held(e)'["got"] = Held(e)["got"] \cup {m}
    BY <1>2, <1>8, <2>2, PlaceIs DEF Held, Queued
  <2>5. m \in DOMAIN heap /\ PlaceRight(e, "queue", heap[m]) /\ RecordRight(heap[m])
    BY <1>1, <2>3, <2>4, NotElsewhere
  <2>6. /\ DOMAIN heap' = DOMAIN heap
        /\ \A n \in DOMAIN heap \ {m} : heap'[n] = heap[n]
        /\ heap'[m] = [heap[m] EXCEPT !.read = TRUE]
    BY <2>1, <2>5
  <2>7. /\ RecordRight(heap'[m]) /\ heap'[m].index = heap[m].index
        /\ heap'[m].origin = heap[m].origin /\ heap'[m].read = TRUE
    BY <2>5, <2>6, ReadStays
  <2>8. PlaceRight(e, "got", heap'[m])
    BY <2>5, <2>7 DEF PlaceRight
  <2>9. ASSUME NEW g \in Ends, NEW r \in Places,
               g # e \/ r # "queue", g # e \/ r # "got"
        PROVE  Held(g)'[r] = Held(g)[r]
    BY <1>1, <1>2, <2>2, <2>9, PlaceStays DEF Places
  <2>10. HeldRight'
    <3>1. OneMoved(m, e, "queue", e, "got")
      BY <2>3, <2>4, <2>6, <2>7, <2>8, <2>9 DEF OneMoved
    <3>2. QED
      BY <1>1, <2>3, <3>1, OneMoves
  <2>11. KeepsIndex
    BY <2>6, <2>7 DEF KeepsIndex
  <2>12. QED
    BY <1>6, <2>2, <2>10, <2>11
<1>9. QED
  BY <1>7, <1>8

(* Terminate writes the null message behind the others.                     *)
LEMMA TerminateStep ==
  ASSUME MessageInv, NEW e \in Ends, Terminate(e), queue[Other(e)].alive, pipe[e].peer
  PROVE  MessageTypes' /\ HeldRight' /\ ListsRight'
<1> DEFINE f == Other(e)
<1>1. /\ MessageTypes /\ HeldRight /\ ListsRight /\ QueueRight(f)
      /\ ~pipe[e].terminating /\ ~pipe[e].terminated
      /\ queue' = [queue EXCEPT ![f] = Flushed(@, NULL)]
      /\ pipe' = [pipe EXCEPT ![e].terminating = TRUE]
      /\ UNCHANGED <<heap, free_lists, idle_queue, asking, built, got, leaked>>
      /\ f \in Ends /\ f # e /\ Other(f) = e
  BY TwoEnds DEF MessageInv, ListsRight, Terminate, Ready, allocatorVars
<1> HIDE DEF f
<1>2. /\ queue' \in [Ends -> QueueType]
      /\ \A g \in Ends : g # f => queue'[g] = queue[g]
      /\ Queued(f) \in Seq(Messages \cup {NULL})
      /\ Queued(f)' = Append(Queued(f), NULL)
  BY <1>1, PushQueue
<1>3. NULL \notin Members(Queued(f))
  BY <1>1 DEF QueueRight
<1>4. /\ Members(Queued(f)') = Members(Queued(f)) \cup {NULL}
      /\ IsInjective(Queued(f)')
  <2>1. NULL \in Messages \cup {NULL} /\ IsInjective(Queued(f))
    BY <1>1 DEF QueueRight
  <2>2. QED
    BY <1>2, <1>3, <2>1, AtTheBack
<1>5. ASSUME NEW g \in Ends, NEW q \in Places PROVE Held(g)'[q] = Held(g)[q]
  <2>1. CASE g = f /\ q = "queue"
    BY <1>4, <2>1, PlaceIs DEF Held, Queued
  <2>2. CASE g # f \/ q # "queue"
    BY <1>1, <1>2, <2>2, PlaceStays DEF Places
  <2>3. QED
    BY <2>1, <2>2
<1>6. HeldRight' /\ MessageTypes' /\ KeepsIndex
  <2>1. MessageTypes'
    BY <1>1, <1>2 DEF MessageTypes
  <2>2. HeldRight'
    BY <1>1, <1>5 DEF HeldRight
  <2>3. QED
    BY <1>1, <2>1, <2>2 DEF KeepsIndex
<1>7. pipe \in [Ends -> PipeType]
  BY DEF MessageInv, LifeInv
<1>8. /\ \A g \in Ends : /\ pipe[g].terminating => pipe'[g].terminating
                         /\ pipe'[g].terminated = pipe[g].terminated
      /\ pipe'[e].terminating
  BY <1>1, <1>7 DEF PipeType
<1>9. ASSUME NEW g \in Ends
      PROVE  QueueRight(g)' /\ IsInjective(idle_queue'[g]) /\ FreeRight(g)' /\ AskRight(g)'
  <2>1. IsInjective(idle_queue'[g]) /\ FreeRight(g)' /\ AskRight(g)'
    BY <1>1, <1>6, RestStays
  <2>2. CASE g = f
    BY <1>1, <1>4, <1>8, <2>1, <2>2 DEF QueueRight
  <2>3. CASE g # f
    <3>1. QueueRight(g) /\ Queued(g)' = Queued(g) /\ Other(g) \in Ends
      BY <1>1, <1>2, <2>3, TwoEnds DEF ListsRight, Queued
    <3>2. QueueRight(g)'
      BY <1>8, <3>1 DEF QueueRight
    <3>3. QED
      BY <2>1, <3>2
  <2>4. QED
    BY <2>2, <2>3
<1>10. QED
  BY <1>6, <1>9 DEF ListsRight

(* The destructors: what is in the queue of an end that is destroyed leaks, *)
(* what its allocator has is deleted.                                       *)
LEMMA Destroyed ==
  ASSUME MessageTypes, HeldRight, NEW p, Drop(p), NEW ends,
         ends = {e \in Ends : pipe[e].alive /\ Gone(p, e)}
  PROVE  /\ MessageTypes' /\ HeldRight' /\ KeepsIndex
         /\ UNCHANGED asking
         /\ \A e \in ends : /\ Queued(e)' = <<>> /\ idle_queue'[e] = <<>>
                            /\ \A i \in Lists : free_lists'[e][i] = <<>>
         /\ \A e \in Ends \ ends : /\ Queued(e)' = Queued(e) /\ idle_queue'[e] = idle_queue[e]
                                   /\ free_lists'[e] = free_lists[e]
<1> DEFINE M == UNION {Kept(e) : e \in ends}
           In(e) == Members(queue[e].flushed \o queue[e].incomplete) \ {NULL}
<1>1. /\ queue' = [e \in Ends |-> IF e \in ends THEN DeletedQueue ELSE queue[e]]
      /\ leaked' = [e \in Ends |-> IF e \in ends THEN leaked[e] \cup In(e) ELSE leaked[e]]
      /\ heap' = Deleted(M)
      /\ free_lists' = [e \in Ends |-> IF e \in ends THEN [i \in Lists |-> <<>>]
                                       ELSE free_lists[e]]
      /\ idle_queue' = [e \in Ends |-> IF e \in ends THEN <<>> ELSE idle_queue[e]]
      /\ UNCHANGED <<asking, built, got>>
      /\ ends \subseteq Ends
  BY DEF Drop, DestroyAllocators
<1>2. /\ DOMAIN heap' = DOMAIN heap \ M /\ KeepsIndex
      /\ \A n \in DOMAIN heap \ M : heap'[n] = heap[n]
  BY <1>1, DeletedFacts
<1>3. ASSUME NEW e \in Ends
      PROVE  /\ In(e) = Held(e)["queue"]
             /\ Kept(e) = Held(e)["idle"] \cup Held(e)["free"]
  BY PlaceIs DEF Queued, Kept
<1> HIDE DEF In
<1>4. ASSUME NEW e \in ends
      PROVE  /\ Queued(e)' = <<>> /\ idle_queue'[e] = <<>>
             /\ \A i \in Lists : free_lists'[e][i] = <<>>
             /\ Held(e)'["queue"] = {} /\ Held(e)'["idle"] = {} /\ Held(e)'["free"] = {}
             /\ Held(e)'["leaked"] = Held(e)["leaked"] \cup Held(e)["queue"]
             /\ Held(e)'["built"] = Held(e)["built"] /\ Held(e)'["got"] = Held(e)["got"]
  <2>1. e \in Ends
    BY <1>1
  <2>2. /\ queue'[e].flushed = <<>> /\ queue'[e].incomplete = <<>> /\ idle_queue'[e] = <<>>
        /\ \A i \in Lists : free_lists'[e][i] = <<>>
        /\ leaked'[e] = leaked[e] \cup In(e) /\ built'[e] = built[e] /\ got'[e] = got[e]
    BY <1>1, <2>1 DEF DeletedQueue
  <2>3. Queued(e)' = <<>>
    BY <2>2 DEF Queued
  <2>4. Held(e)'["queue"] = {} /\ Held(e)'["idle"] = {} /\ Held(e)'["free"] = {}
    BY <2>2, <2>3, Nothing DEF Held
  <2>5. /\ Held(e)'["leaked"] = Held(e)["leaked"] \cup Held(e)["queue"]
        /\ Held(e)'["built"] = Held(e)["built"] /\ Held(e)'["got"] = Held(e)["got"]
    BY <1>3, <2>1, <2>2, PlaceIs DEF Held
  <2>6. QED
    BY <2>2, <2>3, <2>4, <2>5
<1>5. ASSUME NEW e \in Ends \ ends
      PROVE  /\ Queued(e)' = Queued(e) /\ idle_queue'[e] = idle_queue[e]
             /\ free_lists'[e] = free_lists[e]
             /\ \A q \in Places : Held(e)'[q] = Held(e)[q]
  <2>1. /\ queue'[e] = queue[e] /\ idle_queue'[e] = idle_queue[e]
        /\ free_lists'[e] = free_lists[e] /\ leaked'[e] = leaked[e]
        /\ built'[e] = built[e] /\ got'[e] = got[e]
    BY <1>1
  <2>2. QED
    BY <2>1, PlaceStays DEF Places, Queued
<1>6. MessageTypes'
  <2>1. /\ DeletedQueue \in QueueType /\ [i \in Lists |-> <<>>] \in [Lists -> Seq(Messages)]
        /\ <<>> \in Seq(Messages)
    BY DEF DeletedQueue, QueueType
  <2>2. \A e \in Ends : In(e) \subseteq Messages
    BY <1>3 DEF HeldRight, Places
  <2> HIDE DEF M
  <2>3. queue' \in [Ends -> QueueType] /\ leaked' \in [Ends -> SUBSET Messages]
    BY <1>1, <2>1, <2>2 DEF MessageTypes
  <2>4. /\ free_lists' \in [Ends -> [Lists -> Seq(Messages)]]
        /\ idle_queue' \in [Ends -> Seq(Messages)]
    BY <1>1, <2>1 DEF MessageTypes
  <2>5. QED
    BY <1>1, <2>3, <2>4 DEF MessageTypes
<1>7. {"queue", "idle", "free", "leaked"} \subseteq Places
  BY DEF Places
\* A message of the end e that is still there was at the same place, or in the queue.
<1>8. ASSUME NEW e \in Ends, NEW q \in Places, NEW m \in Held(e)'[q]
      PROVE  \E r \in Places :
               /\ m \in Held(e)[r] /\ (r = q \/ (r = "queue" /\ q = "leaked" /\ e \in ends))
               /\ e \in ends => r \notin {"idle", "free"} /\ (r = "queue" => q = "leaked")
  <2>1. CASE e \in ends
    BY <1>4, <1>7, <1>8, <2>1 DEF Places
  <2>2. CASE e \notin ends
    BY <1>5, <1>8, <2>2
  <2>3. QED
    BY <2>1, <2>2
<1>9. ASSUME NEW e \in Ends, NEW q \in Places, NEW m \in Held(e)[q],
             e \in ends => q \notin {"idle", "free"}
      PROVE  m \notin M
  BY <1>1, <1>3, <1>7, <1>9 DEF HeldRight
<1>10. ASSUME NEW e \in Ends, NEW q \in Places, NEW m \in Held(e)[q], m \notin M
       PROVE  e \in ends => q \notin {"idle", "free"}
  BY <1>3, <1>10
<1> HIDE DEF M
<1>11. HeldRight'
  <2>1. DOMAIN heap' \subseteq Messages /\ \A m \in DOMAIN heap' : RecordRight(heap'[m])
    BY <1>2 DEF HeldRight
  <2>2. ASSUME NEW m \in DOMAIN heap' PROVE \E e \in Ends, q \in Places : m \in Held(e)'[q]
    <3>1. PICK e \in Ends, q \in Places : m \in Held(e)[q]
      BY <1>2, <2>2 DEF HeldRight
    <3>2. e \in ends => q \notin {"idle", "free"}
      BY <1>2, <1>10, <2>2, <3>1
    <3>3. CASE e \in ends
      BY <1>4, <1>7, <3>1, <3>2, <3>3 DEF Places
    <3>4. CASE e \notin ends
      BY <1>5, <3>1, <3>4
    <3>5. QED
      BY <3>3, <3>4
  <2>3. ASSUME NEW e \in Ends, NEW q \in Places, NEW m \in Held(e)'[q]
        PROVE  m \in DOMAIN heap' /\ PlaceRight(e, q, heap'[m])
    <3>1. PICK r \in Places :
            /\ m \in Held(e)[r] /\ (r = q \/ (r = "queue" /\ q = "leaked" /\ e \in ends))
            /\ e \in ends => r \notin {"idle", "free"} /\ (r = "queue" => q = "leaked")
      BY <1>8, <2>3
    <3>2. QED
      BY <1>2, <1>9, <3>1 DEF HeldRight, PlaceRight
  <2>4. ASSUME NEW e \in Ends, NEW f \in Ends, NEW q \in Places, NEW r \in Places,
               NEW m \in Held(e)'[q], m \in Held(f)'[r]
        PROVE  e = f /\ q = r
    <3>1. PICK a \in Places :
            /\ m \in Held(e)[a] /\ (a = q \/ (a = "queue" /\ q = "leaked" /\ e \in ends))
            /\ e \in ends => a \notin {"idle", "free"} /\ (a = "queue" => q = "leaked")
      BY <1>8, <2>4
    <3>2. PICK b \in Places :
            /\ m \in Held(f)[b] /\ (b = r \/ (b = "queue" /\ r = "leaked" /\ f \in ends))
            /\ f \in ends => b \notin {"idle", "free"} /\ (b = "queue" => r = "leaked")
      BY <1>8, <2>4
    <3>3. e = f /\ a = b
      BY <3>1, <3>2 DEF HeldRight
    <3>4. QED
      BY <3>1, <3>2, <3>3
  <2>5. QED
    BY <2>1, <2>2, <2>3, <2>4 DEF HeldRight
<1>12. QED
  BY <1>1, <1>2, <1>4, <1>5, <1>6, <1>11

(* A step that releases references, with the ends that it destroys.         *)
LEMMA DropMessages ==
  ASSUME MessageInv, NEW p \in [Ends -> PipeType], Drop(p),
         \A e \in Ends : pipe[e].terminating \/ pipe[e].terminated
                           => p[e].terminating \/ p[e].terminated
  PROVE  MessageTypes' /\ HeldRight' /\ ListsRight'
<1> DEFINE ends == {e \in Ends : pipe[e].alive /\ Gone(p, e)}
<1>1. MessageTypes /\ HeldRight /\ ListsRight
  BY DEF MessageInv
<1>2. pipe' = [e \in Ends |->
                 IF e \in ends THEN [p[e] EXCEPT !.alive = FALSE, !.peer = FALSE] ELSE p[e]]
  BY DEF Drop
<1>3. ASSUME NEW e \in Ends
      PROVE  pipe[e].terminating \/ pipe[e].terminated
               => pipe'[e].terminating \/ pipe'[e].terminated
  <2>1. p[e] \in PipeType
    OBVIOUS
  <2> HIDE DEF ends
  <2>2. pipe'[e].terminating = p[e].terminating /\ pipe'[e].terminated = p[e].terminated
    BY <1>2, <2>1 DEF PipeType
  <2>3. QED
    BY <2>2
<1> HIDE DEF ends
<1>4. /\ MessageTypes' /\ HeldRight' /\ KeepsIndex
      /\ UNCHANGED asking
      /\ \A e \in ends : /\ Queued(e)' = <<>> /\ idle_queue'[e] = <<>>
                         /\ \A i \in Lists : free_lists'[e][i] = <<>>
      /\ \A e \in Ends \ ends : /\ Queued(e)' = Queued(e) /\ idle_queue'[e] = idle_queue[e]
                                /\ free_lists'[e] = free_lists[e]
  BY <1>1, Destroyed DEF ends
<1>5. ASSUME NEW e \in Ends
      PROVE  QueueRight(e)' /\ IsInjective(idle_queue'[e]) /\ FreeRight(e)' /\ AskRight(e)'
  <2>1. AskRight(e)'
    BY <1>1, <1>4, RestStays
  <2>2. CASE e \in ends
    <3>1. QueueRight(e)' /\ IsInjective(idle_queue'[e]) /\ FreeRight(e)'
      BY <1>4, <2>2, Nothing DEF QueueRight, FreeRight
    <3>2. QED
      BY <2>1, <3>1
  <2>3. CASE e \notin ends
    <3>1. QueueRight(e) /\ Queued(e)' = Queued(e) /\ Other(e) \in Ends
      BY <1>1, <1>4, <2>3, TwoEnds DEF ListsRight
    <3>2. QueueRight(e)'
      BY <1>3, <3>1 DEF QueueRight
    <3>3. IsInjective(idle_queue'[e]) /\ FreeRight(e)'
      BY <1>1, <1>4, <2>3, RestStays
    <3>4. QED
      BY <2>1, <3>2, <3>3
  <2>4. QED
    BY <2>2, <2>3
<1>6. QED
  BY <1>4, <1>5 DEF ListsRight

(* Allocate with a message that need not be waited for, and with one after. *)
LEMMA AllocateStep ==
  ASSUME MessageInv, NEW e \in Ends, NEW capacity \in Capacities, NEW m \in Messages,
         Allocate(e, capacity, m)
  PROVE  MessageTypes' /\ HeldRight' /\ ListsRight'
<1>1. /\ built' = [built EXCEPT ![e] = @ \cup {m}]
      /\ UNCHANGED <<pipe, idle_queue, queue, got, leaked>> /\ asking' = asking
  BY DEF Allocate, AllocateBig, AllocateFree, UnchangedButOwners
<1>2. CASE AllocateBig(e, capacity, m)
  BY <1>1, <1>2, NewStep DEF AllocateBig
<1>3. CASE AllocateFree(e, capacity, m)
  BY <1>1, <1>3, TakeStep DEF AllocateFree
<1>4. QED
  BY <1>2, <1>3 DEF Allocate

(* The same after the idle queue was emptied.                               *)
LEMMA AllocatedStep ==
  ASSUME MessageInv, NEW e \in Ends, NEW m \in Messages, Allocated(e, m)
  PROVE  MessageTypes' /\ HeldRight' /\ ListsRight'
<1> DEFINE capacity == asking[e]
<1>1. /\ built' = [built EXCEPT ![e] = @ \cup {m}]
      /\ UNCHANGED <<pipe, idle_queue, queue, got, leaked>>
      /\ asking' = [asking EXCEPT ![e] = NULL]
      /\ asking[e] # NULL
      /\ IF free_lists[e][ClassOf[capacity]] # <<>>
         THEN m = Head(free_lists[e][ClassOf[capacity]]) /\ Take(e, capacity)
         ELSE New(e, capacity, m)
  BY DEF Allocated, AllocateRest, UnchangedButOwners
<1>2. capacity \in Capacities /\ ClassOf[capacity] # -1
  BY <1>1 DEF MessageInv, MessageTypes, ListsRight, AskRight
<1> HIDE DEF capacity
<1>3. CASE free_lists[e][ClassOf[capacity]] # <<>>
  BY <1>1, <1>2, <1>3, TakeStep
<1>4. CASE free_lists[e][ClassOf[capacity]] = <<>>
  BY <1>1, <1>2, <1>4, NewStep
<1>5. QED
  BY <1>3, <1>4

(* A call on what is gone changes nothing else.                             *)
LEMMA FaultMessages ==
  ASSUME MessageInv, NEW e \in Ends, NEW call, Faults(call, e)
  PROVE  MessageTypes' /\ HeldRight' /\ ListsRight'
<1>1. UNCHANGED <<heap, free_lists, idle_queue, pipe, queue, built, got, leaked, asking>>
  BY DEF Faults, allocatorVars
<1>2. asking' \in [Ends -> Capacities \cup {NULL}] /\ \A f \in Ends : AskRight(f)'
  BY <1>1 DEF MessageInv, MessageTypes, ListsRight, AskRight
<1>3. QED
  BY <1>1, <1>2, NothingMoves

(* At the beginning there is no message.                                    *)
LEMMA InitMessages == Init => MessageInv
<1> SUFFICES ASSUME Init PROVE MessageInv
  OBVIOUS
<1>1. /\ heap = [m \in {} |-> 0]
      /\ free_lists = [e \in Ends |-> [i \in Lists |-> <<>>]]
      /\ idle_queue = [e \in Ends |-> <<>>]
      /\ asking = [e \in Ends |-> NULL]
      /\ queue = [e \in Ends |-> [flushed |-> <<>>, incomplete |-> <<>>, alive |-> TRUE]]
      /\ built = [e \in Ends |-> {}] /\ got = [e \in Ends |-> {}] /\ leaked = [e \in Ends |-> {}]
  BY DEF Init, AllocatorInit
<1>2. MessageTypes
  <2>1. [flushed |-> <<>>, incomplete |-> <<>>, alive |-> TRUE] \in QueueType
    BY DEF QueueType
  <2>2. QED
    BY <1>1, <2>1 DEF MessageTypes
<1>3. ASSUME NEW e \in Ends PROVE Queued(e) = <<>>
  BY <1>1 DEF Queued
<1>4. ASSUME NEW e \in Ends, NEW q \in Places PROVE Held(e)[q] = {}
  BY <1>1, <1>3, Nothing, PlaceIs DEF Places
<1>5. HeldRight
  BY <1>1, <1>4 DEF HeldRight
<1>6. ListsRight
  BY <1>1, <1>3, Nothing DEF ListsRight, QueueRight, FreeRight, AskRight
<1>7. QED
  BY <1>2, <1>5, <1>6, InitLife DEF MessageInv

(* Every step.                                                              *)
LEMMA NextMessages == MessageInv /\ [Next]_vars => MessageInv'
<1> SUFFICES ASSUME MessageInv, [Next]_vars PROVE MessageTypes' /\ HeldRight' /\ ListsRight'
  BY NextLife DEF MessageInv
<1>1. CASE UNCHANGED vars
  <2>1. UNCHANGED <<heap, free_lists, idle_queue, pipe, queue, built, got, leaked, asking>>
    BY <1>1 DEF vars, allocatorVars
  <2>2. asking' \in [Ends -> Capacities \cup {NULL}] /\ \A f \in Ends : AskRight(f)'
    BY <2>1 DEF MessageInv, MessageTypes, ListsRight, AskRight
  <2>3. QED
    BY <2>1, <2>2, NothingMoves
<1>2. ASSUME NEW e \in Ends, EndNext(e) PROVE MessageTypes' /\ HeldRight' /\ ListsRight'
  <2>1. ASSUME NEW capacity \in Capacities, NEW m \in Messages, Allocate(e, capacity, m)
        PROVE  MessageTypes' /\ HeldRight' /\ ListsRight'
    BY <2>1, AllocateStep
  <2>2. ASSUME NEW capacity \in Capacities, AllocateWaits(e, capacity)
        PROVE  MessageTypes' /\ HeldRight' /\ ListsRight'
    BY <2>2, WaitStep
  <2>3. ASSUME Consume(e) PROVE MessageTypes' /\ HeldRight' /\ ListsRight'
    BY <2>3, ConsumeStep
  <2>4. ASSUME NEW m \in Messages, Allocated(e, m)
        PROVE  MessageTypes' /\ HeldRight' /\ ListsRight'
    BY <2>4, AllocatedStep
  <2>5. ASSUME NEW m \in Messages, Releasemessage_t(e, m)
        PROVE  MessageTypes' /\ HeldRight' /\ ListsRight'
    BY <2>5, ReleaseStep
  <2>6. ASSUME NEW m \in Messages, Recyclemessage_t(e, m)
        PROVE  MessageTypes' /\ HeldRight' /\ ListsRight'
    <3>1. CASE pipe[e].peer
      BY <2>6, <3>1, RecycleStep
    <3>2. CASE ~pipe[e].peer
      BY <2>6, <3>2, FaultMessages DEF Recyclemessage_t
    <3>3. QED
      BY <3>1, <3>2
  <2>7. ASSUME NEW m \in Messages, NEW incomplete \in BOOLEAN, Write(e, m, incomplete)
        PROVE  MessageTypes' /\ HeldRight' /\ ListsRight'
    <3>1. queue[Other(e)].alive /\ pipe[e].peer
      BY <2>7, ReadyEnd DEF Write, Ready, MessageInv
    <3>2. QED
      BY <2>7, <3>1, WriteStep
  <2>8. ASSUME Unwrite(e) PROVE MessageTypes' /\ HeldRight' /\ ListsRight'
    <3>1. CASE queue[Other(e)].alive
      BY <2>8, <3>1, UnwriteStep
    <3>2. CASE ~queue[Other(e)].alive
      BY <2>8, <3>2, FaultMessages DEF Unwrite
    <3>3. QED
      BY <3>1, <3>2
  <2>9. ASSUME Read(e) PROVE MessageTypes' /\ HeldRight' /\ ListsRight'
    <3>1. queue[e].alive
      BY <2>9, ReadyEnd DEF Read, Ready, MessageInv
    <3>2. QED
      BY <2>9, <3>1, ReadStep
  <2>10. ASSUME Terminate(e) PROVE MessageTypes' /\ HeldRight' /\ ListsRight'
    <3>1. queue[Other(e)].alive /\ pipe[e].peer
      BY <2>10, ReadyEnd DEF Terminate, Ready, MessageInv
    <3>2. QED
      BY <2>10, <3>1, TerminateStep
  <2>11. ASSUME TerminateReset(e) PROVE MessageTypes' /\ HeldRight' /\ ListsRight'
    <3> DEFINE p == [pipe EXCEPT ![e].terminating = FALSE, ![e].terminated = TRUE,
                                 ![e].peer = FALSE]
               q == [pipe[e] EXCEPT !.terminating = FALSE, !.terminated = TRUE, !.peer = FALSE]
    <3>1. Drop(p)
      BY <2>11 DEF TerminateReset
    <3>2. pipe \in [Ends -> PipeType] /\ pipe[e] \in PipeType
      BY DEF MessageInv, LifeInv
    <3>3. q \in PipeType /\ q.terminated
      BY <3>2 DEF PipeType
    <3>4. p = [pipe EXCEPT ![e] = q]
      BY <3>2 DEF PipeType
    <3> HIDE DEF p, q
    <3>5. /\ p \in [Ends -> PipeType]
          /\ \A f \in Ends : pipe[f].terminating \/ pipe[f].terminated
                               => p[f].terminating \/ p[f].terminated
      BY <3>2, <3>3, <3>4
    <3>6. QED
      BY <3>1, <3>5, DropMessages
  <2>12. ASSUME DropHandle(e) PROVE MessageTypes' /\ HeldRight' /\ ListsRight'
    <3> DEFINE p == [pipe EXCEPT ![e].handle = FALSE]
    <3>1. Drop(p)
      BY <2>12 DEF DropHandle
    <3>2. pipe \in [Ends -> PipeType]
      BY DEF MessageInv, LifeInv
    <3>3. /\ p \in [Ends -> PipeType]
          /\ \A f \in Ends : pipe[f].terminating \/ pipe[f].terminated
                               => p[f].terminating \/ p[f].terminated
      BY <3>2 DEF PipeType
    <3> HIDE DEF p
    <3>4. QED
      BY <3>1, <3>3, DropMessages
  <2>13. QED
    BY <1>2, <2>1, <2>2, <2>3, <2>4, <2>5, <2>6, <2>7, <2>8, <2>9, <2>10, <2>11, <2>12
       DEF EndNext
<1>3. QED
  BY <1>1, <1>2 DEF Next

(* What MessageInv says of the types.                                       *)
LEMMA TypesFollow == MessageInv => TypeOK
<1> SUFFICES ASSUME MessageInv PROVE TypeOK
  OBVIOUS
<1>1. /\ LifeInv /\ MessageTypes /\ HeldRight
      /\ pipe \in [Ends -> PipeType] /\ \A e \in Ends : EndInv(e)
  BY DEF MessageInv, LifeInv
<1>2. DOMAIN heap \subseteq Messages /\ \A m \in DOMAIN heap : heap[m] \in MessageType
  BY <1>1 DEF HeldRight, RecordRight
<1>3. ASSUME NEW e \in Ends
      PROVE  /\ \A i \in Lists : free_lists[e][i] \in Seq(Messages)
             /\ idle_queue[e] \in Seq(Messages)
             /\ asking[e] \in Capacities \cup {NULL}
             /\ queue[e].flushed \in Seq(Messages \cup {NULL})
             /\ queue[e].incomplete \in Seq(Messages)
             /\ built[e] \cup got[e] \cup leaked[e] \subseteq Messages
  BY <1>1 DEF MessageTypes, QueueType
<1>4. ASSUME NEW e \in Ends
      PROVE  /\ \A field \in DOMAIN pipe[e] : pipe[e][field] \in BOOLEAN
             /\ queue[e].alive <=> pipe[e].alive
             /\ Referred(pipe, e) => pipe[e].alive
  <2>1. pipe[e] \in PipeType /\ EndInv(e)
    BY <1>1
  <2>2. \A field \in DOMAIN pipe[e] : pipe[e][field] \in BOOLEAN
    BY <2>1 DEF PipeType
  <2>3. QED
    BY <2>1, <2>2 DEF EndInv, PipeType
<1>5. UNION {built[e] \cup got[e] \cup leaked[e] : e \in Ends} \subseteq Messages
  BY <1>3
<1>6. QED
  BY <1>2, <1>3, <1>4, <1>5 DEF TypeOK

(* The owners of a message, counted.                                        *)
LEMMA OwnersCounted ==
  ASSUME MessageInv, NEW m \in Messages
  PROVE  Cardinality(Owners(m)) = IF m \in DOMAIN heap THEN 1 ELSE 0
<1>1. HeldRight
  BY DEF MessageInv
<1>2. CASE m \in DOMAIN heap
  <2>1. PICK e \in Ends, p \in Places : m \in Held(e)[p]
    BY <1>1, <1>2 DEF HeldRight
  <2>2. <<e, p>> \in Owners(m)
    BY <2>1 DEF Owners
  <2>3. ASSUME NEW owner \in Owners(m) PROVE owner = <<e, p>>
    <3>1. /\ owner \in Ends \X Places /\ owner = <<owner[1], owner[2]>>
          /\ m \in Held(owner[1])[owner[2]]
      BY <2>3 DEF Owners
    <3>2. owner[1] = e /\ owner[2] = p
      BY <1>1, <2>1, <3>1 DEF HeldRight
    <3>3. QED
      BY <3>1, <3>2
  <2>4. Owners(m) = {<<e, p>>}
    BY <2>2, <2>3
  <2>5. QED
    BY <1>2, <2>4, FS_Singleton
<1>3. CASE m \notin DOMAIN heap
  <2>1. Owners(m) = {}
    BY <1>1, <1>3 DEF HeldRight, Owners
  <2>2. QED
    BY <1>3, <2>1, FS_EmptySet
<1>4. QED
  BY <1>2, <1>3

(* What MessageInv says of the places.                                      *)
LEMMA OwnersFollow == MessageInv => EveryMessageHasOneOwner
<1> SUFFICES ASSUME MessageInv PROVE EveryMessageHasOneOwner
  OBVIOUS
<1>1. HeldRight /\ ListsRight
  BY DEF MessageInv
<1>2. ASSUME NEW e \in Ends
      PROVE  /\ IsInjective(Queued(e)) /\ IsInjective(idle_queue[e])
             /\ \A i \in Lists : /\ IsInjective(free_lists[e][i])
                                 /\ \A m \in Members(free_lists[e][i]) : heap[m].index = i
  BY <1>1 DEF ListsRight, QueueRight, FreeRight
<1>3. ASSUME NEW e \in Ends
      PROVE  /\ \A m \in Kept(e) : heap[m].origin = e
             /\ \A m \in Members(idle_queue[e]) : heap[m].index # -1
  <2>1. "idle" \in Places /\ "free" \in Places
    BY DEF Places
  <2>2. Kept(e) = Held(e)["idle"] \cup Held(e)["free"] /\ Members(idle_queue[e]) = Held(e)["idle"]
    BY PlaceIs DEF Kept
  <2>3. QED
    BY <1>1, <2>1, <2>2 DEF HeldRight, PlaceRight
<1>4. QED
  BY <1>2, <1>3, OwnersCounted DEF EveryMessageHasOneOwner

(* The size of a message, and what was in it before.                        *)
LEMMA SizesFollow == MessageInv => MessageFits /\ StaleWasRead
<1> SUFFICES ASSUME MessageInv PROVE MessageFits /\ StaleWasRead
  OBVIOUS
<1>1. HeldRight
  BY DEF MessageInv
<1>2. ASSUME NEW m \in DOMAIN heap
      PROVE  /\ heap[m].asked <= heap[m].capacity
             /\ heap[m].index # -1 => heap[m].index = FirstClassAbove(heap[m].asked)
  <2>1. RecordRight(heap[m])
    BY <1>1 DEF HeldRight
  <2> DEFINE v == heap[m].asked
  <2>2. /\ v \in Capacities /\ v \in Nat /\ heap[m].index = ClassOf[v]
        /\ heap[m].capacity = IF ClassOf[v] = -1 THEN v ELSE 2^(kAllocateStart + ClassOf[v] + 1)
    BY <2>1, AllocatorAssumption DEF RecordRight
  <2> HIDE DEF v
  <2>3. ClassOf[v] # -1 => /\ ClassOf[v] = FirstClassAbove(v)
                           /\ v <= 2^(kAllocateStart + ClassOf[v] + 1)
    BY <2>2, ClassFacts
  <2>4. CASE ClassOf[v] = -1
    <3>1. heap[m].capacity = v /\ heap[m].asked = v /\ heap[m].index = -1
      BY <2>2, <2>4 DEF v
    <3>2. QED
      BY <2>2, <3>1
  <2>5. CASE ClassOf[v] # -1
    <3> DEFINE size == 2^(kAllocateStart + ClassOf[v] + 1)
    <3>1. heap[m].capacity = size /\ v <= size /\ ClassOf[v] = FirstClassAbove(v)
      BY <2>2, <2>3, <2>5
    <3> HIDE DEF size
    <3>2. QED
      BY <2>2, <3>1 DEF v
  <2>6. QED
    BY <2>4, <2>5
<1>3. ASSUME NEW e \in Ends, NEW i \in Lists, NEW m \in Members(free_lists[e][i]), heap[m].dirty
      PROVE  heap[m].read
  <2>1. "free" \in Places /\ m \in Held(e)["free"]
    BY <1>3, PlaceIs DEF Places
  <2>2. QED
    BY <1>1, <1>3, <2>1 DEF HeldRight, PlaceRight
<1>4. QED
  BY <1>2, <1>3 DEF MessageFits, StaleWasRead

-----------------------------------------------------------------------------
(* For every capacity up to 2^22: the multiplication with the de Bruijn     *)
(* constant and the table find the first size class whose messages, of      *)
(* 2^(5 + index + 1) bytes, are larger than the capacity.  So there is room, *)
(* and at a power of two from 64 up twice as much (message_allocator.cpp:   *)
(* 41-55, 70).                                                              *)
THEOREM AllocateFindsTheClass ==
  \A capacity \in Nat : capacity <= 2^22 =>
    /\ IndexOf(capacity) = FirstClassAbove(capacity)
    /\ capacity < 2^(kAllocateStart + IndexOf(capacity) + 1)
    /\ IndexOf(capacity) > 0 => 2^(kAllocateStart + IndexOf(capacity)) <= capacity
<1>1. TAKE capacity \in Nat
<1>2. HAVE capacity <= 2^22
<1> DEFINE i == IndexOf(capacity)
<1>3. i \in 0..17 /\ capacity < 2^(6 + i) /\ (i > 0 => 2^(5 + i) <= capacity)
  BY <1>2, SizeClasses
<1>4. i = FirstClassAbove(capacity)
  BY <1>2, ClassIsFirstAbove
<1> HIDE DEF i
<1>5. kAllocateStart + i + 1 = 6 + i /\ kAllocateStart + i = 5 + i
  BY <1>3 DEF kAllocateStart
<1>6. capacity < 2^(kAllocateStart + i + 1) /\ (i > 0 => 2^(kAllocateStart + i) <= capacity)
  BY <1>3, <1>5, Zenon
<1>7. QED
  BY <1>4, <1>6, Zenon DEF i

(* For all messages and capacities: what is known of a message depends only *)
(* on the place where it is, and it is at one place.                        *)
THEOREM MessagesAreRight == Spec => []MessageInv
BY InitMessages, NextMessages, PTL DEF Spec

(* For all messages and capacities: the types of the pair's variables.      *)
THEOREM PairTypes == Spec => []TypeOK
BY MessagesAreRight, TypesFollow, PTL

(* For all messages and capacities: every message on the heap is in one     *)
(* place, goes back to the allocator that made it (pipe.cpp:158-169), and   *)
(* is in its queue or list once.                                            *)
THEOREM OneOwner == Spec => []EveryMessageHasOneOwner
BY MessagesAreRight, OwnersFollow, PTL

(* For all messages and capacities: a message from Allocate has room for    *)
(* what was asked, whether it is new or from a free list, and, unless it is *)
(* too big to be cached, is in the first class with messages larger than that. *)
THEOREM MessagesFit == Spec => []MessageFits
BY MessagesAreRight, SizesFollow, PTL

(* For all messages and capacities: a message in a free list that was not   *)
(* cleared has been read by the peer.                                       *)
THEOREM OnlyReadIsStale == Spec => []StaleWasRead
BY MessagesAreRight, SizesFollow, PTL
=============================================================================
