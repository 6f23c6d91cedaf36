---------------------------- MODULE Session_proofs ----------------------------
(***************************************************************************)
(* Proofs about Session, for every word size, number of words and bound on *)
(* the packet numbers.                                                     *)
(***************************************************************************)
EXTENDS Session, FiniteSetTheorems, TLAPS

-----------------------------------------------------------------------------
(* Division with remainder.                                                *)

\* Quotient and remainder of a natural number, the arithmetic behind
\* set_bit, check_bit and clear_word.
LEMMA DivMod ==
    ASSUME NEW n \in Nat \ {0}, NEW a \in Nat
    PROVE  /\ a % n \in 0..(n - 1)
           /\ a \div n \in Nat
           /\ a = n * (a \div n) + (a % n)
OBVIOUS

\* ... and they are the only ones.
LEMMA DivModUnique ==
    ASSUME NEW n \in Nat \ {0}, NEW q \in Nat, NEW r \in 0..(n - 1)
    PROVE  (n * q + r) % n = r /\ (n * q + r) \div n = q
OBVIOUS

\* Two numbers less than n apart with the same remainder are equal: why N_BITS
\* consecutive packet numbers never share a bit.
LEMMA ModInjective ==
    ASSUME NEW n \in Nat \ {0}, NEW a \in Nat, NEW b \in Nat,
           a % n = b % n, a <= b, b < a + n
    PROVE  a = b
<1> DEFINE q == a \div n
           p == b \div n
           r == a % n
<1>1. /\ q \in Nat /\ p \in Nat /\ r \in 0..(n - 1)
      /\ a = n * q + r
      /\ b = n * p + r
  BY DivMod
<1> HIDE DEF q, p, r
<1>2. n * q <= n * p /\ n * p < n * q + n
  BY <1>1
<1>3. q <= p /\ p < q + 1
  BY <1>1, <1>2
<1> QED
  BY <1>1, <1>3

-----------------------------------------------------------------------------
(* The bitmap.                                                             *)

\* N_BITS is a positive number.
LEMMA NBitsPos == N_BITS \in Nat \ {0}
BY WindowAssumption DEF N_BITS

\* Every packet number has its bit in the bitmap.
LEMMA BitRange == \A c \in Nat : Bit(c) \in 0..(N_BITS - 1)
BY NBitsPos, DivMod DEF Bit

\* Packet numbers less than N_BITS apart have different bits.
LEMMA BitInjective ==
    ASSUME NEW c \in Nat, NEW d \in Nat, c < d, d < c + N_BITS
    PROVE  Bit(c) # Bit(d)
<1> SUFFICES ASSUME Bit(c) = Bit(d) PROVE FALSE
  OBVIOUS
<1>1. c % N_BITS = d % N_BITS /\ c <= d
  BY DEF Bit
<1>2. c = d
  BY <1>1, NBitsPos, ModInjective
<1> QED
  BY <1>2

\* The bit of the b-th number of a word lies b above the bit of the first.
LEMMA BitInWord ==
    ASSUME NEW w \in Nat, w % WORD_SIZE = 0, NEW b \in 0..(WORD_SIZE - 1)
    PROVE  Bit(w + b) = Bit(w) + b /\ Bit(w) % WORD_SIZE = 0
<1> DEFINE q == w \div WORD_SIZE
           k == q \div N_WORDS
           r == q % N_WORDS
<1>1. q \in Nat /\ w = WORD_SIZE * q
  BY WindowAssumption, DivMod
<1>2. k \in Nat /\ r \in 0..(N_WORDS - 1) /\ q = N_WORDS * k + r
  BY WindowAssumption, DivMod, <1>1
<1> HIDE DEF q, k, r
<1>3. WORD_SIZE * r <= WORD_SIZE * (N_WORDS - 1)
  BY WindowAssumption, <1>2
<1>4. /\ WORD_SIZE * r \in Nat
      /\ \A i \in 0..(WORD_SIZE - 1) : WORD_SIZE * r + i \in 0..(N_BITS - 1)
  BY WindowAssumption, <1>2, <1>3 DEF N_BITS
<1>5. \A i \in 0..(WORD_SIZE - 1) :
        w + i = N_BITS * k + (WORD_SIZE * r + i)
  BY WindowAssumption, <1>1, <1>2 DEF N_BITS
<1>6. ASSUME NEW i \in 0..(WORD_SIZE - 1)
      PROVE  (w + i) % N_BITS = WORD_SIZE * r + i
  <2> DEFINE s == WORD_SIZE * r + i
  <2>1. s \in 0..(N_BITS - 1) /\ w + i = N_BITS * k + s
    BY <1>4, <1>5
  <2> HIDE DEF s
  <2>2. (w + i) % N_BITS = s
    BY <2>1, <1>2, NBitsPos, DivModUnique
  <2> QED
    BY <2>2 DEF s
<1>7. Bit(w + b) = WORD_SIZE * r + b
  BY <1>6 DEF Bit
<1>8. Bit(w) = WORD_SIZE * r
  <2>1. 0 \in 0..(WORD_SIZE - 1) /\ w + 0 = w /\ WORD_SIZE * r + 0 = WORD_SIZE * r
    BY WindowAssumption, <1>4
  <2> QED
    BY <2>1, <1>6 DEF Bit
<1>9. (WORD_SIZE * r) % WORD_SIZE = 0
  <2>1. 0 \in 0..(WORD_SIZE - 1) /\ WORD_SIZE * r + 0 = WORD_SIZE * r
    BY WindowAssumption, <1>4
  <2> QED
    BY <2>1, <1>2, WindowAssumption, DivModUnique
<1> QED
  BY <1>7, <1>8, <1>9

\* clear_word(w), for a w at the beginning of a word, clears exactly the bits
\* of the WORD_SIZE numbers from w.
LEMMA WordBits ==
    ASSUME NEW w \in Nat, w % WORD_SIZE = 0, NEW p \in 0..(N_BITS - 1)
    PROVE  WordOf(p) = WordOf(Bit(w))
             <=> \E b \in 0..(WORD_SIZE - 1) : p = Bit(w + b)
<1> DEFINE s == Bit(w) \div WORD_SIZE
<1>1. Bit(w) \in Nat /\ p \in Nat
  BY BitRange, NBitsPos
<1>2. Bit(w) % WORD_SIZE = 0 /\ \A b \in 0..(WORD_SIZE - 1) : Bit(w + b) = Bit(w) + b
  <2>1. 0 \in 0..(WORD_SIZE - 1)
    BY WindowAssumption
  <2> QED
    BY <2>1, BitInWord
<1>3. s \in Nat /\ Bit(w) = WORD_SIZE * s
  <2>1. /\ s \in Nat
        /\ Bit(w) = WORD_SIZE * s + (Bit(w) % WORD_SIZE)
    BY <1>1, WindowAssumption, DivMod
  <2> HIDE DEF s
  <2> QED
    BY <2>1, <1>2, WindowAssumption
<1>4. ASSUME WordOf(p) = WordOf(Bit(w))
      PROVE  \E b \in 0..(WORD_SIZE - 1) : p = Bit(w + b)
  <2> DEFINE b == p % WORD_SIZE
             t == p \div WORD_SIZE
  <2>1. b \in 0..(WORD_SIZE - 1) /\ t \in Nat /\ p = WORD_SIZE * t + b
    BY <1>1, WindowAssumption, DivMod
  <2>2. t = s
    BY <1>4 DEF WordOf
  <2> HIDE DEF b, t, s
  <2>3. p = Bit(w) + b
    BY <2>1, <2>2, <1>3
  <2> QED
    BY <2>1, <2>3, <1>2
<1>5. ASSUME NEW b \in 0..(WORD_SIZE - 1), p = Bit(w + b)
      PROVE  WordOf(p) = WordOf(Bit(w))
  <2> HIDE DEF s
  <2>1. p = WORD_SIZE * s + b
    BY <1>2, <1>3, <1>5
  <2>2. p \div WORD_SIZE = s
    BY <2>1, <1>3, WindowAssumption, DivModUnique
  <2> QED
    BY <2>2 DEF s, WordOf
<1> QED
  BY <1>4, <1>5

\* The gap is cleared completely: no number skipped keeps the bit of a packet
\* N_BITS before it.
LEMMA ClearedCovers ==
    ASSUME next \in Nat, NEW c \in Nat, NEW d \in Nat, next <= d, d < c
    PROVE  Bit(d) \in Cleared(c)
<1>1. CASE c - next >= N_BITS
  BY <1>1, BitRange DEF Cleared
<1>2. CASE ~(c - next >= N_BITS)
  <2>1. CASE d \in SingleBits(c)
    BY <1>2, <2>1, BitRange DEF Cleared
  <2>2. CASE d \notin SingleBits(c)
    <3>1. PICK w \in WholeWords(c) : w <= d /\ d < w + WORD_SIZE
      BY <2>2 DEF SingleBits
    <3>2. w \in Nat /\ w % WORD_SIZE = 0 /\ d - w \in 0..(WORD_SIZE - 1) /\ w + (d - w) = d
      BY <3>1, WindowAssumption DEF WholeWords
    <3>3. WordOf(Bit(d)) = WordOf(Bit(w))
      BY <3>2, WordBits, BitRange
    <3> QED
      BY <1>2, <3>1, <3>3, BitRange DEF Cleared
  <2> QED
    BY <2>1, <2>2
<1> QED
  BY <1>1, <1>2

\* ... and nothing else: a packet that stays in reach keeps its bit.
LEMMA ClearedSpares ==
    ASSUME next \in Nat, NEW c \in Nat, NEW d \in Nat,
           d < next, next < c, c < d + N_BITS
    PROVE  Bit(d) \notin Cleared(c)
<1> SUFFICES ASSUME Bit(d) \in Cleared(c) PROVE FALSE
  OBVIOUS
<1>1. ~(c - next >= N_BITS)
  BY NBitsPos
<1>2. \A i \in next..(c - 1) : Bit(d) # Bit(i)
  <2> TAKE i \in next..(c - 1)
  <2>1. i \in Nat /\ d < i /\ i < d + N_BITS
    BY NBitsPos
  <2> QED
    BY <2>1, BitInjective
<1>3. PICK w \in WholeWords(c) : WordOf(Bit(d)) = WordOf(Bit(w))
  BY <1>1, <1>2 DEF Cleared, SingleBits
<1>4. w \in Nat /\ w % WORD_SIZE = 0 /\ next <= w /\ w + WORD_SIZE < c
  BY <1>3 DEF WholeWords
<1>5. PICK b \in 0..(WORD_SIZE - 1) : Bit(d) = Bit(w + b)
  BY <1>3, <1>4, WordBits, BitRange
<1>6. w + b \in next..(c - 1)
  BY <1>4, <1>5, WindowAssumption
<1> QED
  BY <1>2, <1>5, <1>6

-----------------------------------------------------------------------------
(* The invariant.                                                          *)

\* The packets that were handed upwards.
Handed == {c \in Counters : handed[c] > 0}

\* receive_cnt counts each of them once.
CountsHanded == receive_cnt = Cardinality(Handed)

\* Below the window's end is a packet that was handed upwards: next stands for the
\* latest one and for no forged number.
NextWasHanded == next > 0 => next - 1 \in Counters /\ handed[next - 1] > 0

IInv ==
    /\ TypeOK
    /\ HandedWasSealed
    /\ NextWasHanded
    /\ WindowExact
    /\ NoReplay
    /\ CountsHanded

\* A mark is accepted only for a packet that was never handed upwards: the
\* step from the bitmap to the history.
LEMMA AcceptedIsNew ==
    ASSUME IInv, NEW c \in Counters, MarkAccepts(c)
    PROVE  handed[c] = 0
<1>1. handed[c] \in Nat
  BY DEF IInv, TypeOK
<1>2. CASE c < next
  <2>1. c \in Window /\ Bit(c) \notin bitmap
    BY <1>2 DEF MarkAccepts, Window
  <2>2. ~(handed[c] > 0)
    BY <2>1 DEF IInv, WindowExact
  <2> QED
    BY <1>1, <2>2
<1>3. CASE ~(c < next)
  BY <1>1, <1>3 DEF IInv, HandedWasSealed
<1> QED
  BY <1>2, <1>3

\* The types, after an accepted packet.
LEMMA MarkType ==
    ASSUME IInv, NEW c \in Counters, ReceivePacketData(c)
    PROVE  TypeOK'
<1>1. DoMark(c) /\ MaxCounter \in Nat
  BY BoundAssumption DEF ReceivePacketData
<1>2. Bit(c) \in 0..(N_BITS - 1)
  BY <1>1, BitRange DEF Counters
<1>3. next' \in 0..(MaxCounter + 1)
  BY <1>1 DEF IInv, TypeOK, DoMark, Counters
<1>4. bitmap' \subseteq 0..(N_BITS - 1)
  BY <1>1, <1>2 DEF IInv, TypeOK, DoMark
<1>5. /\ receive_cnt' \in Nat
      /\ handed' \in [Counters -> Nat]
      /\ sending_key_counter' \in 0..(MaxCounter + 1)
  BY DEF IInv, TypeOK, ReceivePacketData
<1> QED
  BY <1>3, <1>4, <1>5 DEF TypeOK

\* An accepted mark keeps the bitmap exact, case by case of mark_did_receive.
LEMMA MarkExact ==
    ASSUME IInv, NEW c \in Counters, ReceivePacketData(c)
    PROVE  WindowExact'
<1>1. /\ c \in Counters /\ c \in Nat
      /\ next \in Nat
      /\ MarkAccepts(c)
      /\ DoMark(c)
      /\ handed' = [handed EXCEPT ![c] = @ + 1]
      /\ handed \in [Counters -> Nat]
  BY BoundAssumption DEF IInv, TypeOK, ReceivePacketData, Accepts, Counters
<1>2. \A d \in Counters : d # c => handed'[d] = handed[d]
  BY <1>1
<1>3. handed'[c] > 0 /\ Bit(c) \in bitmap'
  BY <1>1 DEF DoMark
<1> SUFFICES ASSUME NEW d \in Counters, d < next', d + N_BITS >= next', d # c
             PROVE  Bit(d) \in bitmap' <=> handed'[d] > 0
  BY <1>3 DEF WindowExact, Window, InReach, Bit
<1>4. d \in Nat
  BY DEF Counters
<1>5. CASE c < next
  <2>1. next' = next /\ bitmap' = bitmap \cup {Bit(c)}
    BY <1>1, <1>5 DEF DoMark
  <2>2. c + N_BITS >= next
    BY <1>1 DEF MarkAccepts, InReach
  <2>3. Bit(d) # Bit(c)
    <3>1. CASE c < d
      BY <3>1, <1>1, <1>4, <2>1, <2>2, NBitsPos, BitInjective
    <3>2. CASE d < c
      BY <3>2, <1>1, <1>4, <1>5, <2>1, NBitsPos, BitInjective
    <3> QED
      BY <3>1, <3>2, <1>1, <1>4
  <2>4. d \in Window
    BY <2>1 DEF Window, InReach
  <2> QED
    BY <2>1, <2>3, <2>4, <1>2 DEF IInv, WindowExact
<1>6. CASE ~(c < next)
  <2>1. /\ next' = c + 1
        /\ d < c
        /\ c < d + N_BITS
    BY <1>1, <1>4, <1>6, NBitsPos DEF DoMark
  <2>2. Bit(d) # Bit(c)
    BY <1>1, <1>4, <2>1, BitInjective
  <2>3. CASE d < next
    <3>1. d \in Window
      BY <2>1, <2>3, <1>1, <1>4, <1>6, NBitsPos DEF Window, InReach
    <3>2. Bit(d) \in bitmap' <=> Bit(d) \in bitmap
      <4>1. CASE c = next
        BY <4>1, <1>1, <2>2 DEF DoMark
      <4>2. CASE c > next
        <5>1. Bit(d) \notin Cleared(c)
          BY <4>2, <2>1, <2>3, <1>1, <1>4, ClearedSpares
        <5> QED
          BY <4>2, <5>1, <1>1, <2>2 DEF DoMark
      <4> QED
        BY <4>1, <4>2, <1>1, <1>6
    <3> QED
      BY <3>1, <3>2, <1>2 DEF IInv, WindowExact
  <2>4. CASE ~(d < next)
    <3>1. Bit(d) \in Cleared(c) /\ c > next
      BY <2>1, <2>4, <1>1, <1>4, ClearedCovers
    <3>2. Bit(d) \notin bitmap'
      BY <3>1, <1>1, <2>2 DEF DoMark
    <3>3. ~(handed[d] > 0)
      BY <2>4, <1>1, <1>4 DEF IInv, HandedWasSealed
    <3> QED
      BY <3>2, <3>3, <1>2
  <2> QED
    BY <2>3, <2>4
<1> QED
  BY <1>5, <1>6

\* The packets handed upwards are finitely many, and all of them numbers below
\* next: what bounds the count of mark_did_receive.
LEMMA HandedBelowNext ==
    ASSUME TypeOK, HandedWasSealed
    PROVE  IsFiniteSet(Handed) /\ Cardinality(Handed) <= next
<1>1. Handed \in SUBSET (0..(next - 1)) /\ next \in Nat
  BY BoundAssumption DEF TypeOK, HandedWasSealed, Handed, Counters
<1>2. IsFiniteSet(0..(next - 1)) /\ Cardinality(0..(next - 1)) = next
  BY <1>1, FS_Interval
<1>3. IsFiniteSet(Handed) /\ Cardinality(Handed) <= Cardinality(0..(next - 1))
  BY <1>1, <1>2, FS_Subset
<1> QED
  BY <1>2, <1>3

\* An accepted mark counts one packet, and that packet was not counted before.
LEMMA MarkCounts ==
    ASSUME IInv, NEW c \in Counters, ReceivePacketData(c)
    PROVE  CountsHanded'
<1>1. handed[c] = 0
  BY AcceptedIsNew DEF ReceivePacketData, Accepts
<1>2. handed' = [handed EXCEPT ![c] = 1] /\ receive_cnt' = receive_cnt + 1
  BY <1>1 DEF ReceivePacketData
<1>3. Handed' = Handed \cup {c} /\ c \notin Handed
  BY <1>1, <1>2 DEF Handed, IInv, TypeOK
<1>4. Cardinality(Handed \cup {c}) = Cardinality(Handed) + 1
  BY <1>3, HandedBelowNext, FS_AddElement DEF IInv
<1> QED
  BY <1>2, <1>3, <1>4 DEF IInv, CountsHanded

\* No other step counts a packet or hands one upwards.
LEMMA CountKept ==
    ASSUME CountsHanded, UNCHANGED <<receive_cnt, handed>>
    PROVE  CountsHanded'
BY DEF CountsHanded, Handed

\* The invariant holds in the initial state.
LEMMA InitInv == Init => IInv
<1> SUFFICES ASSUME Init PROVE IInv
  OBVIOUS
<1>1. CountsHanded
  <2>1. Handed = {} /\ receive_cnt = 0
    BY DEF Init, Handed
  <2> QED
    BY <2>1, FS_EmptySet DEF CountsHanded
<1> QED
  BY <1>1, BoundAssumption, NBitsPos
   DEF Init, IInv, TypeOK, HandedWasSealed, NextWasHanded, WindowExact,
       NoReplay, Window, Counters

\* The invariant is inductive.
LEMMA NextInv == IInv /\ [Next]_vars => IInv'
<1> SUFFICES ASSUME IInv, [Next]_vars PROVE IInv'
  OBVIOUS
<1>1. CASE FormatPacketData
  <2>1. TypeOK'
    BY <1>1, BoundAssumption DEF FormatPacketData, IInv, TypeOK
  <2>2. HandedWasSealed' /\ NextWasHanded'
    BY <1>1 DEF FormatPacketData, IInv, TypeOK, HandedWasSealed, NextWasHanded, Counters
  <2>3. WindowExact' /\ NoReplay'
    BY <1>1 DEF FormatPacketData, IInv, WindowExact, NoReplay, Window, InReach
  <2>4. CountsHanded'
    BY <1>1, CountKept DEF FormatPacketData, IInv
  <2> QED
    BY <2>1, <2>2, <2>3, <2>4 DEF IInv
<1>2. ASSUME NEW c \in Counters, ReceivePacketData(c)
      PROVE  IInv'
  <2>1. MarkAccepts(c) /\ c < sending_key_counter
    BY <1>2 DEF ReceivePacketData, Accepts
  <2>2. handed[c] = 0
    BY <2>1, AcceptedIsNew
  <2>3. handed' = [handed EXCEPT ![c] = 1]
    BY <1>2, <2>2 DEF ReceivePacketData
  <2>4. c < next' /\ next <= next'
    BY <1>2 DEF ReceivePacketData, DoMark, IInv, TypeOK, Counters
  <2>5. NoReplay'
    BY <2>3 DEF IInv, TypeOK, NoReplay
  <2>6. NextWasHanded'
    BY <1>2, <2>3 DEF ReceivePacketData, DoMark, IInv, TypeOK, NextWasHanded, Counters
  <2>7. HandedWasSealed'
    <3> SUFFICES ASSUME NEW d \in Counters, handed'[d] > 0
                 PROVE  d < next' /\ d < sending_key_counter'
      BY DEF HandedWasSealed
    <3>1. sending_key_counter' = sending_key_counter
      BY <1>2 DEF ReceivePacketData
    <3>2. CASE d = c
      BY <3>1, <3>2, <2>1, <2>4
    <3>3. CASE d # c
      <4>1. handed[d] > 0
        BY <3>3, <2>3 DEF IInv, TypeOK
      <4>2. d < next /\ d < sending_key_counter
        BY <4>1 DEF IInv, HandedWasSealed
      <4>3. next \in Nat /\ next' \in Nat /\ d \in Nat
        BY <1>2, MarkType DEF IInv, TypeOK, Counters
      <4> QED
        BY <4>2, <4>3, <3>1, <2>4
    <3> QED
      BY <3>2, <3>3
  <2> QED
    BY <1>2, <2>5, <2>6, <2>7, MarkType, MarkExact, MarkCounts DEF IInv
<1>3. CASE UNCHANGED vars
  BY <1>3, CountKept DEF vars, IInv, TypeOK, HandedWasSealed, NextWasHanded,
              WindowExact, NoReplay, Window, InReach
<1> QED
  BY <1>1, <1>2, <1>3 DEF Next

\* IInv holds throughout.
LEMMA Invariance == Spec => []IInv
BY InitInv, NextInv, PTL DEF Spec

-----------------------------------------------------------------------------
(* The theorems.                                                           *)

\* Every variable of the session keeps its type, the receive window included.
THEOREM TypeCorrect == Spec => []TypeOK
BY Invariance, PTL DEF IInv

\* The receiver accepts every packet number at most once, for every size of
\* the bitmap (both checks of receive_packet_data).
THEOREM ReplayFree == Spec => []NoReplay
BY Invariance, PTL DEF IInv

\* The bitmap speaks the truth about every packet in its window, so the three
\* clearing loops of mark_did_receive neither forget nor invent a packet.
THEOREM BitmapExact == Spec => []WindowExact
BY Invariance, PTL DEF IInv

\* mark_did_receive counts at most one packet for every number below next, so
\* the estimate of estimate_loss never leaves the interval from 0 to 1.
THEOREM LossEstimateInRange == Spec => []LossInRange
<1>1. IInv => LossInRange
  BY HandedBelowNext DEF IInv, CountsHanded, LossInRange
<1> QED
  BY <1>1, Invariance, PTL

\* receive_packet_data refuses a packet of the peer only if it was handed upwards
\* before or one at least N_BITS later was, for every size of the bitmap: what
\* receiving_counter_quick_check and mark_did_receive refuse.
THEOREM RefusesOnlyReplays == Spec => []NoFalseReject
<1>1. ASSUME IInv, NEW c \in Counters, ~Accepts(c), ~(handed[c] > 0)
      PROVE  \E d \in Counters : d >= c + N_BITS /\ handed[d] > 0
  <2>1. c \in Nat /\ next \in Nat
    BY <1>1, BoundAssumption DEF IInv, TypeOK, Counters
  <2>2. c < next /\ (~InReach(c) \/ Bit(c) \in bitmap)
    BY <1>1, <2>1, NBitsPos DEF Accepts, WillAccept, MarkAccepts, InReach
  <2>3. ~InReach(c)
    BY <1>1, <2>2 DEF IInv, WindowExact, Window
  <2>4. next - 1 >= c + N_BITS
    BY <2>1, <2>3, NBitsPos DEF InReach
  <2>5. next - 1 \in Counters /\ handed[next - 1] > 0
    BY <1>1, <2>1, <2>2 DEF IInv, NextWasHanded
  <2> QED
    BY <2>4, <2>5
<1>2. IInv => NoFalseReject
  BY <1>1 DEF NoFalseReject
<1> QED
  BY <1>2, Invariance, PTL

\* The session implements at-most-once delivery: every step of it is a step
\* of AtMostOnce or leaves that specification's state alone.
THEOREM Refinement == Spec => DeliversAtMostOnce
<1>1. Init => Abstract!Init
  BY DEF Init, Abstract!Init
<1>2. IInv /\ [Next]_vars => [Abstract!Next]_(Abstract!vars)
  <2> SUFFICES ASSUME IInv, [Next]_vars
               PROVE  Abstract!Next \/ UNCHANGED Abstract!vars
    OBVIOUS
  <2>1. CASE FormatPacketData
    BY <2>1 DEF FormatPacketData, Abstract!Next, Abstract!Seal, IInv, TypeOK, Counters
  <2>2. ASSUME NEW c \in Counters, ReceivePacketData(c)
        PROVE  Abstract!Next
    <3>1. handed[c] = 0
      BY <2>2, AcceptedIsNew DEF ReceivePacketData, Accepts
    <3>2. Abstract!Hand(c)
      BY <2>2, <3>1 DEF ReceivePacketData, Abstract!Hand
    <3> QED
      BY <3>2 DEF Abstract!Next
  <2>3. CASE UNCHANGED vars
    BY <2>3 DEF vars, Abstract!vars
  <2> QED
    BY <2>1, <2>2, <2>3 DEF Next
<1> QED
  BY <1>1, <1>2, Invariance, PTL DEF Spec, DeliversAtMostOnce, Abstract!Spec
==============================================================================
