------------------------- MODULE MediaBufferProofs -------------------------
(***************************************************************************)
(* For any number of producers, frames and slots: a YangMediaBuffer keeps  *)
(* its type, so that m_size never wraps below zero; is overfilled by at    *)
(* most one frame for each producer beyond the first; implements the queue *)
(* of FrameQueue; and leaves a payload that getFrameRef handed out alone   *)
(* until it is full.                                                       *)
(***************************************************************************)
EXTENDS MediaBuffer, FiniteSetTheorems, SequenceTheorems, TLAPS

(* The producers that found room and have not counted their frame yet.      *)
Inside == {p \in Producers : pc[p] \in {"ready", "copy"}}

(* Every frame that may still be counted was allowed by a test of its own.  *)
RoomForInside ==
  m_size + Cardinality(Inside) <= m_cache_num + Cardinality(Producers) - 1

(* The consumer alone counts down, so that what its test saw stays.         *)
FrameForConsumer == pc[Consumer] \in {"ready", "copy"} => m_size >= 1

LockOwner == \A t \in Threads : pc[t] = "copy" <=> m_lock = t

IInv == TypeOK /\ LockOwner /\ FrameForConsumer /\ RoomForInside

-----------------------------------------------------------------------------

LEMMA ProducersFinite ==
  /\ Cardinality(Producers) \in Nat
  /\ \A S \in SUBSET Producers :
       /\ IsFiniteSet(S) /\ Cardinality(S) \in Nat
       /\ Cardinality(S) <= Cardinality(Producers)
BY BufferAssumption, FS_Subset, FS_CardinalityType

LEMMA InsideFinite ==
  /\ Inside \in SUBSET Producers /\ IsFiniteSet(Inside)
  /\ Cardinality(Inside) \in Nat
BY ProducersFinite DEF Inside

LEMMA Initially == Init => IInv
<1> SUFFICES ASSUME Init PROVE IInv
  OBVIOUS
<1>1. TypeOK
  BY BufferAssumption DEF Init, TypeOK, Slots, Threads
<1>2. LockOwner
  BY BufferAssumption DEF Init, LockOwner, Threads
<1>3. FrameForConsumer
  BY DEF Init, FrameForConsumer, Threads
<1>4. RoomForInside
  <2>1. Inside = {}
    BY DEF Init, Inside, Threads
  <2>2. Cardinality(Inside) = 0
    BY <2>1, FS_EmptySet
  <2>3. Cardinality(Producers) # 0
    BY BufferAssumption, FS_EmptySet
  <2> QED
    BY <2>2, <2>3, ProducersFinite, BufferAssumption DEF Init, RoomForInside
<1> QED
  BY <1>1, <1>2, <1>3, <1>4 DEF IInv

(* A producer that enters adds itself, one that is done takes itself away.  *)
LEMMA Enters ==
  ASSUME NEW p \in Producers, TypeOK, pc[p] = "out",
         pc' = [pc EXCEPT ![p] = "ready"]
  PROVE  Cardinality(Inside') <= Cardinality(Producers)
<1>1. Inside' \in SUBSET Producers
  BY DEF Inside
<1> QED
  BY <1>1, ProducersFinite

LEMMA Leaves ==
  ASSUME NEW p \in Producers, TypeOK, pc[p] = "copy",
         pc' = [pc EXCEPT ![p] = "out"]
  PROVE  Cardinality(Inside') = Cardinality(Inside) - 1
<1>1. Inside' = Inside \ {p} /\ p \in Inside
  BY DEF Inside, TypeOK, Threads
<1> QED
  BY <1>1, InsideFinite, FS_RemoveElement

LEMMA Stays ==
  ASSUME TypeOK, TypeOK',
         \A p \in Producers : pc'[p] \in {"ready", "copy"} <=> pc[p] \in {"ready", "copy"}
  PROVE  Inside' = Inside
BY DEF Inside

-----------------------------------------------------------------------------

LEMMA TypeKept == TypeOK /\ FrameForConsumer /\ [Next]_vars => TypeOK'
<1> SUFFICES ASSUME TypeOK, FrameForConsumer, [Next]_vars PROVE TypeOK'
  OBVIOUS
<1>i. \A i \in Slots : Following(i) \in Slots
  BY BufferAssumption DEF Following, Slots
<1>0. 0 \in Slots
  BY BufferAssumption DEF Slots
<1>1. ASSUME NEW p \in Producers, NEW f \in Frame, PutTest(p, f) PROVE TypeOK'
  BY <1>1 DEF PutTest, TypeOK, ring, Threads
<1>2. ASSUME NEW p \in Producers, PutLock(p) PROVE TypeOK'
  BY <1>2 DEF PutLock, TypeOK, Threads
<1>3. ASSUME NEW p \in Producers, PutDone(p) PROVE TypeOK'
  BY <1>3, <1>i DEF PutDone, TypeOK, Threads
<1>4. CASE GetTest
  BY <1>4 DEF GetTest, TypeOK, ring, Threads
<1>5. CASE GetLock
  BY <1>5 DEF GetLock, TypeOK, ring, Threads
<1>6. CASE GetDone
  BY <1>6, <1>i DEF GetDone, TakeSlot, TypeOK, FrameForConsumer, Threads
<1>7. CASE GetRefDone
  BY <1>7, <1>i DEF GetRefDone, TakeSlot, TypeOK, FrameForConsumer, Threads
<1>8. CASE RefUsed
  BY <1>8 DEF RefUsed, TypeOK, ring, Threads
<1>9. CASE ResetIndex
  BY <1>9, <1>0 DEF ResetIndex, TypeOK
<1>10. CASE UNCHANGED vars
  BY <1>10 DEF vars, TypeOK
<1> QED
  BY <1>1, <1>2, <1>3, <1>4, <1>5, <1>6, <1>7, <1>8, <1>9, <1>10 DEF Next

LEMMA LockKept == TypeOK /\ LockOwner /\ [Next]_vars => LockOwner'
<1> SUFFICES ASSUME TypeOK, LockOwner, [Next]_vars PROVE LockOwner'
  OBVIOUS
<1> USE BufferAssumption DEF LockOwner, TypeOK, Threads
<1>1. ASSUME NEW p \in Producers, NEW f \in Frame, PutTest(p, f) PROVE LockOwner'
  BY <1>1 DEF PutTest
<1>2. ASSUME NEW p \in Producers, PutLock(p) PROVE LockOwner'
  BY <1>2 DEF PutLock
<1>3. ASSUME NEW p \in Producers, PutDone(p) PROVE LockOwner'
  BY <1>3 DEF PutDone
<1>4. CASE GetTest
  BY <1>4 DEF GetTest
<1>5. CASE GetLock
  BY <1>5 DEF GetLock
<1>6. CASE GetDone \/ GetRefDone
  BY <1>6 DEF GetDone, GetRefDone, TakeSlot
<1>7. CASE RefUsed
  BY <1>7 DEF RefUsed
<1>8. CASE ResetIndex \/ UNCHANGED vars
  BY <1>8 DEF ResetIndex, vars
<1> QED
  BY <1>1, <1>2, <1>3, <1>4, <1>5, <1>6, <1>7, <1>8 DEF Next

LEMMA FrameKept == IInv /\ [Next]_vars => FrameForConsumer'
<1> SUFFICES ASSUME IInv, [Next]_vars PROVE FrameForConsumer'
  OBVIOUS
<1> USE BufferAssumption DEF IInv, FrameForConsumer, TypeOK, Threads
<1>1. ASSUME NEW p \in Producers, NEW f \in Frame, PutTest(p, f) PROVE FrameForConsumer'
  BY <1>1 DEF PutTest, ring
<1>2. ASSUME NEW p \in Producers, PutLock(p) PROVE FrameForConsumer'
  BY <1>2 DEF PutLock
<1>3. ASSUME NEW p \in Producers, PutDone(p) PROVE FrameForConsumer'
  BY <1>3 DEF PutDone
<1>4. CASE GetTest
  BY <1>4 DEF GetTest, ring
<1>5. CASE GetLock
  BY <1>5 DEF GetLock, ring
<1>6. CASE GetDone \/ GetRefDone
  BY <1>6 DEF GetDone, GetRefDone, TakeSlot
<1>7. CASE RefUsed
  BY <1>7 DEF RefUsed, ring
<1>8. CASE ResetIndex
  BY <1>8 DEF ResetIndex
<1>9. CASE UNCHANGED vars
  BY <1>9 DEF vars
<1> QED
  BY <1>1, <1>2, <1>3, <1>4, <1>5, <1>6, <1>7, <1>8, <1>9 DEF Next

LEMMA RoomKept == IInv /\ TypeOK' /\ [Next]_vars => RoomForInside'
<1> SUFFICES ASSUME IInv, TypeOK', [Next]_vars PROVE RoomForInside'
  OBVIOUS
<1>0. /\ m_size \in Nat /\ m_size' \in Nat /\ m_cache_num \in Nat \ {0}
      /\ TypeOK /\ RoomForInside
  BY BufferAssumption DEF IInv, TypeOK
<1>c. Cardinality(Producers) \in Nat /\ Cardinality(Inside) \in Nat
  BY ProducersFinite, InsideFinite
<1>s. ASSUME Inside' = Inside, m_size' <= m_size PROVE RoomForInside'
  BY <1>s, <1>0, <1>c DEF RoomForInside
<1>1. ASSUME NEW p \in Producers, NEW f \in Frame, PutTest(p, f) PROVE RoomForInside'
  <2>1. Cardinality(Inside') <= Cardinality(Producers)
    BY <1>1, <1>0, Enters DEF PutTest
  <2>2. Cardinality(Inside') \in Nat
    <3>1. Inside' \in SUBSET Producers
      BY DEF Inside
    <3> QED
      BY <3>1, ProducersFinite
  <2>3. m_size' = m_size /\ m_size < m_cache_num
    BY <1>1 DEF PutTest, HasRoom, ring
  <2> QED
    BY <2>1, <2>2, <2>3, <1>0, <1>c DEF RoomForInside
<1>2. ASSUME NEW p \in Producers, PutLock(p) PROVE RoomForInside'
  <2>1. Inside' = Inside /\ m_size' = m_size
    BY <1>2, <1>0 DEF PutLock, Inside, TypeOK, Threads
  <2> QED
    BY <2>1, <1>s, <1>0
<1>3. ASSUME NEW p \in Producers, PutDone(p) PROVE RoomForInside'
  <2>1. Cardinality(Inside') = Cardinality(Inside) - 1
    BY <1>3, <1>0, Leaves DEF PutDone
  <2>2. m_size' = m_size + 1
    BY <1>3 DEF PutDone
  <2> QED
    BY <2>1, <2>2, <1>0, <1>c DEF RoomForInside
<1>4. CASE GetTest \/ GetLock \/ RefUsed
  <2>1. Inside' = Inside /\ m_size' = m_size
    BY <1>4, <1>0, BufferAssumption DEF GetTest, GetLock, RefUsed, ring, Inside, TypeOK, Threads
  <2> QED
    BY <2>1, <1>s, <1>0
<1>5. CASE GetDone \/ GetRefDone
  <2>1. Inside' = Inside /\ m_size' = m_size - 1
    BY <1>5, <1>0, BufferAssumption DEF GetDone, GetRefDone, TakeSlot, Inside, TypeOK, Threads
  <2> QED
    BY <2>1, <1>s, <1>0
<1>6. CASE ResetIndex
  <2>1. Inside' = Inside /\ m_size' = 0
    BY <1>6 DEF ResetIndex, Inside
  <2> QED
    BY <2>1, <1>s, <1>0
<1>7. CASE UNCHANGED vars
  <2>1. Inside' = Inside /\ m_size' = m_size
    BY <1>7 DEF vars, Inside
  <2> QED
    BY <2>1, <1>s, <1>0
<1> QED
  BY <1>1, <1>2, <1>3, <1>4, <1>5, <1>6, <1>7 DEF Next

-----------------------------------------------------------------------------

(* IInv is inductive and holds of every behaviour of the buffer.            *)
THEOREM Inductive == Spec => []IInv
<1>1. IInv /\ [Next]_vars => IInv'
  BY TypeKept, LockKept, FrameKept, RoomKept DEF IInv
<1> QED
  BY Initially, <1>1, PTL DEF Spec

(* The indexes stay in the ring and m_size, an unsigned number, never wraps *)
(* below zero: a getFrame takes only what its test of size() saw.           *)
THEOREM TypeCorrect == Spec => []TypeOK
<1>1. IInv => TypeOK
  BY DEF IInv
<1> QED
  BY Inductive, <1>1, PTL

(* putFrame tests size() without the lock, and still no more than one frame *)
(* for each producer beyond the first is ever put over the capacity.        *)
THEOREM Overfill == Spec => []OverfillBounded
<1>1. IInv => OverfillBounded
  <2> SUFFICES ASSUME IInv PROVE OverfillBounded
    OBVIOUS
  <2>1. m_size \in Nat /\ m_cache_num \in Nat
    BY BufferAssumption DEF IInv, TypeOK
  <2> QED
    BY <2>1, InsideFinite, ProducersFinite DEF IInv, RoomForInside, OverfillBounded
<1> QED
  BY Inductive, <1>1, PTL

-----------------------------------------------------------------------------
(* Remainders. *)

(* What the provers know of \div and %, stated once.                         *)
LEMMA DivMod ==
  ASSUME NEW n \in Nat, NEW d \in Nat \ {0}
  PROVE  /\ n % d \in 0 .. d - 1
         /\ n \div d \in Int
         /\ n = d * (n \div d) + (n % d)
OBVIOUS

(* The quotient and the remainder are the only ones.                        *)
LEMMA OneRemainder ==
  ASSUME NEW d \in Nat \ {0}, NEW n \in Nat,
         NEW q \in Int, NEW r \in 0 .. d - 1, n = d * q + r
  PROVE  n % d = r
<1>1. PICK p \in Int, s \in 0 .. d - 1 : n = d * p + s /\ s = n % d
  BY DivMod
<1>2. ASSUME NEW k \in Int, d * k < d, d * k > -d PROVE d * k = 0
  BY <1>2
<1>3. d * p - d * q = d * (p - q) /\ p - q \in Int
  OBVIOUS
<1>4. n = d * p + s
  BY <1>1
<1>5. d * (p - q) = r - s
  BY <1>3, <1>4
<1>6. d * (p - q) = 0
  BY <1>2, <1>3, <1>5
<1>7. r = s
  BY <1>5, <1>6
<1>8. QED
  BY <1>1, <1>7

(* Two numbers share a remainder when d divides their difference.           *)
LEMMA SameRemainder ==
  ASSUME NEW d \in Nat \ {0}, NEW a \in Nat, NEW b \in Nat, a <= b
  PROVE  a % d = b % d <=> (b - a) % d = 0
<1>1. PICK p \in Int, r \in 0 .. d - 1 : a = d * p + r /\ r = a % d
  BY DivMod
<1>2. PICK q \in Int, s \in 0 .. d - 1 : b = d * q + s /\ s = b % d
  BY DivMod
<1>3. b - a \in Nat /\ b - a = d * (q - p) + (s - r) /\ q - p \in Int
  <2>1. d * q - d * p = d * (q - p)
    OBVIOUS
  <2>2. QED
    BY <1>1, <1>2, <2>1
<1>4. ASSUME r = s PROVE (b - a) % d = 0
  BY <1>3, <1>4, OneRemainder
<1>5. ASSUME (b - a) % d = 0 PROVE r = s
  <2>1. PICK k \in Int : b - a = d * k
    <3>1. /\ (b - a) \div d \in Int
          /\ b - a = d * ((b - a) \div d) + ((b - a) % d)
      BY <1>3, DivMod
    <3>2. b - a = d * ((b - a) \div d)
      BY <1>5, <3>1
    <3>3. QED
      BY <3>1, <3>2
  <2>2. b = d * (p + k) + r /\ p + k \in Int
    <3>1. d * (p + k) = d * p + d * k
      OBVIOUS
    <3>2. QED
      BY <1>1, <2>1, <3>1
  <2>3. QED
    BY <1>2, <2>2, OneRemainder
<1>6. QED
  BY <1>1, <1>2, <1>4, <1>5

(* Places less than a round apart are different slots.                      *)
LEMMA Apart ==
  ASSUME NEW d \in Nat \ {0}, NEW a \in Nat, NEW b \in Nat, a < b, b - a < d
  PROVE  a % d # b % d
<1>1. (b - a) % d = b - a
  <2>1. b - a \in 0 .. d - 1 /\ b - a = d * 0 + (b - a)
    OBVIOUS
  <2>2. QED
    BY <2>1, OneRemainder
<1>2. (b - a) % d # 0
  BY <1>1
<1>3. a % d = b % d <=> (b - a) % d = 0
  <2>1. a <= b
    OBVIOUS
  <2>2. QED
    BY <2>1, SameRemainder
<1>4. QED
  BY <1>2, <1>3

(* A sum may be taken round the ring in two steps.                          *)
LEMMA RemainderOfSum ==
  ASSUME NEW d \in Nat \ {0}, NEW a \in Nat, NEW b \in Nat
  PROVE  ((a % d) + b) % d = (a + b) % d
<1>1. PICK p \in Int, r \in 0 .. d - 1 : a = d * p + r /\ r = a % d
  BY DivMod
<1>2. r + b \in Nat /\ a + b \in Nat
  BY <1>1
<1>3. PICK q \in Int, s \in 0 .. d - 1 : r + b = d * q + s /\ s = (r + b) % d
  BY <1>2, DivMod
<1>4. a + b = d * (p + q) + s /\ p + q \in Int
  <2>1. d * (p + q) = d * p + d * q
    OBVIOUS
  <2>2. QED
    BY <1>1, <1>3, <2>1
<1>5. (a + b) % d = s
  BY <1>2, <1>4, OneRemainder
<1>6. QED
  BY <1>1, <1>3, <1>5

-----------------------------------------------------------------------------
(* The ring. *)

At(i) == i % m_cache_num

(* A frame is put behind those that are in the ring.                        *)
RingClosed == m_putIndex = At(m_getIndex + m_size)

(* The queue that the ring stands for: the refinement's first component.    *)
Content == [k \in 1 .. Waiting |-> Written[At(m_getIndex + k - 1)]]
Anything == Frame \cup {HalfWritten}

(* The code's step to the next slot is the remainder's.                     *)
LEMMA AtFacts ==
  /\ \A i \in Nat : At(i) \in Slots /\ At(i + 1) = Following(At(i))
  /\ \A i \in Slots : At(i) = i
<1>1. m_cache_num \in Nat \ {0}
  BY BufferAssumption
<1>2. ASSUME NEW i \in Nat PROVE At(i) \in 0 .. m_cache_num - 1
  BY <1>1, DivMod DEF At
<1>3. ASSUME NEW i \in 0 .. m_cache_num - 1 PROVE At(i) = i
  <2>1. i = m_cache_num * 0 + i
    BY <1>1
  <2>2. QED
    BY <1>1, <2>1, OneRemainder DEF At
<1>4. ASSUME NEW i \in Nat PROVE At(i + 1) = Following(At(i))
  <2>1. At(i + 1) = At(At(i) + 1)
    BY <1>1, RemainderOfSum DEF At
  <2>2. CASE At(i) + 1 < m_cache_num
    <3>1. At(i) + 1 \in 0 .. m_cache_num - 1
      <4>1. At(i) \in 0 .. m_cache_num - 1
        BY <1>2
      <4>2. QED
        BY <1>1, <2>2, <4>1
    <3>2. At(At(i) + 1) = At(i) + 1
      BY <1>3, <3>1
    <3>3. QED
      BY <1>1, <1>2, <2>1, <2>2, <3>2 DEF Following
  <2>3. CASE At(i) + 1 >= m_cache_num
    <3>1. At(i) + 1 = m_cache_num * 1 + 0
      BY <1>1, <1>2, <2>3
    <3>2. At(At(i) + 1) = 0
      <4>1. At(i) + 1 \in Nat /\ 0 \in 0 .. m_cache_num - 1
        BY <1>1, <1>2
      <4>2. QED
        BY <1>1, <3>1, <4>1, OneRemainder DEF At
    <3>3. QED
      BY <2>1, <2>3, <3>2 DEF Following
  <2>4. QED
    BY <1>1, <1>2, <2>2, <2>3
<1>5. QED
  BY <1>2, <1>3, <1>4 DEF Slots

(* What the ring stands for is a sequence.                                  *)
LEMMA ContentSeq ==
  ASSUME TypeOK
  PROVE  /\ Waiting \in Nat /\ Written \in [Slots -> Anything]
         /\ Content \in Seq(Anything) /\ Len(Content) = Waiting
         /\ \A k \in 1 .. Waiting : /\ Content[k] = Written[At(m_getIndex + k - 1)]
                                    /\ m_getIndex + k - 1 \in Nat
<1>1. Waiting \in Nat /\ m_getIndex \in Nat
  BY DEF TypeOK, Waiting, Slots
<1>2. Written \in [Slots -> Anything]
  BY DEF TypeOK, Written, Anything
<1>3. ASSUME NEW k \in 1 .. Waiting
      PROVE  m_getIndex + k - 1 \in Nat /\ Written[At(m_getIndex + k - 1)] \in Anything
  <2>1. m_getIndex + k - 1 \in Nat
    BY <1>1
  <2>2. QED
    BY <1>2, <2>1, AtFacts
<1>4. Content \in [1 .. Waiting -> Anything]
  BY <1>3 DEF Content
<1>5. Content \in Seq(Anything)
  BY <1>1, <1>4, SeqDef
<1>6. DOMAIN Content = 1 .. Waiting
  BY DEF Content
<1>7. Len(Content) = Waiting
  BY <1>1, <1>5, <1>6, LenProperties
<1>8. QED
  BY <1>1, <1>2, <1>3, <1>5, <1>7 DEF Content

(* Every put and take moves one end of the ring by one slot.                *)
LEMMA RingKept == IInv /\ RingClosed /\ [Next]_vars => RingClosed'
<1> SUFFICES ASSUME IInv, RingClosed, [Next]_vars PROVE RingClosed'
  OBVIOUS
<1>1. m_size \in Nat /\ m_getIndex \in Nat /\ m_getIndex \in Slots
  BY DEF IInv, TypeOK, Slots
<1>2. ASSUME NEW p \in Producers, PutDone(p) PROVE RingClosed'
  <2>1. At(m_getIndex + m_size + 1) = Following(m_putIndex)
    BY <1>1, AtFacts DEF RingClosed
  <2>2. /\ m_putIndex' = Following(m_putIndex) /\ m_getIndex' = m_getIndex
        /\ m_size' = m_size + 1
    BY <1>2 DEF PutDone
  <2>3. m_getIndex' + m_size' = m_getIndex + m_size + 1
    BY <1>1, <2>2
  <2>4. QED
    BY <2>1, <2>2, <2>3 DEF RingClosed, At
<1>3. CASE GetDone \/ GetRefDone
  <2>1. /\ m_putIndex' = m_putIndex /\ m_getIndex' = Following(m_getIndex)
        /\ m_size' = m_size - 1
    BY <1>3 DEF GetDone, GetRefDone, TakeSlot
  <2>2. m_size >= 1
    BY <1>3 DEF IInv, FrameForConsumer, GetDone, GetRefDone, TakeSlot
  <2>3. At(m_getIndex + 1) = Following(m_getIndex)
    BY <1>1, AtFacts
  <2>4. m_getIndex' + m_size' = At(m_getIndex + 1) + (m_size - 1) /\ m_size - 1 \in Nat
    BY <1>1, <2>1, <2>2, <2>3
  <2>5. At(At(m_getIndex + 1) + (m_size - 1)) = At(m_getIndex + 1 + (m_size - 1))
    <3>1. m_getIndex + 1 \in Nat
      BY <1>1
    <3>2. QED
      BY <2>4, <3>1, BufferAssumption, RemainderOfSum DEF At
  <2>6. m_getIndex + 1 + (m_size - 1) = m_getIndex + m_size
    BY <1>1
  <2>7. QED
    BY <2>1, <2>4, <2>5, <2>6 DEF RingClosed, At
<1>4. CASE ResetIndex
  <2>1. m_putIndex' = 0 /\ m_getIndex' + m_size' = 0 /\ 0 \in Slots
    BY <1>4, BufferAssumption DEF ResetIndex, Slots
  <2>2. QED
    BY <2>1, AtFacts DEF RingClosed, At
<1>5. CASE UNCHANGED <<m_putIndex, m_getIndex, m_size>>
  BY <1>5 DEF RingClosed, At
<1>6. QED
  BY <1>2, <1>3, <1>4, <1>5
  DEF Next, PutTest, PutLock, GetTest, GetLock, RefUsed, ring, vars

(* A step that leaves the queue alone.                                      *)
LEMMA Stutters ==
  ASSUME TypeOK, UNCHANGED <<Waiting, m_getIndex, got>>,
         Waiting = 0 \/ UNCHANGED Written
  PROVE  UNCHANGED Queue!vars
<1>1. Waiting \in Nat
  BY ContentSeq
<1>2. Content' = Content
  BY <1>1 DEF Content, At
<1>3. QED
  BY <1>2 DEF Queue!vars, Content, At

(* A frame whose producer has the lock is the last of the queue; in a full  *)
(* ring its slot is that of the frame a round before.                       *)
LEMMA PutRefines ==
  ASSUME IInv, IInv', RingClosed, NEW p \in Producers, PutLock(p),
         NEW f \in Frame, f = pframe[p]
  PROVE  Queue!Put(f) \/ Queue!Overrun(f)
<1> DEFINE n == m_cache_num
<1>1. /\ n \in Nat \ {0} /\ m_size \in Nat /\ m_getIndex \in Nat
      /\ f \in Frame /\ f \in Anything /\ TypeOK /\ TypeOK'
  BY BufferAssumption DEF IInv, TypeOK, Slots, Anything
<1>2. /\ m_lock = NoThread /\ m_lock' = p /\ pc' = [pc EXCEPT ![p] = "copy"]
      /\ m_frames' = [m_frames EXCEPT ![m_putIndex] = HalfWritten]
      /\ UNCHANGED <<m_putIndex, m_getIndex, m_size, pframe, got, ref>>
  BY DEF PutLock
<1>3. Waiting = m_size /\ Written = m_frames
  BY <1>1, <1>2, BufferAssumption DEF Waiting, Written
<1>4. Waiting' = m_size + 1 /\ Written' = [m_frames EXCEPT ![m_putIndex] = f]
  BY <1>1, <1>2 DEF Waiting, Written, TypeOK
<1>5. ASSUME NEW k \in 1 .. m_size
      PROVE  Content'[k] = IF (m_size + 1 - k) % n = 0 THEN f ELSE Content[k]
  <2>1. /\ Content[k] = m_frames[At(m_getIndex + k - 1)]
        /\ Content'[k] = Written'[At(m_getIndex + k - 1)]
        /\ m_getIndex + k - 1 \in Nat
    BY <1>1, <1>2, <1>3, <1>4 DEF Content, At
  <2>2. At(m_getIndex + k - 1) \in Slots
    BY <2>1, AtFacts
  <2>3. Content'[k] = IF At(m_getIndex + k - 1) = m_putIndex THEN f ELSE Content[k]
    BY <1>1, <1>4, <2>1, <2>2 DEF TypeOK
  <2>4. At(m_getIndex + k - 1) = At(m_getIndex + m_size) <=> (m_size + 1 - k) % n = 0
    <3> DEFINE a == m_getIndex + k - 1
               b == m_getIndex + m_size
    <3>1. a \in Nat /\ b \in Nat /\ a <= b /\ b - a = m_size + 1 - k
      BY <1>1
    <3>2. a % n = b % n <=> (b - a) % n = 0
      <4> HIDE DEF a, b, n
      <4>1. QED
        BY <1>1, <3>1, SameRemainder
    <3>3. QED
      BY <3>1, <3>2 DEF At
  <2>5. QED
    BY <2>3, <2>4 DEF RingClosed
<1>6. Content'[m_size + 1] = f
  <2>1. m_getIndex + (m_size + 1) - 1 = m_getIndex + m_size /\ m_size + 1 \in 1 .. m_size + 1
    BY <1>1
  <2>2. Content'[m_size + 1] = Written'[At(m_getIndex + m_size)]
    BY <1>2, <1>4, <2>1 DEF Content, At
  <2>3. QED
    BY <1>1, <1>4, <2>2 DEF RingClosed, TypeOK
<1>7. /\ Content \in Seq(Anything) /\ Len(Content) = m_size
  BY <1>1, <1>3, ContentSeq
<1>8. Content' \in [1 .. m_size + 1 -> Anything]
  <2>1. ASSUME NEW k \in 1 .. m_size + 1 PROVE Content'[k] \in Anything
    <3>1. CASE k \in 1 .. m_size
      BY <1>1, <1>5, <1>7, <3>1, ElementOfSeq
    <3>2. CASE k = m_size + 1
      BY <1>1, <1>6, <3>2
    <3>3. QED
      BY <1>1, <3>1, <3>2
  <2>2. QED
    BY <1>1, <1>4, <2>1 DEF Content
<1>9. Content' \in Seq(Anything) /\ Len(Content') = m_size + 1
  <2>1. Content' \in Seq(Anything)
    BY <1>1, <1>8, SeqDef
  <2>2. QED
    BY <1>1, <1>8, <2>1, LenProperties
<1>10. CASE m_size < n
  <2>1. ASSUME NEW k \in 1 .. m_size PROVE Content'[k] = Content[k]
    <3>1. (m_size + 1 - k) % n # 0
      <4>1. m_size + 1 - k \in 1 .. n - 1 \/ m_size + 1 - k \in 0 .. n - 1
        BY <1>1, <1>10
      <4>2. (m_size + 1 - k) % n = m_size + 1 - k
        <5>1. m_size + 1 - k = n * 0 + (m_size + 1 - k)
          BY <1>1
        <5>2. QED
          BY <1>1, <4>1, <5>1, OneRemainder
      <4>3. QED
        BY <1>1, <4>2
    <3>2. QED
      BY <1>5, <3>1
  <2>2. Content' = Append(Content, f)
    <3>1. /\ Append(Content, f) \in Seq(Anything) /\ Len(Append(Content, f)) = m_size + 1
          /\ \A k \in 1 .. m_size : Append(Content, f)[k] = Content[k]
          /\ Append(Content, f)[m_size + 1] = f
      BY <1>1, <1>7, AppendProperties
    <3>2. \A k \in 1 .. m_size + 1 : Content'[k] = Append(Content, f)[k]
      BY <1>1, <1>6, <2>1, <3>1
    <3>3. QED
      BY <1>9, <3>1, <3>2, SeqEqual
  <2>3. QED
    BY <1>1, <1>2, <1>7, <1>10, <2>2 DEF Queue!Put, Content, At
<1>11. CASE m_size >= n
  <2> DEFINE over == [k \in DOMAIN Content |->
                        IF (Len(Content) + 1 - k) % n = 0 THEN f ELSE Content[k]]
  <2>1. DOMAIN Content = 1 .. m_size
    BY <1>7, LenProperties
  <2>2. over \in [1 .. m_size -> Anything]
    BY <1>1, <1>7, <2>1, ElementOfSeq
  <2>3. over \in Seq(Anything) /\ Len(over) = m_size
    <3>1. over \in Seq(Anything)
      BY <1>1, <2>2, SeqDef
    <3>2. QED
      BY <1>1, <2>2, <3>1, LenProperties
  <2>4. \A k \in 1 .. m_size : over[k] = Content'[k]
    BY <1>5, <1>7, <2>1
  <2>5. Content' = Append(over, f)
    <3> HIDE DEF over
    <3>1. /\ Append(over, f) \in Seq(Anything) /\ Len(Append(over, f)) = m_size + 1
          /\ \A k \in 1 .. m_size : Append(over, f)[k] = over[k]
          /\ Append(over, f)[m_size + 1] = f
      BY <1>1, <2>3, AppendProperties
    <3>2. \A k \in 1 .. m_size + 1 : Content'[k] = Append(over, f)[k]
      BY <1>1, <1>6, <2>4, <3>1
    <3>3. QED
      BY <1>9, <3>1, <3>2, SeqEqual
  <2>6. m_size < n + (Cardinality(Producers) - 1)
    <3>1. p \in Inside'
      BY <1>1, <1>2 DEF Inside, TypeOK, Threads
    <3>2. IsFiniteSet(Inside') /\ Cardinality(Inside') \in Nat
      <4>1. Inside' \in SUBSET Producers
        BY DEF Inside
      <4>2. QED
        BY <4>1, ProducersFinite
    <3>3. Cardinality(Inside') # 0
      BY <3>1, <3>2, FS_EmptySet
    <3>4. m_size + Cardinality(Inside') <= n + Cardinality(Producers) - 1
      BY <1>2 DEF IInv, RoomForInside
    <3>5. QED
      BY <1>1, <3>2, <3>3, <3>4, ProducersFinite
  <2>7. QED
    BY <1>1, <1>2, <1>7, <1>11, <2>5, <2>6 DEF Queue!Overrun, Content, At
<1>12. QED
  BY <1>1, <1>10, <1>11

(* The slot at m_getIndex holds the first frame of the queue.               *)
LEMMA TakeRefines ==
  ASSUME IInv, TypeOK', TakeSlot
  PROVE  Queue!Get
<1>1. /\ m_size \in Nat \ {0} /\ m_getIndex \in Nat /\ m_getIndex \in Slots
      /\ TypeOK /\ m_cache_num \in Nat \ {0}
  BY BufferAssumption
  DEF IInv, TypeOK, Slots, TakeSlot, FrameForConsumer
<1>2. /\ m_getIndex' = Following(m_getIndex) /\ m_size' = m_size - 1
      /\ m_lock' = NoThread /\ got' = m_frames[m_getIndex]
      /\ UNCHANGED <<m_frames, m_putIndex, pframe>>
  BY DEF TakeSlot
<1>3. Waiting = m_size /\ Written = m_frames
  <2>1. m_lock = Consumer
    BY DEF IInv, LockOwner, TakeSlot, Threads
  <2>2. QED
    BY <1>1, <2>1, BufferAssumption DEF Waiting, Written
<1>4. Waiting' = m_size - 1 /\ Written' = m_frames
  BY <1>1, <1>2, BufferAssumption DEF Waiting, Written
<1>5. /\ Content \in Seq(Anything) /\ Len(Content) = m_size
      /\ \A k \in 1 .. m_size : Content[k] = m_frames[At(m_getIndex + k - 1)]
  BY <1>1, <1>3, ContentSeq
<1>6. Content # << >>
  BY <1>1, <1>5, EmptySeq
<1>7. Head(Content) = m_frames[m_getIndex]
  <2>1. Head(Content) = Content[1]
    BY <1>5, <1>6
  <2>2. m_getIndex + 1 - 1 = m_getIndex /\ 1 \in 1 .. m_size
    BY <1>1
  <2>3. Content[1] = m_frames[At(m_getIndex)]
    BY <1>5, <2>2
  <2>4. QED
    BY <1>1, <2>1, <2>3, AtFacts
<1>8. ASSUME NEW k \in 1 .. m_size - 1
      PROVE  Content'[k] = Content[k + 1]
  <2>1. Content'[k] = m_frames[At(m_getIndex' + k - 1)]
    BY <1>4 DEF Content, At
  <2>2. k + 1 \in 1 .. m_size /\ m_getIndex + (k + 1) - 1 = m_getIndex + k
    BY <1>1
  <2>3. Content[k + 1] = m_frames[At(m_getIndex + k)]
    BY <1>5, <2>2
  <2>4. At(m_getIndex' + k - 1) = At(m_getIndex + k)
    <3>1. m_getIndex' = At(m_getIndex + 1)
      BY <1>1, <1>2, AtFacts
    <3>2. k - 1 \in Nat /\ m_getIndex + 1 \in Nat
      BY <1>1
    <3>3. At(At(m_getIndex + 1) + (k - 1)) = At(m_getIndex + 1 + (k - 1))
      BY <1>1, <3>2, RemainderOfSum DEF At
    <3>4. /\ At(m_getIndex + 1) \in Nat
          /\ At(m_getIndex + 1) + (k - 1) = At(m_getIndex + 1) + k - 1
          /\ m_getIndex + 1 + (k - 1) = m_getIndex + k
      <4>1. At(m_getIndex + 1) \in Nat
        BY <3>2, AtFacts DEF Slots
      <4>2. QED
        BY <1>1, <4>1
    <3>5. QED
      BY <3>1, <3>3, <3>4
  <2>5. QED
    BY <2>1, <2>3, <2>4
<1>9. Content' \in [1 .. m_size - 1 -> Anything]
  <2>1. ASSUME NEW k \in 1 .. m_size - 1 PROVE Content'[k] \in Anything
    <3>1. k + 1 \in 1 .. m_size
      BY <1>1
    <3>2. QED
      BY <1>5, <1>8, <3>1, ElementOfSeq
  <2>2. QED
    BY <1>1, <1>4, <2>1 DEF Content
<1>10. Content' \in Seq(Anything) /\ Len(Content') = m_size - 1
  <2>1. m_size - 1 \in Nat
    BY <1>1
  <2>2. Content' \in Seq(Anything)
    BY <1>9, <2>1, SeqDef
  <2>3. QED
    BY <1>9, <2>1, <2>2, LenProperties
<1>11. Content' = Tail(Content)
  <2>1. /\ Tail(Content) \in Seq(Anything) /\ Len(Tail(Content)) = m_size - 1
        /\ \A k \in 1 .. m_size - 1 : Tail(Content)[k] = Content[k + 1]
    BY <1>5, <1>6, HeadTailProperties
  <2>2. QED
    BY <1>8, <1>10, <2>1, SeqEqual
<1>12. QED
  BY <1>2, <1>6, <1>7, <1>11 DEF Queue!Get, Content, At

(* A function on no places is the empty sequence.                           *)
LEMMA EmptyContent ==
  ASSUME NEW S, NEW s \in [1 .. 0 -> S]
  PROVE  s = << >>
<1>1. s \in Seq(S) /\ Len(s) = 0
  <2>1. s \in Seq(S)
    BY SeqDef
  <2>2. QED
    BY <2>1, LenProperties
<1>2. QED
  BY <1>1, EmptySeq

(* Every step of the buffer is a step of the queue, or leaves it alone.     *)
LEMMA StepRefines ==
  IInv /\ IInv' /\ RingClosed /\ [Next]_vars => [Queue!Next]_(Queue!vars)
<1> SUFFICES ASSUME IInv, IInv', RingClosed, [Next]_vars
             PROVE  [Queue!Next]_(Queue!vars)
  OBVIOUS
<1>1. TypeOK /\ TypeOK' /\ m_size \in Nat /\ LockOwner
  BY DEF IInv, TypeOK
<1>2. ASSUME NEW p \in Producers, NEW f \in Frame, PutTest(p, f)
      PROVE  UNCHANGED Queue!vars
  <2>1. m_lock # p
    BY <1>1, <1>2 DEF PutTest, LockOwner, Threads
  <2>2. UNCHANGED <<Waiting, Written, m_getIndex, got>>
    BY <1>1, <1>2, <2>1 DEF PutTest, ring, Waiting, Written, TypeOK
  <2>3. QED
    BY <1>1, <2>2, Stutters
<1>3. ASSUME NEW p \in Producers, PutLock(p) PROVE Queue!Next
  <2>1. PICK f \in Frame : f = pframe[p]
    BY <1>1 DEF TypeOK
  <2>2. Queue!Put(f) \/ Queue!Overrun(f)
    BY <1>3, <2>1, PutRefines
  <2>3. QED
    BY <2>2 DEF Queue!Next
<1>4. ASSUME NEW p \in Producers, PutDone(p) PROVE UNCHANGED Queue!vars
  <2>1. m_lock = p
    BY <1>1, <1>4 DEF PutDone, LockOwner, Threads
  <2>2. UNCHANGED <<Waiting, Written, m_getIndex, got>>
    BY <1>1, <1>4, <2>1, BufferAssumption DEF PutDone, Waiting, Written
  <2>3. QED
    BY <1>1, <2>2, Stutters
<1>5. CASE GetTest \/ GetLock \/ RefUsed
  <2>1. UNCHANGED <<Waiting, Written, m_getIndex, got>>
    BY <1>1, <1>5, BufferAssumption DEF GetTest, GetLock, RefUsed, ring, Waiting, Written
  <2>2. QED
    BY <1>1, <2>1, Stutters
<1>6. CASE GetDone \/ GetRefDone
  BY <1>1, <1>6, TakeRefines DEF GetDone, GetRefDone, Queue!Next
<1>7. CASE ResetIndex
  <2>1. m_lock' \notin Producers /\ m_size' = 0 /\ got' = got
    BY <1>1, <1>7 DEF ResetIndex, LockOwner, Threads
  <2>2. Waiting' = 0
    BY <2>1 DEF Waiting
  <2>3. Content' = << >>
    <3>1. Content' \in [1 .. 0 -> {}]
      BY <2>2 DEF Content
    <3>2. QED
      BY <3>1, EmptyContent
  <2>4. QED
    BY <2>1, <2>3 DEF Queue!Next, Queue!Clear, Content, At
<1>8. CASE UNCHANGED vars
  <2>1. UNCHANGED <<Waiting, Written, m_getIndex, got>>
    BY <1>8 DEF vars, Waiting, Written
  <2>2. QED
    BY <1>1, <2>1, Stutters
<1>9. QED
  BY <1>2, <1>3, <1>4, <1>5, <1>6, <1>7, <1>8 DEF Next

-----------------------------------------------------------------------------

(* However the calls of any number of producers and the consumer of         *)
(* YangMediaBuffer interleave, the ring is the queue of FrameQueue.         *)
THEOREM Refines == Spec => IsQueue
<1>1. Init => RingClosed
  <2>1. 0 \in Slots /\ 0 + 0 = 0
    BY BufferAssumption DEF Slots
  <2>2. QED
    BY <2>1, AtFacts DEF Init, RingClosed
<1>2. Init => Queue!Init
  <2>1. SUFFICES ASSUME Init PROVE Queue!Init
    OBVIOUS
  <2>2. TypeOK /\ Waiting = 0 /\ got \in Frame
    BY <2>1, Initially, BufferAssumption DEF IInv, Init, Waiting
  <2>3. Content = << >>
    <3>1. Content \in [1 .. 0 -> {}]
      BY <2>2 DEF Content
    <3>2. QED
      BY <3>1, EmptyContent
  <2>4. QED
    BY <2>2, <2>3 DEF Queue!Init, Content, At
<1>3. Spec => []RingClosed
  BY <1>1, RingKept, Inductive, PTL DEF Spec
<1>4. QED
  BY <1>2, <1>3, StepRefines, Inductive, PTL DEF Spec, IsQueue, Queue!Spec

-----------------------------------------------------------------------------
(* The payload that getFrameRef handed out. *)

RefBehind ==
  pc[Consumer] = "ref" =>
    /\ m_getIndex = Following(ref)
    /\ Waiting < m_cache_num => m_frames[ref] = got

(* The slot that is written next is the one handed out only when it is the  *)
(* last free one.                                                           *)
LEMMA WrittenElsewhere ==
  ASSUME TypeOK, RingClosed, m_getIndex = Following(ref), m_size + 1 < m_cache_num
  PROVE  m_putIndex # ref
<1> DEFINE n == m_cache_num
<1>1. /\ n \in Nat \ {0} /\ m_size \in Nat /\ ref \in Nat /\ ref \in Slots
  BY BufferAssumption DEF TypeOK, Slots
<1>2. At(ref) = ref /\ m_getIndex = At(ref + 1)
  BY <1>1, AtFacts
<1>3. m_putIndex = At(ref + 1 + m_size)
  <2>1. ref + 1 \in Nat
    BY <1>1
  <2>2. At(At(ref + 1) + m_size) = At(ref + 1 + m_size)
    BY <1>1, <2>1, RemainderOfSum DEF At
  <2>3. QED
    BY <1>2, <2>2 DEF RingClosed
<1>4. At(ref) # At(ref + 1 + m_size)
  <2> DEFINE a == ref
             b == ref + 1 + m_size
  <2>1. a \in Nat /\ b \in Nat /\ a < b /\ b - a < n
    BY <1>1
  <2>2. a % n # b % n
    <3> HIDE DEF a, b, n
    <3>1. QED
      BY <1>1, <2>1, Apart
  <2>3. QED
    BY <2>2 DEF At
<1>5. QED
  BY <1>2, <1>3, <1>4

LEMMA RefKept == IInv /\ RingClosed /\ RefBehind /\ [Next]_vars => RefBehind'
<1> SUFFICES ASSUME IInv, RingClosed, RefBehind, [Next]_vars PROVE RefBehind'
  OBVIOUS
<1>1. /\ TypeOK /\ LockOwner /\ m_size \in Nat /\ ref \in Slots
      /\ Consumer \notin Producers /\ NoThread \notin Producers
  BY BufferAssumption DEF IInv, TypeOK
<1>2. ASSUME NEW p \in Producers, PutTest(p, pframe'[p]) PROVE RefBehind'
  <2>1. /\ pc'[Consumer] = pc[Consumer] /\ m_lock # p
        /\ UNCHANGED <<m_frames, m_getIndex, m_size, m_lock, got, ref>>
    BY <1>1, <1>2 DEF PutTest, ring, TypeOK, LockOwner, Threads
  <2>2. Waiting' = Waiting
    BY <2>1 DEF Waiting
  <2>3. QED
    BY <2>1, <2>2 DEF RefBehind, Following
<1>3. ASSUME NEW p \in Producers, PutLock(p) \/ PutDone(p) PROVE RefBehind'
  <2>1. /\ pc'[Consumer] = pc[Consumer]
        /\ UNCHANGED <<m_getIndex, got, ref>>
        /\ \A i \in Slots : i # m_putIndex => m_frames'[i] = m_frames[i]
    BY <1>1, <1>3 DEF PutLock, PutDone, TypeOK, Threads
  <2>2. Waiting' = m_size + 1 /\ (Waiting' < m_cache_num => Waiting < m_cache_num)
    <3>1. CASE PutLock(p)
      BY <1>1, <3>1, BufferAssumption DEF PutLock, Waiting
    <3>2. CASE PutDone(p)
      <4>1. m_lock = p
        BY <1>1, <3>2 DEF PutDone, LockOwner, Threads
      <4>2. QED
        BY <1>1, <3>2, <4>1 DEF PutDone, Waiting
    <3>3. QED
      BY <1>3, <3>1, <3>2
  <2>3. SUFFICES ASSUME pc[Consumer] = "ref", Waiting' < m_cache_num
                 PROVE  m_frames'[ref] = got
    BY <2>1 DEF RefBehind, Following
  <2>4. m_putIndex # ref
    BY <1>1, <2>2, <2>3, WrittenElsewhere DEF RefBehind
  <2>5. QED
    BY <1>1, <2>1, <2>2, <2>3, <2>4 DEF RefBehind
<1>4. CASE GetTest \/ GetLock \/ GetDone \/ RefUsed \/ ResetIndex
  <2>1. pc'[Consumer] # "ref"
    BY <1>1, <1>4 DEF GetTest, GetLock, GetDone, RefUsed, ResetIndex, TypeOK, Threads
  <2>2. QED
    BY <2>1 DEF RefBehind
<1>5. CASE GetRefDone
  BY <1>1, <1>5 DEF GetRefDone, TakeSlot, RefBehind, Following, TypeOK
<1>6. CASE UNCHANGED vars
  BY <1>6 DEF vars, RefBehind, Waiting, Following
<1>7. QED
  <2>1. ASSUME NEW p \in Producers, NEW f \in Frame, PutTest(p, f)
        PROVE  PutTest(p, pframe'[p])
    BY <1>1, <2>1 DEF PutTest, TypeOK
  <2>2. QED
    BY <1>2, <1>3, <1>4, <1>5, <1>6, <2>1 DEF Next

(* getFrameRef frees the slot before its payload is used, and still the     *)
(* payload stays the frame's until a frame takes the last free slot.        *)
THEOREM PayloadIntact == Spec => []RefIntact
<1>1. Init => RingClosed /\ RefBehind
  <2>1. 0 \in Slots /\ 0 + 0 = 0
    BY BufferAssumption DEF Slots
  <2>2. QED
    BY <2>1, AtFacts DEF Init, RingClosed, RefBehind, Threads
<1>2. RefBehind => RefIntact
  BY DEF RefBehind, RefIntact
<1>3. QED
  BY <1>1, <1>2, RingKept, RefKept, Inductive, PTL DEF Spec

=============================================================================
