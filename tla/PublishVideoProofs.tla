------------------------ MODULE PublishVideoProofs ------------------------
(***************************************************************************)
(* What the queue of the sending side points to, for every capacity, every *)
(* ring of buffers and every sequence space, whether or not one divides    *)
(* the other.  The audio track is an instance as well as the video track.  *)
(* At the end, the fragments of a frame, for every size of both.           *)
(***************************************************************************)
EXTENDS PublishVideo, SequenceTheorems, FiniteSetTheorems, WellFoundedInduction, TLAPS

(* How many packets were written after the one of a number, and of a        *)
(* buffer, if they hold any.                                                *)
Newest == IF apc = "encoded" THEN videoSeq ELSE Pred(videoSeq)
SeqAge(seq) == AheadOf(seq, Newest)
BufAge(b) == IF b <= index THEN index - b ELSE index - b + BufLen
Older(age) == IF sent > age THEN sent - age ELSE 0

Ranges ==
  /\ videoSeq \in SeqNo /\ index \in 0 .. BufLen - 1 /\ sent \in Nat
  /\ apc \in {"idle", "encoded", "cached", "protected"}
  /\ buffer \in [0 .. BufLen - 1 -> [packet : Nat, layers : 0 .. 1]]
  /\ queue \in [0 .. QueueCapacity - 1 -> Slot]
  /\ original \in [SeqNo -> Nat]

(* The numbers and the buffers are used in turn, ...                        *)
Numbered == \A seq \in SeqNo : original[seq] = Older(SeqAge(seq))
Written  == \A b \in 0 .. BufLen - 1 : buffer[b].packet = Older(BufAge(b))

(* ... and a slot's number and buffer belong together until the ring has    *)
(* gone round.                                                              *)
Together(q) ==
  LET slot == queue[q]
  IN  slot.buf # -1 =>
        /\ SlotOf(slot.seq) = q
        /\ Cached(slot.seq) /\ sent - original[slot.seq] < BufLen
             => BufAge(slot.buf) = sent - original[slot.seq]
Paired == \A q \in 0 .. QueueCapacity - 1 : Together(q)

IInv == Ranges /\ Numbered /\ Written /\ Paired /\ LastKept

-----------------------------------------------------------------------------
(* Slots. *)

LEMMA DivMod ==
  ASSUME NEW n \in Nat, NEW d \in Nat \ {0}
  PROVE  /\ n % d \in 0 .. d - 1
         /\ n \div d \in Int
         /\ n = d * (n \div d) + (n % d)
OBVIOUS

(* What is a multiple of d and above 0 is at least d.                       *)
LEMMA Multiples ==
  ASSUME NEW a \in Int, NEW b \in Int, NEW d \in Nat \ {0},
         d * a - d * b > 0
  PROVE  d * a - d * b >= d
<1>1. d * a - d * b = d * (a - b)
  OBVIOUS
<1>2. a - b \in Int /\ d * (a - b) > 0
  BY <1>1
<1>3. ASSUME NEW k \in Int, d * k > 0
      PROVE  d * k >= d
  BY <1>3
<1>4. QED
  BY <1>1, <1>2, <1>3

(* Numbers with the same remainder, on a line and across the end of a space *)
(* of n numbers.                                                            *)
LEMMA Congruent ==
  ASSUME NEW d \in Nat \ {0}, NEW i \in Int, NEW j \in Int, NEW u \in Int,
         NEW s \in Int, NEW t \in Int, s = d * i + u, t = d * j + u, t > s
  PROVE  t - s >= d
<1>1. d * j - d * i = t - s
  OBVIOUS
<1>2. QED
  BY <1>1, Multiples

LEMMA CongruentWrap ==
  ASSUME NEW d \in Nat \ {0}, NEW i \in Int, NEW j \in Int, NEW u \in Int,
         NEW s \in Int, NEW t \in Int, s = d * i + u, t = d * j + u,
         NEW k \in Int, NEW n \in Int, NEW rest \in 0 .. d - 1, n = d * k + rest,
         t - s + n > 0
  PROVE  t - s + n >= rest /\ (rest = 0 => t - s + n >= d)
<1> DEFINE m == j - i + k
<1>1. d * m = d * j - d * i + d * k
  OBVIOUS
<1>2. t - s + n = d * m + rest
  BY <1>1
<1>3. m \in Int /\ d * m > -d
  BY <1>2
<1>4. ASSUME NEW p \in Int, d * p > -d
      PROVE  d * p >= 0 /\ (d * p > 0 => d * p >= d)
  BY <1>4
<1>5. d * m >= 0 /\ (d * m > 0 => d * m >= d)
  BY <1>3, <1>4
<1>6. d * m \in Int
  BY <1>3
<1> HIDE DEF m
<1>7. QED
  BY <1>2, <1>5, <1>6

LEMMA SlotRange ==
  ASSUME NEW seq \in SeqNo
  PROVE  SlotOf(seq) \in 0 .. QueueCapacity - 1
BY DivMod, PublishAssumption, HalfAssumption DEF SlotOf, SeqNo, SeqSpace

LEMMA KeptRange == Kept \in Nat /\ Kept <= BufLen
<1>1. SeqSpace \in Nat
  BY HalfAssumption DEF SeqSpace
<1>2. SeqSpace % QueueCapacity \in Nat
  BY <1>1, DivMod, PublishAssumption
<1>3. QED
  BY <1>2, PublishAssumption DEF Kept

(* Two numbers that share a slot are at least Kept apart, across the wrap   *)
(* too.                                                                     *)
LEMMA SharedSlot ==
  ASSUME NEW s \in SeqNo, NEW t \in SeqNo, s # t, SlotOf(s) = SlotOf(t)
  PROVE  AheadOf(s, t) >= Kept
<1>1. /\ QueueCapacity \in Nat \ {0} /\ BufLen \in Nat \ {0} /\ SeqSpace \in Nat
      /\ s \in Nat /\ t \in Nat /\ s < SeqSpace /\ t < SeqSpace
  BY PublishAssumption, HalfAssumption DEF SeqSpace, SeqNo
<1> DEFINE C == QueueCapacity
           i == s \div C
           j == t \div C
           u == s % C
           k == SeqSpace \div C
           rest == SeqSpace % C
<1>2. i \in Int /\ u \in Int /\ s = C * i + u
  BY <1>1, DivMod
<1>3. j \in Int /\ t = C * j + u
  <2>1. u = t % C
    BY DEF SlotOf
  <2>2. QED
    BY <1>1, <2>1, DivMod
<1>4. k \in Int /\ rest \in 0 .. C - 1 /\ SeqSpace = C * k + rest
  BY <1>1, DivMod
<1>5. Kept <= C /\ (rest # 0 => Kept <= rest)
  BY <1>1, <1>4 DEF Kept
<1>6. CASE t > s
  <2>1. t - s >= C
    <3> HIDE DEF i, j, u, k, rest
    <3>1. QED
      BY <1>1, <1>2, <1>3, <1>6, Congruent
  <2>2. QED
    BY <1>1, <1>5, <1>6, <2>1, KeptRange DEF AheadOf
<1>7. CASE t < s
  <2>1. AheadOf(s, t) = t - s + SeqSpace /\ t - s + SeqSpace > 0
    BY <1>1, <1>7 DEF AheadOf
  <2>2. t - s + SeqSpace >= rest /\ (rest = 0 => t - s + SeqSpace >= C)
    <3> HIDE DEF i, j, u, k, rest
    <3>1. QED
      BY <1>1, <1>2, <1>3, <1>4, <2>1, CongruentWrap
  <2>3. QED
    BY <1>1, <1>4, <1>5, <2>1, <2>2, KeptRange
<1>8. QED
  BY <1>1, <1>6, <1>7

-----------------------------------------------------------------------------
(* The invariant. *)

LEMMA Initially == Init => IInv
<1> SUFFICES ASSUME Init PROVE IInv
  OBVIOUS
<1>1. Ranges
  <2>1. 0 \in SeqNo /\ 0 \in 0 .. BufLen - 1
    BY PublishAssumption, HalfAssumption DEF SeqNo, SeqSpace
  <2>2. QED
    BY <2>1 DEF Init, Ranges, Nothing, NoSlot, Slot
<1>2. Numbered
  BY HalfAssumption DEF Init, Numbered, Older, SeqAge, Newest, AheadOf, Pred, SeqNo, SeqSpace
<1>3. Written
  BY PublishAssumption DEF Init, Written, Older, BufAge, Nothing
<1>4. Paired /\ LastKept
  BY DEF Init, Paired, Together, NoSlot, LastKept, Cached
<1>5. QED
  BY <1>1, <1>2, <1>3, <1>4 DEF IInv

(* A step that leaves the numbers, the queue and the packets of the buffers *)
(* alone.                                                                   *)
LEMMA Untouched ==
  ASSUME IInv, Ranges',
         UNCHANGED <<videoSeq, index, queue, sent, original>>,
         (apc # "encoded" /\ apc' # "encoded") \/ UNCHANGED apc,
         \A b \in 0 .. BufLen - 1 : buffer'[b].packet = buffer[b].packet
  PROVE  IInv'
<1>1. Newest' = Newest /\ (\A seq : Cached(seq)' <=> Cached(seq))
  BY DEF Newest, Cached
<1>2. Numbered'
  BY <1>1 DEF IInv, Numbered, Older, SeqAge
<1>3. Written'
  BY DEF IInv, Written, Older, BufAge
<1>4. Paired'
  BY <1>1 DEF IInv, Paired, Together, BufAge
<1>5. LastKept'
  BY <1>1 DEF IInv, LastKept
<1>6. QED
  BY <1>2, <1>3, <1>4, <1>5 DEF IInv

(* Ciphering a buffer does not change which packet it holds.                *)
LEMMA ProtectFacts ==
  ASSUME Ranges, NEW n, ProtectBuffer(n)
  PROVE  /\ buffer' \in [0 .. BufLen - 1 -> [packet : Nat, layers : 0 .. 1]]
         /\ \A b \in 0 .. BufLen - 1 : buffer'[b].packet = buffer[b].packet
<1>1. Layers \in 0 .. 1
  BY DEF Layers
<1>2. ASSUME NEW b \in 0 .. BufLen - 1
      PROVE  (buffer[b].layers + Layers) % 2 \in 0 .. 1
  BY <1>1, <1>2 DEF Ranges
<1>3. QED
  BY <1>2 DEF ProtectBuffer, Ranges

LEMMA EncodeKeeps == ASSUME IInv, EncodeVideo PROVE IInv'
<1>1. /\ index \in 0 .. BufLen - 1 /\ videoSeq \in SeqNo /\ sent \in Nat
      /\ BufLen \in Nat \ {0} /\ SeqSpace \in Nat \ {0}
  BY PublishAssumption, HalfAssumption DEF IInv, Ranges, SeqSpace
<1>2. /\ apc = "idle" /\ apc' = "encoded" /\ index' = NextIndex
      /\ sent' = sent + 1 /\ queue' = queue /\ videoSeq' = videoSeq
      /\ buffer' = [buffer EXCEPT ![NextIndex] = [packet |-> sent + 1, layers |-> 0]]
      /\ original' = [original EXCEPT ![videoSeq] = sent + 1]
  BY DEF EncodeVideo
<1>3. NextIndex \in 0 .. BufLen - 1
  BY <1>1 DEF NextIndex
<1>4. Ranges'
  BY <1>1, <1>2, <1>3 DEF IInv, Ranges
<1>5. ASSUME NEW seq \in SeqNo
      PROVE  /\ seq # videoSeq => SeqAge(seq)' = SeqAge(seq) + 1
             /\ seq = videoSeq => SeqAge(seq)' = 0
             /\ SeqAge(seq) \in Nat
  BY <1>1, <1>2 DEF SeqAge, AheadOf, Newest, Pred, SeqNo
<1>6. Numbered'
  <2>1. ASSUME NEW seq \in SeqNo PROVE original'[seq] = Older(SeqAge(seq))'
    BY <1>1, <1>2, <1>5 DEF IInv, Numbered, Older, Ranges
  <2>2. QED
    BY <2>1 DEF Numbered
<1>7. ASSUME NEW b \in 0 .. BufLen - 1
      PROVE  /\ b # NextIndex => BufAge(b)' = BufAge(b) + 1
             /\ b = NextIndex => BufAge(b)' = 0
             /\ BufAge(b) \in 0 .. BufLen - 1
             /\ b = NextIndex => BufAge(b) = BufLen - 1
  BY <1>1, <1>2 DEF BufAge, NextIndex
<1>8. Written'
  <2>1. ASSUME NEW b \in 0 .. BufLen - 1 PROVE buffer'[b].packet = Older(BufAge(b))'
    <3>1. buffer \in [0 .. BufLen - 1 -> [packet : Nat, layers : 0 .. 1]]
      BY DEF IInv, Ranges
    <3>2. CASE b = NextIndex
      <4>1. buffer'[b].packet = sent + 1
        BY <1>2, <3>1, <3>2
      <4>2. BufAge(b)' = 0
        BY <1>7, <3>2
      <4>3. QED
        BY <1>1, <1>2, <4>1, <4>2 DEF Older
    <3>3. CASE b # NextIndex
      <4>1. buffer'[b].packet = Older(BufAge(b))
        BY <1>2, <3>1, <3>3 DEF IInv, Written
      <4>2. BufAge(b)' = BufAge(b) + 1 /\ BufAge(b) \in Nat
        BY <1>7, <3>3
      <4>3. QED
        BY <1>1, <1>2, <4>1, <4>2 DEF Older
    <3>4. QED
      BY <3>2, <3>3
  <2>2. QED
    BY <2>1 DEF Written
<1>10. ASSUME NEW seq \in SeqNo, Cached(seq)'
       PROVE  /\ seq # videoSeq /\ Cached(seq)
              /\ original'[seq] = original[seq] /\ original[seq] \in Nat
  <2>1. seq # videoSeq
    BY <1>1, <1>2, <1>10 DEF Cached, IInv, Ranges
  <2>2. original'[seq] = original[seq] /\ original[seq] \in Nat
    BY <1>2, <2>1 DEF IInv, Ranges
  <2>3. QED
    BY <1>2, <1>10, <2>1, <2>2 DEF Cached
<1>11. Paired'
  <2>1. SUFFICES ASSUME NEW q \in 0 .. QueueCapacity - 1, queue[q].buf # -1
                 PROVE  Together(q)'
    BY <1>2 DEF Paired, Together
  <2>2. Together(q)
    BY DEF IInv, Paired
  <2>3. PICK seq \in SeqNo, b \in 0 .. BufLen - 1 :
               queue[q].seq = seq /\ queue[q].buf = b
    <3>1. queue[q].seq \in SeqNo /\ queue[q].buf \in 0 .. BufLen - 1
      BY <1>1, <2>1 DEF IInv, Ranges, Slot
    <3>2. QED
      BY <3>1
  <2>4. ASSUME Cached(seq)', sent' - original'[seq] < BufLen
        PROVE  BufAge(b)' = sent' - original'[seq]
    <3>1. /\ Cached(seq) /\ original[seq] \in Nat
          /\ sent + 1 - original[seq] < BufLen /\ original'[seq] = original[seq]
      BY <1>1, <1>2, <1>10, <2>4
    <3>2. BufAge(b) = sent - original[seq]
      BY <1>1, <2>1, <2>2, <2>3, <3>1 DEF Together
    <3>3. BufAge(b) # BufLen - 1
      BY <1>1, <3>1, <3>2
    <3>4. BufAge(b)' = BufAge(b) + 1
      BY <1>7, <3>3
    <3>5. QED
      BY <1>1, <1>2, <3>1, <3>2, <3>4
  <2>5. SlotOf(seq) = q
    BY <2>1, <2>2, <2>3 DEF Together
  <2>6. queue'[q].seq = seq /\ queue'[q].buf = b
    BY <1>2, <2>3
  <2>7. queue'[q].buf # -1 => SlotOf(queue'[q].seq) = q
    BY <2>5, <2>6
  <2>8. /\ Cached(queue[q].seq)' <=> Cached(seq)'
        /\ BufAge(queue[q].buf)' = BufAge(b)'
        /\ original'[queue'[q].seq] = original'[seq]
    BY <2>6 DEF Cached, BufAge
  <2>9. QED
    BY <2>4, <2>7, <2>8 DEF Together
<1>12. LastKept'
  <2>1. ASSUME NEW seq \in SeqNo, Cached(seq)', sent' - original'[seq] < Kept
        PROVE  queue'[SlotOf(seq)].seq = seq /\ queue'[SlotOf(seq)].buf # -1
    <3>1. Cached(seq) /\ original'[seq] = original[seq] /\ original[seq] \in Nat
      BY <1>10, <2>1
    <3>2. sent' = sent + 1 /\ queue' = queue
      BY <1>2
    <3>3. sent - original[seq] < Kept
      BY <1>1, <2>1, <3>1, <3>2, KeptRange
    <3>4. queue[SlotOf(seq)].seq = seq /\ queue[SlotOf(seq)].buf # -1
      BY <3>1, <3>3 DEF IInv, LastKept
    <3>5. QED
      BY <3>2, <3>4
  <2>2. QED
    BY <2>1 DEF LastKept, Kept, SlotOf
<1>13. QED
  BY <1>4, <1>6, <1>8, <1>11, <1>12 DEF IInv

LEMMA CacheKeeps == ASSUME IInv, CacheNack PROVE IInv'
<1>1. /\ index \in 0 .. BufLen - 1 /\ videoSeq \in SeqNo /\ sent \in Nat
      /\ BufLen \in Nat \ {0} /\ SeqSpace \in Nat \ {0}
      /\ \A seq \in SeqNo : original[seq] \in Nat
  BY PublishAssumption, HalfAssumption DEF IInv, Ranges, SeqSpace
<1>2. /\ apc = "encoded" /\ apc' = "cached" /\ videoSeq' = Succ(videoSeq)
      /\ queue' = [queue EXCEPT ![SlotOf(videoSeq)] = [seq |-> videoSeq, buf |-> index]]
      /\ UNCHANGED <<index, buffer, sent, original>>
  BY DEF CacheNack
<1>3. SlotOf(videoSeq) \in 0 .. QueueCapacity - 1
  BY <1>1, SlotRange
<1>4. Ranges'
  <2>1. Succ(videoSeq) \in SeqNo
    BY <1>1 DEF Succ, SeqNo
  <2>2. [seq |-> videoSeq, buf |-> index] \in Slot
    BY <1>1 DEF Slot
  <2>3. QED
    BY <1>2, <1>3, <2>1, <2>2 DEF IInv, Ranges
<1>5. Newest' = videoSeq /\ Newest = videoSeq
  BY <1>1, <1>2 DEF Newest, Pred, Succ, SeqNo
<1>6. Numbered' /\ Written'
  BY <1>2, <1>5 DEF IInv, Numbered, Written, Older, SeqAge, BufAge
<1>7. original[videoSeq] = sent
  BY <1>1, <1>5 DEF IInv, Numbered, Older, SeqAge, AheadOf, SeqNo
<1>8. ASSUME NEW seq \in SeqNo, Cached(seq)', seq # videoSeq
      PROVE  Cached(seq) /\ sent - original[seq] = AheadOf(seq, videoSeq)
  <2>1. original[seq] # 0 /\ original[seq] = Older(AheadOf(seq, videoSeq))
    BY <1>2, <1>5, <1>8 DEF Cached, IInv, Numbered, SeqAge
  <2>2. AheadOf(seq, videoSeq) \in Nat \ {0}
    BY <1>1, <1>8 DEF AheadOf, SeqNo
  <2>3. QED
    BY <1>1, <2>1, <2>2 DEF Older, Cached
<1>9. Paired'
  <2>1. SUFFICES ASSUME NEW q \in 0 .. QueueCapacity - 1 PROVE Together(q)'
    BY DEF Paired
  <2>2. CASE q = SlotOf(videoSeq)
    <3>1. queue'[q] = [seq |-> videoSeq, buf |-> index]
      BY <1>2, <1>3, <2>2 DEF IInv, Ranges
    <3>2. index' - index = 0 /\ sent' - original'[videoSeq] = 0
      BY <1>1, <1>2, <1>7
    <3>3. index' = index /\ index <= index
      BY <1>1, <1>2
    <3>4. QED
      BY <2>2, <3>1, <3>2, <3>3 DEF Together, SlotOf, BufAge
  <2>3. CASE q # SlotOf(videoSeq)
    <3>1. queue'[q] = queue[q] /\ Together(q)
      BY <1>2, <2>3 DEF IInv, Ranges, Paired
    <3>2. queue[q].seq \in SeqNo
      BY DEF IInv, Ranges, Slot
    <3>3. queue[q].buf # -1 /\ Cached(queue[q].seq)' => Cached(queue[q].seq)
      BY <1>8, <2>3, <3>1, <3>2 DEF Together
    <3>4. QED
      BY <1>2, <3>1, <3>3 DEF Together, BufAge, SlotOf
  <2>4. QED
    BY <2>2, <2>3
<1>10. LastKept'
  <2>1. SUFFICES ASSUME NEW seq \in SeqNo, Cached(seq)', sent - original[seq] < Kept
                 PROVE  queue'[SlotOf(seq)].seq = seq /\ queue'[SlotOf(seq)].buf # -1
    BY <1>2 DEF LastKept, Kept, SlotOf
  <2>2. CASE seq = videoSeq
    BY <1>1, <1>2, <1>3, <2>2 DEF IInv, Ranges
  <2>3. CASE seq # videoSeq
    <3>1. Cached(seq) /\ AheadOf(seq, videoSeq) < Kept
      BY <1>8, <2>1, <2>3
    <3>2. AheadOf(seq, videoSeq) \in Int
      BY <1>1 DEF AheadOf, SeqNo
    <3>3. SlotOf(seq) # SlotOf(videoSeq)
      BY <1>1, <2>3, <3>1, <3>2, SharedSlot, KeptRange
    <3>4. queue'[SlotOf(seq)] = queue[SlotOf(seq)]
      BY <1>2, <3>3, SlotRange DEF IInv, Ranges
    <3>5. QED
      BY <2>1, <3>1, <3>4 DEF IInv, LastKept
  <2>4. QED
    BY <2>2, <2>3
<1>11. QED
  BY <1>4, <1>6, <1>9, <1>10 DEF IInv

LEMMA Inductive == IInv /\ [Next]_vars => IInv'
<1> SUFFICES ASSUME IInv, [Next]_vars PROVE IInv'
  OBVIOUS
<1>1. CASE EncodeVideo
  BY <1>1, EncodeKeeps
<1>2. CASE CacheNack
  BY <1>2, CacheKeeps
<1>3. CASE Protect
  <2>1. Ranges'
    BY <1>3, ProtectFacts DEF Protect, IInv, Ranges
  <2>2. QED
    BY <1>3, <2>1, ProtectFacts, Untouched DEF Protect, IInv
<1>4. CASE ReProtect
  <2>1. Ranges'
    BY <1>4, ProtectFacts DEF ReProtect, IInv, Ranges, appVars
  <2>2. QED
    BY <1>4, <2>1, ProtectFacts, Untouched DEF ReProtect, IInv, appVars
<1>5. CASE \/ \E nb \in FrameSizes : OnVideo(nb)
           \/ OnSpsPps
           \/ \E ok \in BOOLEAN : SendData(ok)
           \/ \E n \in 1 .. MaxNack : \E seqs \in [1 .. n -> Missable] : OnRtcpNack(seqs)
           \/ OnRecvNack
           \/ \E ok \in BOOLEAN : SendNackPacket(ok)
           \/ UNCHANGED vars
  <2>1. /\ UNCHANGED <<videoSeq, index, buffer, queue, sent, original>>
        /\ apc' = apc \/ (apc = "protected" /\ apc' = "idle")
    BY <1>5 DEF OnVideo, OnSpsPps, SendData, OnRtcpNack, OnRecvNack,
                SendNackPacket, vars, appVars
  <2>2. Ranges'
    BY <2>1 DEF IInv, Ranges
  <2>3. QED
    BY <2>1, <2>2, Untouched
<1>6. QED
  BY <1>1, <1>2, <1>3, <1>4, <1>5 DEF Next, AppStep, UdpStep

-----------------------------------------------------------------------------

(* What the UDP thread finds in a slot is the packet last sent under that   *)
(* number, as long as the ring has not gone round since; and the last Kept  *)
(* packets are all found, wraps of the sequence space included.             *)
THEOREM FoundAsSent == Spec => []QueueIntact
<1>1. IInv => SlotsIntact
  <2>1. SUFFICES ASSUME IInv, NEW q \in DOMAIN queue, queue[q].buf # -1,
                        Cached(queue[q].seq), sent - original[queue[q].seq] < BufLen
                 PROVE  buffer[queue[q].buf].packet = original[queue[q].seq]
    BY DEF SlotsIntact
  <2>2. q \in 0 .. QueueCapacity - 1 /\ queue[q] \in Slot
    BY <2>1 DEF IInv, Ranges
  <2>3. /\ queue[q].buf \in 0 .. BufLen - 1 /\ queue[q].seq \in SeqNo
        /\ original[queue[q].seq] \in Nat \ {0} /\ sent \in Nat
    BY <2>1, <2>2, PublishAssumption DEF Slot, IInv, Ranges, Cached
  <2>4. BufAge(queue[q].buf) = sent - original[queue[q].seq]
    BY <2>1, <2>2 DEF IInv, Paired, Together
  <2>5. buffer[queue[q].buf].packet = Older(BufAge(queue[q].buf))
    BY <2>1, <2>3 DEF IInv, Written
  <2>6. QED
    BY <2>3, <2>4, <2>5 DEF Older
<1>2. IInv => QueueIntact
  BY <1>1 DEF QueueIntact, IInv
<1>3. QED
  BY <1>2, Initially, Inductive, PTL DEF Spec

-----------------------------------------------------------------------------
(* Types. *)

Asked == [seq : SeqNo, packet : Nat]
UdpRanges ==
  /\ upc \in {"idle", "fetched", "protected"}
  /\ held \in [seq : SeqNo, buf : -1 .. BufLen - 1, packet : Nat, freed : BOOLEAN]
  /\ nacked \in Seq(Asked)

LEMMA UdpKeeps == Ranges /\ UdpRanges /\ [Next]_vars => UdpRanges'
<1> SUFFICES ASSUME Ranges, UdpRanges, [Next]_vars PROVE UdpRanges'
  OBVIOUS
<1>1. 0 \in SeqNo /\ BufLen \in Nat \ {0}
  BY PublishAssumption, HalfAssumption DEF SeqNo, SeqSpace
<1>2. CASE CacheNack
  <2>1. CASE held' = held
    BY <1>2, <2>1 DEF CacheNack, UdpRanges
  <2>2. CASE \E b \in 0 .. BufLen - 1 : held' = [held EXCEPT !.buf = b, !.freed = TRUE]
    <3>1. PICK b \in 0 .. BufLen - 1 : held' = [held EXCEPT !.buf = b, !.freed = TRUE]
      BY <2>2
    <3>2. b \in -1 .. BufLen - 1
      BY <1>1
    <3>3. held' \in [seq : SeqNo, buf : -1 .. BufLen - 1, packet : Nat, freed : BOOLEAN]
      BY <3>1, <3>2 DEF UdpRanges
    <3>4. QED
      BY <1>2, <3>3 DEF CacheNack, UdpRanges
  <2>3. QED
    BY <1>2, <2>1, <2>2 DEF CacheNack
<1>3. ASSUME NEW n \in 1 .. MaxNack, NEW seqs \in [1 .. n -> Missable], OnRtcpNack(seqs)
      PROVE  UdpRanges'
  <2>1. n \in Nat /\ DOMAIN seqs = 1 .. n
    BY PublishAssumption
  <2>2. \A i \in 1 .. n : seqs[i] \in SeqNo /\ original[seqs[i]] \in Nat
    BY DEF Missable, Ranges
  <2>3. nacked' = [i \in 1 .. n |-> [seq |-> seqs[i], packet |-> original[seqs[i]]]]
    BY <1>3, <2>1 DEF OnRtcpNack
  <2>4. nacked' \in [1 .. n -> Asked]
    BY <2>2, <2>3 DEF Asked
  <2>5. nacked' \in Seq(Asked)
    BY <2>1, <2>4, SeqDef
  <2>6. QED
    BY <1>3, <2>5 DEF OnRtcpNack, UdpRanges
<1>4. CASE OnRecvNack
  <2>1. nacked # <<>> /\ nacked \in Seq(Asked)
    BY <1>4 DEF OnRecvNack, UdpRanges
  <2>2. Head(nacked) \in Asked /\ Tail(nacked) \in Seq(Asked)
    BY <2>1, HeadTailProperties
  <2>3. Head(nacked).seq \in SeqNo /\ Head(nacked).packet \in Nat
    BY <2>2 DEF Asked
  <2>4. Fetch(Head(nacked).seq).buf \in -1 .. BufLen - 1
    <3>1. queue[SlotOf(Head(nacked).seq)] \in Slot
      BY <2>3, SlotRange DEF Ranges
    <3>2. NoSlot.buf \in -1 .. BufLen - 1
      BY <1>1 DEF NoSlot
    <3>3. QED
      BY <3>1, <3>2 DEF Fetch, Slot
  <2>5. held' \in [seq : SeqNo, buf : -1 .. BufLen - 1, packet : Nat, freed : BOOLEAN]
    BY <1>4, <2>3, <2>4 DEF OnRecvNack
  <2>6. nacked' \in Seq(Asked) /\ upc' \in {"idle", "fetched"}
    BY <1>4, <2>2 DEF OnRecvNack
  <2>7. QED
    BY <2>5, <2>6 DEF UdpRanges
<1>5. ASSUME NEW ok \in BOOLEAN, SendNackPacket(ok) PROVE UdpRanges'
  <2>1. nacked' \in Seq(Asked)
    BY <1>5, EmptySeq DEF SendNackPacket, UdpRanges
  <2>2. None \in [seq : SeqNo, buf : -1 .. BufLen - 1, packet : Nat, freed : BOOLEAN]
    BY <1>1 DEF None
  <2>3. QED
    BY <1>5, <2>1, <2>2 DEF SendNackPacket, UdpRanges
<1>6. CASE \/ \E nb \in FrameSizes : OnVideo(nb)
           \/ OnSpsPps \/ EncodeVideo \/ Protect \/ ReProtect
           \/ \E ok \in BOOLEAN : SendData(ok)
           \/ UNCHANGED vars
  BY <1>6 DEF OnVideo, OnSpsPps, EncodeVideo, Protect, ReProtect, SendData,
              udpVars, appVars, vars, UdpRanges
<1>7. QED
  BY <1>2, <1>3, <1>4, <1>5, <1>6 DEF Next, AppStep, UdpStep

(* The ring's index, the queue's slots and what the UDP thread has in hand  *)
(* stay in their ranges, for video and audio alike.                         *)
THEOREM Typing == Spec => []TypeOK
<1>1. Init => UdpRanges
  <2>1. SUFFICES ASSUME Init PROVE UdpRanges
    OBVIOUS
  <2>2. 0 \in SeqNo /\ -1 \in -1 .. BufLen - 1
    BY PublishAssumption, HalfAssumption DEF SeqNo, SeqSpace
  <2>3. nacked \in Seq(Asked)
    BY <2>1, EmptySeq DEF Init
  <2>4. QED
    BY <2>1, <2>2, <2>3 DEF Init, UdpRanges, None
<1>2. IInv /\ UdpRanges => TypeOK
  BY DEF IInv, Ranges, UdpRanges, TypeOK, Asked
<1>3. IInv => Ranges
  BY DEF IInv
<1>4. QED
  BY <1>1, <1>2, <1>3, Initially, Inductive, UdpKeeps, PTL DEF Spec

-----------------------------------------------------------------------------
(* What answers a NACK, in a session that does not cipher: the case the     *)
(* code's shared buffers allow: with ciphers a checked run finds it false.  *)

PlainSession == HaveDtls = FALSE /\ BufLen <= SeqSpace

Record == [seq : SeqNo, buf : -1 .. BufLen - 1, packet : Nat, freed : BOOLEAN]

(* The peer means the packet last sent under the number, or one so old that *)
(* the ring has gone round.                                                 *)
Means(seq, packet) ==
  /\ packet # 0 /\ packet <= sent
  /\ sent - packet >= BufLen \/ (packet = original[seq] /\ Cached(seq))
AskedFor == \A i \in 1 .. Len(nacked) : Means(nacked[i].seq, nacked[i].packet)

(* The buffer in the UDP thread's hand is the one that packet was written   *)
(* to.                                                                      *)
Holds(h) ==
  /\ h.buf # -1 /\ Means(h.seq, h.packet)
  /\ \/ sent - h.packet >= BufLen
     \/ sent - h.packet >= Kept /\ h.freed
     \/ BufAge(h.buf) = sent - h.packet
InHand == upc # "idle" => Holds(held)

Plain == \A b \in 0 .. BufLen - 1 : buffer[b].layers = 0

PInv == IInv /\ UdpRanges /\ AskedFor /\ InHand /\ Plain

LEMMA PlainKeeps == ASSUME PlainSession, PInv, [Next]_vars PROVE Plain'
<1>1. ASSUME NEW n, ProtectBuffer(n) PROVE Plain'
  BY <1>1 DEF ProtectBuffer, Plain, PInv, PlainSession, Layers, IInv, Ranges
<1>2. CASE EncodeVideo
  <2>1. buffer' = [buffer EXCEPT ![NextIndex] = [packet |-> sent + 1, layers |-> 0]]
    BY <1>2 DEF EncodeVideo
  <2>2. QED
    BY <2>1 DEF Plain, PInv, IInv, Ranges
<1>3. CASE buffer' = buffer
  BY <1>3 DEF Plain, PInv
<1>4. Protect \/ ReProtect \/ EncodeVideo \/ buffer' = buffer
  BY DEF Next, AppStep, UdpStep, OnVideo, OnSpsPps, SendData, CacheNack, OnRtcpNack,
         OnRecvNack, SendNackPacket, vars, appVars, udpVars
<1>5. QED
  BY <1>1, <1>2, <1>3, <1>4 DEF Protect, ReProtect

(* What the peer means stays what it is, whatever is written since.         *)
LEMMA MeansKeeps ==
  ASSUME PlainSession, IInv, [Next]_vars,
         NEW seq \in SeqNo, NEW packet \in Nat, Means(seq, packet)
  PROVE  Means(seq, packet)'
<1>1. /\ sent \in Nat /\ original[seq] \in Nat /\ BufLen \in Nat \ {0} /\ SeqSpace \in Nat \ {0}
      /\ BufLen <= SeqSpace /\ videoSeq \in SeqNo
  BY PublishAssumption, HalfAssumption DEF PlainSession, IInv, Ranges, SeqSpace
<1>2. CASE EncodeVideo
  <2>1. /\ apc = "idle" /\ apc' = "encoded" /\ sent' = sent + 1
        /\ original' = [original EXCEPT ![videoSeq] = sent + 1]
    BY <1>2 DEF EncodeVideo
  <2>2. packet # 0 /\ packet <= sent' /\ sent' - packet = (sent - packet) + 1
    BY <1>1, <2>1 DEF Means
  <2>3. CASE sent - packet >= BufLen
    BY <1>1, <2>2, <2>3 DEF Means
  <2>4. CASE packet = original[seq] /\ seq = videoSeq
    <3>1. SeqAge(seq) = SeqSpace - 1
      BY <1>1, <2>1, <2>4 DEF SeqAge, AheadOf, Newest, Pred, SeqNo
    <3>2. packet = Older(SeqSpace - 1)
      BY <2>4, <3>1 DEF IInv, Numbered
    <3>3. sent - packet = SeqSpace - 1
      BY <1>1, <2>2, <3>2 DEF Older
    <3>4. sent' - packet >= BufLen
      BY <1>1, <2>2, <3>3
    <3>5. QED
      BY <2>2, <3>4 DEF Means
  <2>5. CASE packet = original[seq] /\ seq # videoSeq
    <3>1. original'[seq] = packet
      BY <2>1, <2>5 DEF IInv, Ranges
    <3>2. original'[seq] # 0 /\ original'[seq] # sent'
      BY <1>1, <2>1, <2>2, <3>1 DEF Means
    <3>3. QED
      BY <2>2, <3>1, <3>2 DEF Means, Cached
  <2>6. QED
    BY <2>3, <2>4, <2>5 DEF Means
<1>3. CASE sent' = sent /\ original' = original /\ (apc' # "encoded" \/ apc' = apc)
  BY <1>3 DEF Means, Cached
<1>4. QED
  <2>1. \/ EncodeVideo
        \/ sent' = sent /\ original' = original /\ (apc' # "encoded" \/ apc' = apc)
    BY DEF Next, AppStep, UdpStep, OnVideo, OnSpsPps, SendData, CacheNack, Protect,
           ReProtect, OnRtcpNack, OnRecvNack, SendNackPacket, vars, appVars, udpVars
  <2>2. QED
    BY <1>2, <1>3, <2>1

LEMMA AskedKeeps == ASSUME PlainSession, PInv, [Next]_vars PROVE AskedFor'
<1>1. nacked \in Seq(Asked) /\ AskedFor /\ IInv
  BY DEF PInv, UdpRanges
<1>2. ASSUME NEW n \in 1 .. MaxNack, NEW seqs \in [1 .. n -> Missable], OnRtcpNack(seqs)
      PROVE  AskedFor'
  <2>1. /\ n \in Nat /\ DOMAIN seqs = 1 .. n
        /\ UNCHANGED <<sent, original, apc>>
    BY <1>2, PublishAssumption DEF OnRtcpNack, appVars
  <2>2. nacked' = [i \in 1 .. n |-> [seq |-> seqs[i], packet |-> original[seqs[i]]]]
    BY <1>2, <2>1 DEF OnRtcpNack
  <2>3. Len(nacked') = n
    <3>1. nacked' \in [1 .. n -> Asked]
      BY <2>2 DEF Missable, Asked, IInv, Ranges, PInv
    <3>2. nacked' \in Seq(Asked)
      BY <2>1, <3>1, SeqDef
    <3>3. Len(nacked') \in Nat /\ 1 .. Len(nacked') = 1 .. n
      BY <3>1, <3>2, LenProperties
    <3>4. QED
      BY <2>1, <3>3
  <2>4. ASSUME NEW i \in 1 .. n PROVE Means(seqs[i], original[seqs[i]])'
    <3>1. seqs[i] \in SeqNo /\ original[seqs[i]] \in Nat \ {0}
      BY DEF Missable, PInv, IInv, Ranges
    <3>2. SeqAge(seqs[i]) \in Nat /\ sent \in Nat
      <4>1. videoSeq \in SeqNo /\ sent \in Nat /\ SeqSpace \in Nat \ {0}
        BY <1>1, HalfAssumption DEF IInv, Ranges, SeqSpace
      <4>2. Newest \in SeqNo
        BY <4>1 DEF Newest, Pred, SeqNo
      <4>3. QED
        BY <3>1, <4>1, <4>2 DEF SeqAge, AheadOf, SeqNo
    <3>3. original[seqs[i]] <= sent
      BY <3>1, <3>2 DEF PInv, IInv, Numbered, Older
    <3>4. Cached(seqs[i])
      BY DEF Missable, Cached
    <3>5. Means(seqs[i], original[seqs[i]])
      BY <3>1, <3>3, <3>4 DEF Means
    <3>6. QED
      BY <2>1, <3>5 DEF Means, Cached
  <2>5. QED
    BY <2>1, <2>2, <2>3, <2>4 DEF AskedFor, Means, Cached
<1>3. ASSUME \/ nacked' = nacked
             \/ nacked' = Tail(nacked) /\ nacked # <<>>
             \/ nacked' = <<>>
      PROVE  AskedFor'
  <2>1. ASSUME NEW i \in 1 .. Len(nacked')
        PROVE  \E j \in 1 .. Len(nacked) : nacked'[i] = nacked[j]
    <3>1. CASE nacked' = Tail(nacked) /\ nacked # <<>>
      <4>1. Len(nacked) \in Nat /\ Len(nacked') = Len(nacked) - 1
        BY <1>1, <3>1, HeadTailProperties, LenProperties
      <4>2. nacked'[i] = nacked[i + 1] /\ i + 1 \in 1 .. Len(nacked)
        BY <1>1, <2>1, <3>1, <4>1, HeadTailProperties
      <4>3. QED
        BY <4>2
    <3>2. CASE nacked' = <<>>
      BY <2>1, <3>2
    <3>3. QED
      BY <1>3, <2>1, <3>1, <3>2
  <2>2. ASSUME NEW i \in 1 .. Len(nacked')
        PROVE  Means(nacked[i].seq, nacked[i].packet)'
    <3>1. PICK j \in 1 .. Len(nacked) : nacked'[i] = nacked[j]
      BY <2>1
    <3>2. nacked[j] \in Asked
      BY <1>1, ElementOfSeq
    <3>3. PICK seq \in SeqNo, packet \in Nat : nacked[j].seq = seq /\ nacked[j].packet = packet
      BY <3>2 DEF Asked
    <3>4. Means(seq, packet)
      BY <1>1, <3>3 DEF AskedFor
    <3>5. Means(seq, packet)'
      BY <1>1, <3>4, MeansKeeps
    <3>6. QED
      BY <3>1, <3>3, <3>5 DEF Means, Cached
  <2>3. QED
    BY <2>2 DEF AskedFor
<1>4. CASE OnRecvNack
  BY <1>3, <1>4 DEF OnRecvNack
<1>5. ASSUME NEW ok \in BOOLEAN, SendNackPacket(ok) PROVE AskedFor'
  BY <1>3, <1>5 DEF SendNackPacket
<1>6. CASE AppStep \/ ReProtect \/ UNCHANGED vars
  BY <1>3, <1>6 DEF AppStep, OnVideo, OnSpsPps, EncodeVideo, CacheNack, Protect, ReProtect,
                    SendData, udpVars, appVars, vars
<1>7. QED
  BY <1>2, <1>4, <1>5, <1>6 DEF Next, UdpStep

(* The buffer in hand ages as its packet does.                              *)
LEMMA HoldsKeeps ==
  ASSUME PlainSession, IInv, [Next]_vars, NEW h \in Record, Holds(h)
  PROVE  Holds(h)'
<1>1. PICK seq \in SeqNo, b \in 0 .. BufLen - 1, packet \in Nat :
             h.seq = seq /\ h.buf = b /\ h.packet = packet
  <2>1. h.seq \in SeqNo /\ h.packet \in Nat /\ h.buf \in 0 .. BufLen - 1
    BY PublishAssumption DEF Record, Holds
  <2>2. QED
    BY <2>1
<1>2. Means(seq, packet) /\ Means(seq, packet)'
  <2>1. Means(seq, packet)
    BY <1>1 DEF Holds
  <2>2. QED
    BY <2>1, MeansKeeps
<1>3. /\ sent \in Nat /\ BufLen \in Nat \ {0} /\ index \in 0 .. BufLen - 1
      /\ packet <= sent /\ h.buf # -1
  BY <1>2, PublishAssumption DEF IInv, Ranges, Means, Holds
<1>4. CASE EncodeVideo
  <2>1. sent' = sent + 1 /\ index' = NextIndex
    BY <1>4 DEF EncodeVideo
  <2>2. /\ b # NextIndex => BufAge(b)' = BufAge(b) + 1
        /\ BufAge(b) \in Int
        /\ b = NextIndex => BufAge(b) = BufLen - 1
    BY <1>3, <2>1 DEF BufAge, NextIndex
  <2>3. sent' - packet = (sent - packet) + 1 /\ sent - packet \in Nat
    BY <1>3, <2>1
  <2>4. \/ sent - packet >= BufLen
        \/ sent - packet >= Kept /\ h.freed
        \/ BufAge(b) = sent - packet
    BY <1>1 DEF Holds
  <2>5. \/ sent' - packet >= BufLen
        \/ sent' - packet >= Kept /\ h.freed
        \/ BufAge(b)' = sent' - packet
    <3>1. CASE sent - packet >= BufLen
      BY <1>3, <2>3, <3>1
    <3>2. CASE sent - packet >= Kept /\ h.freed
      BY <2>3, <3>2, KeptRange
    <3>3. CASE BufAge(b) = sent - packet
      BY <1>3, <2>2, <2>3, <3>3
    <3>4. QED
      BY <2>4, <3>1, <3>2, <3>3
  <2>6. Kept' = Kept
    BY DEF Kept
  <2>7. QED
    BY <1>1, <1>2, <1>3, <2>5, <2>6 DEF Holds, Means, Cached, BufAge
<1>5. CASE sent' = sent /\ index' = index
  BY <1>1, <1>2, <1>5 DEF Holds, Means, Cached, BufAge, Kept
<1>6. EncodeVideo \/ (sent' = sent /\ index' = index)
  BY DEF Next, AppStep, UdpStep, OnVideo, OnSpsPps, SendData, CacheNack, Protect,
         ReProtect, OnRtcpNack, OnRecvNack, SendNackPacket, vars, appVars, udpVars
<1>7. QED
  BY <1>4, <1>5, <1>6

(* A record is freed in the UDP thread's hand by a later number of its      *)
(* slot: at least Kept packets later.                                       *)
LEMMA FreedLate ==
  ASSUME PlainSession, IInv, CacheNack, NEW seq \in SeqNo, NEW packet \in Nat,
         Means(seq, packet), SlotOf(seq) = SlotOf(videoSeq)
  PROVE  sent - packet >= Kept
<1>1. /\ videoSeq \in SeqNo /\ sent \in Nat /\ apc = "encoded"
      /\ original[seq] \in Nat /\ SeqSpace \in Nat \ {0} /\ BufLen \in Nat \ {0}
  <2>1. apc = "encoded"
    BY DEF CacheNack
  <2>2. QED
    BY <2>1, PublishAssumption, HalfAssumption DEF IInv, Ranges, SeqSpace
<1>2. CASE sent - packet >= BufLen
  BY <1>1, <1>2, KeptRange
<1>3. CASE packet = original[seq] /\ Cached(seq)
  <2>1. packet = Older(AheadOf(seq, videoSeq)) /\ packet # 0 /\ packet # sent
    BY <1>1, <1>3 DEF IInv, Numbered, SeqAge, Newest, Cached
  <2>2. AheadOf(seq, videoSeq) \in Nat
    BY <1>1 DEF AheadOf, SeqNo
  <2>3. sent - packet = AheadOf(seq, videoSeq)
    BY <1>1, <2>1, <2>2 DEF Older
  <2>4. seq # videoSeq
    BY <1>1, <2>1, <2>3 DEF AheadOf, SeqNo
  <2>5. QED
    BY <1>1, <2>3, <2>4, SharedSlot
<1>4. QED
  BY <1>2, <1>3 DEF Means

LEMMA InHandKeeps == ASSUME PlainSession, PInv, [Next]_vars PROVE InHand'
<1>1. IInv /\ InHand /\ AskedFor /\ held \in Record /\ nacked \in Seq(Asked)
  BY DEF PInv, UdpRanges, Record
<1>2. CASE held' = held /\ (upc' = "idle" \/ upc # "idle")
  <2>1. SUFFICES ASSUME upc' # "idle" PROVE Holds(held)'
    BY DEF InHand
  <2>2. PICK h \in Record : h = held
    BY <1>1
  <2>3. Holds(h)
    BY <1>1, <1>2, <2>1, <2>2 DEF InHand
  <2>4. Holds(h)'
    BY <1>1, <2>3, HoldsKeeps
  <2>5. held' = h
    BY <1>2, <2>2
  <2>6. QED
    BY <2>4, <2>5 DEF Holds, Means, Cached, BufAge, Kept
<1>3. CASE CacheNack /\ held' # held
  <2>1. upc = "fetched" /\ SlotOf(held.seq) = SlotOf(videoSeq)
    BY <1>3 DEF CacheNack
  <2>2. PICK b \in 0 .. BufLen - 1 : held' = [held EXCEPT !.buf = b, !.freed = TRUE]
    BY <1>3 DEF CacheNack
  <2>3. /\ held.seq \in SeqNo /\ held.packet \in Nat
        /\ held'.seq = held.seq /\ held'.packet = held.packet
    BY <1>1, <2>2 DEF Record
  <2>4. held'.buf # -1 /\ held'.freed
    BY <1>1, <2>2, PublishAssumption DEF Record
  <2>5. Means(held.seq, held.packet)
    BY <1>1, <2>1 DEF InHand, Holds
  <2>6. sent - held.packet >= Kept
    BY <1>1, <1>3, <2>1, <2>3, <2>5, FreedLate
  <2>7. PICK seq \in SeqNo, packet \in Nat : held.seq = seq /\ held.packet = packet
    BY <2>3
  <2>8. Means(seq, packet)'
    BY <1>1, <2>5, <2>7, MeansKeeps
  <2>9. sent' = sent /\ Kept' = Kept
    BY <1>3 DEF CacheNack, Kept
  <2>10. Means(held.seq, held.packet)'
    BY <2>3, <2>7, <2>8 DEF Means, Cached
  <2>11. QED
    BY <2>3, <2>4, <2>6, <2>9, <2>10 DEF InHand, Holds
<1>4. CASE OnRecvNack /\ upc' = "fetched"
  <2>1. nacked # <<>> /\ UNCHANGED <<sent, original, apc, index, queue>>
    BY <1>4 DEF OnRecvNack, appVars
  <2>2. Head(nacked) \in Asked /\ Means(Head(nacked).seq, Head(nacked).packet)
    <3>1. Head(nacked) = nacked[1] /\ 1 \in 1 .. Len(nacked)
      BY <1>1, <2>1, HeadTailProperties, LenProperties, EmptySeq
    <3>2. QED
      BY <1>1, <2>1, <3>1, HeadTailProperties DEF AskedFor
  <2>3. PICK seq \in SeqNo, packet \in Nat :
               Head(nacked).seq = seq /\ Head(nacked).packet = packet
    BY <2>2 DEF Asked
  <2>4. Means(seq, packet)
    BY <2>2, <2>3
  <2>5. Fetch(seq).buf # -1
    BY <1>4, <2>3 DEF OnRecvNack
  <2>6. Fetch(seq) = queue[SlotOf(seq)] /\ queue[SlotOf(seq)].seq = seq
    BY <2>5 DEF Fetch, NoSlot
  <2>7. Together(SlotOf(seq))
    BY <1>1, SlotRange DEF IInv, Paired
  <2>8. sent - packet >= BufLen \/ BufAge(Fetch(seq).buf) = sent - packet
    <3>1. CASE sent - packet >= BufLen
      BY <3>1
    <3>2. CASE packet = original[seq] /\ Cached(seq) /\ ~(sent - packet >= BufLen)
      <4>1. sent \in Int /\ packet \in Int /\ BufLen \in Int
        BY <1>1, PublishAssumption DEF IInv, Ranges
      <4>2. sent - original[seq] < BufLen
        BY <3>2, <4>1
      <4>3. QED
        BY <2>5, <2>6, <2>7, <3>2, <4>2 DEF Together
    <3>3. QED
      BY <2>4, <3>1, <3>2 DEF Means
  <2>9. held' = [seq |-> seq, buf |-> Fetch(seq).buf, packet |-> packet, freed |-> FALSE]
    BY <1>4, <2>3 DEF OnRecvNack
  <2>10. /\ held'.seq = seq /\ held'.packet = packet /\ held'.buf # -1
         /\ BufAge(held.buf)' = BufAge(Fetch(seq).buf)
    BY <2>1, <2>5, <2>9 DEF BufAge
  <2>11. Means(held.seq, held.packet)'
    BY <2>1, <2>4, <2>10 DEF Means, Cached
  <2>12. \/ sent' - held'.packet >= BufLen
         \/ BufAge(held.buf)' = sent' - held'.packet
    BY <2>1, <2>8, <2>10
  <2>13. QED
    BY <2>10, <2>11, <2>12 DEF InHand, Holds
<1>5. \/ held' = held /\ (upc' = "idle" \/ upc # "idle")
      \/ CacheNack /\ held' # held
      \/ OnRecvNack /\ upc' = "fetched"
      \/ upc' = "idle"
  <2>1. upc \in {"idle", "fetched", "protected"}
    BY DEF PInv, UdpRanges
  <2>2. CASE CacheNack
    BY <2>2 DEF CacheNack
  <2>3. CASE OnRecvNack
    BY <2>3 DEF OnRecvNack
  <2>4. CASE AppStep \/ UdpStep \/ UNCHANGED vars
    BY <2>1, <2>2, <2>3, <2>4
       DEF AppStep, UdpStep, OnVideo, OnSpsPps, EncodeVideo, Protect, SendData,
           ReProtect, OnRtcpNack, SendNackPacket, vars, appVars, udpVars
  <2>5. QED
    BY <2>4 DEF Next
<1>6. CASE upc' = "idle"
  BY <1>6 DEF InHand
<1>7. QED
  BY <1>2, <1>3, <1>4, <1>5, <1>6

(* In a session that does not cipher, what answers a NACK is the packet the *)
(* peer means and nothing else, unless the ring of buffers went round or    *)
(* the record was freed at least Kept packets later: the two threads share  *)
(* the buffers without a lock, and their steps mix in any order.            *)
THEOREM Resent == ASSUME PlainSession PROVE Spec => ResentAsSent
<1>1. Init => PInv
  <2>1. SUFFICES ASSUME Init PROVE PInv
    OBVIOUS
  <2>2. UdpRanges
    <3>1. 0 \in SeqNo /\ -1 \in -1 .. BufLen - 1
      BY PublishAssumption, HalfAssumption DEF SeqNo, SeqSpace
    <3>2. nacked \in Seq(Asked)
      BY <2>1, EmptySeq DEF Init
    <3>3. QED
      BY <2>1, <3>1, <3>2 DEF Init, UdpRanges, None
  <2>3. AskedFor /\ InHand /\ Plain
    BY <2>1 DEF Init, AskedFor, InHand, Plain, Nothing
  <2>4. QED
    BY <2>1, <2>2, <2>3, Initially DEF PInv
<1>2. PInv /\ [Next]_vars => PInv'
  <2>1. IInv /\ UdpRanges /\ [Next]_vars => IInv' /\ UdpRanges'
    BY Inductive, UdpKeeps DEF IInv
  <2>2. QED
    BY <2>1, PlainKeeps, AskedKeeps, InHandKeeps DEF PInv
<1>3. ASSUME PInv, SendNackPacket(TRUE)
      PROVE  LET since == sent - held.packet
             IN  \/ since >= BufLen
                 \/ since >= Kept /\ held.freed
                 \/ buffer[held.buf] = [packet |-> held.packet, layers |-> Layers]
  <2>1. Holds(held)
    BY <1>3 DEF SendNackPacket, PInv, InHand
  <2>2. /\ held.buf \in 0 .. BufLen - 1 /\ held.packet \in Nat /\ sent \in Nat
        /\ held.packet # 0 /\ held.packet <= sent
    BY <1>3, <2>1, PublishAssumption DEF PInv, UdpRanges, Holds, Means, IInv, Ranges
  <2>3. CASE BufAge(held.buf) = sent - held.packet
    <3>1. buffer[held.buf].packet = Older(sent - held.packet)
      BY <1>3, <2>2, <2>3 DEF PInv, IInv, Written
    <3>2. buffer[held.buf].packet = held.packet
      BY <2>2, <3>1 DEF Older
    <3>3. buffer[held.buf].layers = Layers
      BY <1>3, <2>2 DEF PInv, Plain, Layers, PlainSession
    <3>4. buffer[held.buf] \in [packet : Nat, layers : 0 .. 1]
      BY <1>3, <2>2 DEF PInv, IInv, Ranges
    <3>5. QED
      BY <3>2, <3>3, <3>4
  <2>4. QED
    BY <2>1, <2>3 DEF Holds
<1>4. PInv /\ [Next]_vars =>
        [SendNackPacket(TRUE) =>
           LET since == sent - held.packet
           IN  \/ since >= BufLen
               \/ since >= Kept /\ held.freed
               \/ buffer[held.buf] = [packet |-> held.packet, layers |-> Layers]]_vars
  BY <1>3
<1>5. QED
  BY <1>1, <1>2, <1>4, PTL DEF Spec, ResentAsSent

-----------------------------------------------------------------------------
(* What the fragments of a frame add up to. *)

LEMMA Least ==
  ASSUME NEW T \in SUBSET Nat, T # {}
  PROVE  \E m \in T : \A k \in T : m <= k
<1> DEFINE R == {p \in Nat \X Nat : p[1] < p[2]}
<1>1. IsWellFoundedOn(R, Nat)
  BY NatLessThanWellFounded DEF OpToRel
<1>2. \A x, y \in T : ~(<<y, x>> \in R) => x <= y
  OBVIOUS
<1> HIDE DEF R
<1>3. \E x \in T : \A y \in T : ~(<<y, x>> \in R)
  BY <1>1, WFMin
<1>4. QED
  BY <1>2, <1>3, Zenon

LEMMA Greatest ==
  ASSUME NEW n \in Nat, NEW T \in SUBSET (1 .. n), T # {}
  PROVE  Max(T) \in T /\ \A k \in T : k <= Max(T)
<1> DEFINE below == {n - k : k \in T}
<1>1. below \in SUBSET Nat /\ below # {}
  <2>1. \A k \in T : n - k \in Nat
    OBVIOUS
  <2>2. QED
    BY <2>1
<1> HIDE DEF below
<1>2. PICK m \in below : \A k \in below : m <= k
  BY <1>1, Least
<1>3. PICK x \in T : m = n - x
  BY DEF below
<1>4. \A k \in T : k <= x
  <2>1. ASSUME NEW k \in T PROVE k <= x
    <3>1. n - k \in below
      BY DEF below
    <3>2. n - x <= n - k
      BY <1>2, <1>3, <3>1
    <3>3. k \in Nat /\ x \in Nat
      OBVIOUS
    <3>4. QED
      BY <3>2, <3>3
  <2>2. QED
    BY <2>1
<1>5. \E y \in T : \A k \in T : y >= k
  BY <1>4
<1>6. QED
  BY <1>5 DEF Max

Bytes(f) == FoldLeft(LAMBDA total, p : total + p.bytes, 0, f)

(* All are full but the last.                                               *)
Fragments(f, n, full, rest) ==
  DOMAIN f = 1 .. n /\ (\A i \in 1 .. n - 1 : f[i].bytes = full) /\ f[n].bytes = rest

(* A function that adds up the packets of every subset, the last one first. *)
Totals(f, g) ==
  g = [s \in SUBSET DOMAIN f |->
         IF s = {} THEN 0 ELSE g[s \ {Max(s)}] + f[Max(s)].bytes]

LEMMA FoldTotals ==
  ASSUME NEW f, NEW h, Totals(f, h)
  PROVE  \E g : /\ Totals(f, g)
                /\ Bytes(f) = g[DOMAIN f]
<1> DEFINE g == CHOOSE g : Totals(f, g)
<1>1. Totals(f, g)
  OBVIOUS
<1>2. Bytes(f) = g[DOMAIN f]
  BY DEF Bytes, FoldLeft, MapThenFoldSet, Totals
<1>3. QED
  BY <1>1, <1>2

(* There is one for such fragments.                                         *)
LEMMA TotalsExist ==
  ASSUME NEW n \in Nat \ {0}, NEW full \in Nat, NEW rest \in Nat, NEW f,
         Fragments(f, n, full, rest)
  PROVE  \E g : Totals(f, g)
<1>0. DOMAIN f = 1 .. n /\ (\A i \in 1 .. n - 1 : f[i].bytes = full) /\ f[n].bytes = rest
  BY DEF Fragments
<1> DEFINE g == [s \in SUBSET (1 .. n) |->
                   full * Cardinality(s \ {n}) + (IF n \in s THEN rest ELSE 0)]
<1>1. \A c \in Nat : full * c \in Nat /\ full * (c - 1) + full = full * c /\ full * 0 = 0
  OBVIOUS
<1>2. \A s \in SUBSET (1 .. n) : IsFiniteSet(s) /\ Cardinality(s) \in Nat
  <2>1. IsFiniteSet(1 .. n)
    BY FS_Interval
  <2>2. QED
    BY <2>1, FS_Subset, FS_CardinalityType
<1>3. ASSUME NEW s \in SUBSET (1 .. n)
      PROVE  g[s] = IF s = {} THEN 0 ELSE g[s \ {Max(s)}] + f[Max(s)].bytes
  <2>1. CASE s = {}
    <3>1. s \ {n} = {} /\ n \notin s /\ Cardinality({}) = 0
      BY <2>1, FS_EmptySet
    <3>2. g[s] = full * 0 + 0
      BY <3>1
    <3>3. QED
      BY <1>1, <2>1, <3>2
  <2>2. CASE s # {}
    <3> DEFINE x == Max(s)
               t == s \ {x}
    <3>1. x \in s /\ \A k \in s : k <= x
      BY <2>2, Greatest
    <3> HIDE DEF x
    <3>2. t \in SUBSET (1 .. n)
      OBVIOUS
    <3>3. CASE n \in s
      <4>1. x = n
        BY <3>1, <3>3
      <4>2. t \ {n} = s \ {n} /\ n \notin t
        BY <4>1
      <4>3. g[s] = full * Cardinality(s \ {n}) + rest
        BY <3>3
      <4>4. g[t] = full * Cardinality(s \ {n}) + 0
        BY <3>2, <4>2
      <4>5. full * Cardinality(s \ {n}) \in Nat
        BY <1>1, <1>2
      <4>6. g[s] = g[t] + f[x].bytes
        BY <1>0, <4>1, <4>3, <4>4, <4>5
      <4>7. QED
        BY <2>2, <4>6 DEF x
    <3>4. CASE n \notin s
      <4>1. x \in 1 .. n - 1
        BY <3>1, <3>4
      <4>2. s \ {n} = s /\ t \ {n} = t /\ n \notin t
        BY <3>4
      <4>3. Cardinality(t) = Cardinality(s) - 1
        BY <1>2, <3>1, FS_RemoveElement
      <4>4. g[s] = full * Cardinality(s) + 0
        BY <3>4, <4>2
      <4>5. g[t] = full * (Cardinality(s) - 1) + 0
        BY <3>2, <4>2, <4>3
      <4>6. f[x].bytes = full
        BY <1>0, <4>1
      <4>7. PICK c \in Nat : c = Cardinality(s)
        BY <1>2
      <4>8. full * (c - 1) + full = full * c /\ full * c \in Nat
        BY <1>1
      <4>9. full * (c - 1) \in Int
        OBVIOUS
      <4> HIDE DEF g, t
      <4>10. g[s] = g[t] + f[x].bytes
        BY <4>4, <4>5, <4>6, <4>7, <4>8, <4>9
      <4>11. QED
        BY <2>2, <4>10 DEF x, t
    <3>5. QED
      BY <3>3, <3>4
  <2>3. QED
    BY <2>1, <2>2
<1>4. g = [s \in SUBSET DOMAIN f |-> g[s]]
  BY <1>0
<1> HIDE DEF g
<1>5. Totals(f, g)
  BY <1>0, <1>3, <1>4 DEF Totals
<1>6. QED
  BY <1>5

LEMMA FragmentsTotal ==
  ASSUME NEW n \in Nat \ {0}, NEW full \in Nat, NEW rest \in Nat, NEW f,
         Fragments(f, n, full, rest)
  PROVE  Bytes(f) = full * (n - 1) + rest
<1>1. PICK g : /\ Totals(f, g)
               /\ Bytes(f) = g[1 .. n]
  <2>1. \E h : Totals(f, h)
    BY TotalsExist
  <2>2. QED
    BY <2>1, FoldTotals DEF Fragments
<1>2. g[{}] = 0
  BY <1>1 DEF Totals, Fragments
<1>3. ASSUME NEW m \in 1 .. n PROVE g[1 .. m] = g[1 .. m - 1] + f[m].bytes
  <2>1. 1 .. m \in SUBSET (1 .. n) /\ 1 .. m # {} /\ m \in 1 .. m
    OBVIOUS
  <2>2. Max(1 .. m) \in 1 .. m /\ \A k \in 1 .. m : k <= Max(1 .. m)
    BY <2>1, Greatest
  <2>3. Max(1 .. m) = m
    BY <2>2
  <2>4. (1 .. m) \ {m} = 1 .. m - 1
    OBVIOUS
  <2>5. QED
    BY <1>1, <2>1, <2>3, <2>4 DEF Totals, Fragments
<1>4. \A m \in 0 .. n - 1 : g[1 .. m] = full * m
  <2> DEFINE T == {m \in 0 .. n - 1 : g[1 .. m] # full * m}
  <2>1. SUFFICES ASSUME T # {} PROVE FALSE
    OBVIOUS
  <2>2. T \in SUBSET Nat
    OBVIOUS
  <2>3. PICK m \in T : \A k \in T : m <= k
    <3> HIDE DEF T
    <3>1. QED
      BY <2>1, <2>2, Least
  <2>4. m # 0
    <3>1. 1 .. 0 = {} /\ full * 0 = 0
      OBVIOUS
    <3>2. QED
      BY <1>2, <3>1
  <2>5. m - 1 \notin T /\ m - 1 \in 0 .. n - 1 /\ m \in 1 .. n - 1 /\ m \in 1 .. n
    BY <2>3, <2>4
  <2>6. g[1 .. m - 1] = full * (m - 1) /\ f[m].bytes = full
    BY <2>5 DEF Fragments
  <2>7. full * (m - 1) + full = full * m
    BY <2>5
  <2>8. g[1 .. m] = g[1 .. m - 1] + f[m].bytes
    BY <1>3, <2>5
  <2>9. g[1 .. m] = full * m
    BY <2>6, <2>7, <2>8
  <2>10. QED
    BY <2>9
<1>5. n - 1 \in 0 .. n - 1 /\ n \in 1 .. n
  OBVIOUS
<1>6. g[1 .. n] = g[1 .. n - 1] + f[n].bytes /\ g[1 .. n - 1] = full * (n - 1)
  BY <1>3, <1>4, <1>5
<1>7. QED
  BY <1>1, <1>6 DEF Fragments

(* Cutting a frame that does not fit.                                       *)
LEMMA Cut ==
  ASSUME NEW nb \in Nat \ {0}, ~(nb <= MaxPayload), NumOfPacket(nb) # 0
  PROVE  LET n == NumOfPacket(nb)
             last == nb - 1 - (n - 1) * MaxPayload
         IN  /\ n \in Nat /\ 1 < n /\ last \in 1 .. MaxPayload
             /\ MaxPayload * (n - 1) + last = nb - 1
<1> DEFINE q == (nb - 1) \div MaxPayload
           r == (nb - 1) % MaxPayload
           n == NumOfPacket(nb)
<1>1. MaxPayload \in Nat \ {0} /\ nb - 1 \in Nat /\ MaxPayload <= nb - 1
  BY PublishAssumption
<1>2. r # 0 /\ n = 1 + q
  BY DEF NumOfPacket
<1>3. r \in 0 .. MaxPayload - 1 /\ q \in Int /\ nb - 1 = MaxPayload * q + r
  BY <1>1, DivMod
<1> HIDE DEF q, r, n
<1>4. q >= 1
  <2>1. ASSUME NEW k \in Int, MaxPayload * k > 0 PROVE k >= 1
    BY <1>1, <2>1
  <2>2. MaxPayload * q > 0
    BY <1>1, <1>3
  <2>3. QED
    BY <1>3, <2>1, <2>2
<1>5. n - 1 = q /\ n \in Nat /\ 1 < n
  BY <1>2, <1>3, <1>4
<1>6. (n - 1) * MaxPayload = MaxPayload * q /\ MaxPayload * (n - 1) = MaxPayload * q
  BY <1>1, <1>3, <1>5
<1>7. PICK y \in Int : y = MaxPayload * q
  BY <1>1, <1>3
<1>8. nb - 1 - y = r /\ r \in 1 .. MaxPayload /\ y + r = nb - 1
  BY <1>1, <1>2, <1>3, <1>7
<1>9. QED
  BY <1>5, <1>6, <1>7, <1>8 DEF n

(* A frame that is sent is sent whole, for every size and every largest     *)
(* payload: its fragments add up to it, none is empty or too long, and only *)
(* the ends are marked (yang_push_h264_package_fu_a).                       *)
THEOREM WholeWhenSent == Spec => FragmentsWhole
<1> DEFINE Whole(nb, f) ==
             /\ Bytes(f)
                  = IF Len(f) = 1 THEN nb ELSE nb - 1
             /\ \A i \in DOMAIN f : /\ f[i].bytes \in 1 .. MaxPayload
                                    /\ f[i].start <=> i = 1
                                    /\ f[i].end <=> i = Len(f)
<1>1. ASSUME NEW nb \in FrameSizes, Packets(nb) # <<>> PROVE Whole(nb, Packets(nb))
  <2> DEFINE f == Packets(nb)
  <2>1. nb \in Nat \ {0} /\ MaxPayload \in Nat \ {0}
    BY PublishAssumption
  <2>2. CASE nb <= MaxPayload
    <3>1. f = <<[bytes |-> nb, start |-> TRUE, end |-> TRUE]>>
      BY <2>2 DEF Packets, SingleNalu
    <3> HIDE DEF f
    <3>2. Len(f) = 1 /\ DOMAIN f = 1 .. 1 /\ f[1] = [bytes |-> nb, start |-> TRUE, end |-> TRUE]
      BY <3>1
    <3>3. Bytes(f) = 0 * (1 - 1) + nb
      <4>1. Fragments(f, 1, 0, nb)
        BY <3>2 DEF Fragments
      <4>2. 1 \in Nat \ {0} /\ 0 \in Nat /\ nb \in Nat
        BY <2>1
      <4>3. QED
        BY <4>1, <4>2, FragmentsTotal
    <3>4. 0 * (1 - 1) + nb = nb /\ 1 .. 1 = {1} /\ nb \in 1 .. MaxPayload
      BY <2>1, <2>2
    <3>5. QED
      BY <3>2, <3>3, <3>4 DEF f
  <2>3. CASE ~(nb <= MaxPayload)
    <3> DEFINE n == NumOfPacket(nb)
               last == nb - 1 - (n - 1) * MaxPayload
    <3>1. f = [i \in 1 .. n |-> [bytes |-> IF i < n THEN MaxPayload ELSE last,
                                 start |-> i = 1, end |-> i = n]]
      BY <2>3 DEF Packets, FuA
    <3>2. n # 0
      BY <1>1, <3>1
    <3>3. n \in Nat /\ 1 < n /\ last \in 1 .. MaxPayload
          /\ MaxPayload * (n - 1) + last = nb - 1
      BY <2>1, <2>3, <3>2, Cut
    <3> HIDE DEF f, n, last
    <3>4. DOMAIN f = 1 .. n /\ n \in 1 .. n
      BY <3>1, <3>3
    <3>5. \A i \in 1 .. n : /\ f[i].bytes = IF i < n THEN MaxPayload ELSE last
                            /\ f[i].start <=> i = 1
                            /\ f[i].end <=> i = n
      BY <3>1
    <3>6. Len(f) = n
      BY <3>1, <3>3
    <3>7. Bytes(f) = MaxPayload * (n - 1) + last
      <4>1. \A i \in 1 .. n - 1 : f[i].bytes = MaxPayload
        BY <3>3, <3>5
      <4>2. Fragments(f, n, MaxPayload, last)
        BY <3>3, <3>4, <3>5, <4>1 DEF Fragments
      <4>3. last \in Nat /\ n \in Nat \ {0} /\ MaxPayload \in Nat
        BY <2>1, <3>3
      <4>4. QED
        BY <4>2, <4>3, FragmentsTotal
    <3>8. \A i \in 1 .. n : f[i].bytes \in 1 .. MaxPayload
      BY <2>1, <3>3, <3>5
    <3>9. QED
      BY <3>3, <3>4, <3>5, <3>6, <3>7, <3>8 DEF f
  <2>4. QED
    BY <2>2, <2>3
<1>2. ASSUME NEW nb \in FrameSizes, OnVideo(nb), frame' # <<>> PROVE Whole(nb, frame')
  <2>1. frame' = Packets(nb)
    BY <1>2 DEF OnVideo
  <2>2. QED
    BY <1>1, <1>2, <2>1
<1>3. [\A nb \in FrameSizes : OnVideo(nb) /\ frame' # <<>> =>
         /\ FoldLeft(LAMBDA total, p : total + p.bytes, 0, frame')
              = IF Len(frame') = 1 THEN nb ELSE nb - 1
         /\ \A i \in DOMAIN frame' :
              /\ frame'[i].bytes \in 1 .. MaxPayload
              /\ frame'[i].start <=> i = 1
              /\ frame'[i].end <=> i = Len(frame')]_vars
  BY <1>2 DEF Bytes
<1>4. QED
  BY <1>3, PTL DEF FragmentsWhole

=============================================================================
