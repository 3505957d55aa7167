--------------------------- MODULE H264TrackProofs --------------------------
(***************************************************************************)
(* For every size of the cache and of the sequence space, and whatever is  *)
(* lost, late, overtaken or repeated: the types of the track, and that a   *)
(* key frame recovers; and, before a packet came twice or the first slot   *)
(* of the cache is due again, that frames are not mixed and that no part   *)
(* of a NAL unit is delivered without the rest.  The lemmas on loops and   *)
(* on the least element of a set are those of RtcpNackProofs.              *)
(***************************************************************************)
EXTENDS H264Track, RtcpNackProofs

-----------------------------------------------------------------------------
(* Remainders. *)

LEMMA DivMod ==
  ASSUME NEW n \in Nat, NEW d \in Nat \ {0}
  PROVE  /\ n % d \in 0 .. d - 1
         /\ n \div d \in Int
         /\ n = d * (n \div d) + (n % d)
OBVIOUS

(* The quotient and the remainder are the only ones.                        *)
LEMMA OneRemainder ==
  ASSUME NEW d \in Nat \ {0}, NEW n \in Nat,
         NEW q \in Int, NEW r \in 0 .. d - 1, n = d * q + r
  PROVE  n % d = r
<1>1. PICK p \in Int, s \in 0 .. d - 1 : n = d * p + s /\ s = n % d
  BY DivMod
<1>2. ASSUME NEW k \in Int, d * k < d, d * k > -d PROVE d * k = 0
  BY <1>2
<1>3. d * p - d * q = d * (p - q) /\ p - q \in Int
  OBVIOUS
<1>4. n = d * p + s
  BY <1>1
<1>5. d * (p - q) = r - s
  BY <1>3, <1>4
<1>6. d * (p - q) = 0
  BY <1>2, <1>3, <1>5
<1>7. r = s
  BY <1>5, <1>6
<1>8. QED
  BY <1>1, <1>7

(* A sum may be taken round the ring in two steps.                          *)
LEMMA RemainderOfSum ==
  ASSUME NEW d \in Nat \ {0}, NEW a \in Nat, NEW b \in Nat
  PROVE  ((a % d) + b) % d = (a + b) % d
<1>1. PICK p \in Int, r \in 0 .. d - 1 : a = d * p + r /\ r = a % d
  BY DivMod
<1>2. r + b \in Nat /\ a + b \in Nat
  BY <1>1
<1>3. PICK q \in Int, s \in 0 .. d - 1 : r + b = d * q + s /\ s = (r + b) % d
  BY <1>2, DivMod
<1>4. a + b = d * (p + q) + s /\ p + q \in Int
  <2>1. d * (p + q) = d * p + d * q
    OBVIOUS
  <2>2. QED
    BY <1>1, <1>3, <2>1
<1>5. (a + b) % d = s
  BY <1>2, <1>4, OneRemainder
<1>6. QED
  BY <1>1, <1>3, <1>5

LEMMA RemainderOfMultiple ==
  ASSUME NEW c \in Nat \ {0}, NEW d \in Nat \ {0}, d % c = 0, NEW n \in Nat
  PROVE  (n % d) % c = n % c
<1>1. PICK q \in Int, r \in 0 .. d - 1 : n = d * q + r /\ r = n % d
  BY DivMod
<1>2. PICK p \in Int : d = c * p
  <2>1. /\ d \div c \in Int
        /\ d = c * (d \div c) + (d % c)
    BY DivMod
  <2>2. d = c * (d \div c)
    BY <2>1
  <2>3. QED
    BY <2>1, <2>2
<1>3. r \in Nat
  BY <1>1
<1>4. PICK u \in Int, s \in 0 .. c - 1 : r = c * u + s /\ s = r % c
  BY <1>3, DivMod
<1>5. PICK m \in Int : m = p * q
  OBVIOUS
<1>6. d * q = c * m
  BY <1>2, <1>5
<1>7. c * (m + u) = c * m + c * u
  OBVIOUS
<1>8. n = c * (m + u) + s /\ m + u \in Int
  <2>1. PICK x \in Int, y \in Int : x = c * m /\ y = c * u
    OBVIOUS
  <2>2. n = x + r /\ r = y + s
    BY <1>1, <1>4, <1>6, <2>1
  <2>3. QED
    BY <1>7, <2>1, <2>2
<1>9. n % c = s
  BY <1>8, OneRemainder
<1>10. QED
  BY <1>1, <1>4, <1>9

-----------------------------------------------------------------------------
(* Sequence numbers and slots. *)

LEMMA Sizes ==
  /\ CacheSize \in Nat \ {0} /\ 4 < CacheSize /\ CacheSize <= Half
  /\ Half \in Nat /\ SeqSpace = 2 * Half /\ SeqSpace \in Nat \ {0}
  /\ 0 \in 0 .. CacheSize - 1 /\ 0 \in SeqNo
  /\ Window \in Nat \ {0} /\ Window <= CacheSize /\ MaxPackets \in Nat
BY Space, TrackAssumption

(* The cache divides the sequence space, so a slot is known by any number   *)
(* with the remainder.                                                      *)
LEMMA SlotOfNumber ==
  ASSUME NEW n \in Nat
  PROVE  (n % SeqSpace) % CacheSize = n % CacheSize
BY Sizes, TrackAssumption, RemainderOfMultiple

LEMMA PlusFacts ==
  ASSUME NEW n \in Nat, NEW i \in Nat
  PROVE  /\ Plus(n, i) \in SeqNo
         /\ Plus(n % SeqSpace, i) = Plus(0, n + i)
         /\ Plus(n, i) % CacheSize = (n + i) % CacheSize
<1>1. n + i \in Nat
  OBVIOUS
<1>2. Plus(n, i) \in SeqNo
  BY <1>1, Remainder DEF Plus
<1>3. ((n % SeqSpace) + i) % SeqSpace = (n + i) % SeqSpace
  BY Sizes, RemainderOfSum
<1>4. QED
  BY <1>1, <1>2, <1>3, SlotOfNumber DEF Plus

LEMMA SlotRange ==
  ASSUME NEW n \in Nat
  PROVE  n % CacheSize \in 0 .. CacheSize - 1
BY Sizes, DivMod

LEMMA NextNumber ==
  ASSUME NEW s \in SeqNo
  PROVE  Succ(s) \in SeqNo /\ Pred(s) \in SeqNo /\ s \in Nat
BY Space DEF Succ, Pred

LEMMA Ahead ==
  ASSUME NEW s \in SeqNo, NEW e \in SeqNo
  PROVE  AheadOf(s, e) \in 0 .. SeqSpace - 1
BY Space DEF AheadOf

-----------------------------------------------------------------------------
(* The types of the loop. *)

Slots == 0 .. CacheSize - 1

Tracks ==
  [cache : [Slots -> Cached], header : SeqNo, lost : SeqNo, keyTs : Nat \cup {-1},
   out : Seq(Seq(Packet))]

Results == [kind : {"overflow", "lost", "frame"}, sn : SeqNo]

(* How the search from current ends.                                        *)
LostAt(t, sn, found) == Missing(t, sn) /\ found = [kind |-> "lost", sn |-> sn]

TimeAt(t, sn, found) ==
  ~Missing(t, sn) /\ NewTime(t, sn) /\ found = [kind |-> "frame", sn |-> Pred(sn)]

MarkerAt(t, sn, found) ==
  /\ ~Missing(t, sn) /\ ~NewTime(t, sn) /\ Slot(t.cache, sn).pkt.marker
  /\ found = [kind |-> "frame", sn |-> sn]

EndsAt(t, current, i, found) ==
  /\ \A j \in 0 .. i - 1 : ~Stops(t, Plus(current, j))
  /\ \/ LostAt(t, Plus(current, i), found)
     \/ TimeAt(t, Plus(current, i), found)
     \/ MarkerAt(t, Plus(current, i), found)

NeverEnds(t, current, found) ==
  /\ \A i \in Slots : ~Stops(t, Plus(current, i))
  /\ found = [kind |-> "overflow", sn |-> current]

LEMMA SearchEnds ==
  ASSUME NEW t, NEW current
  PROVE  \/ NeverEnds(t, current, FindNextLost(t, current))
         \/ \E i \in Slots : EndsAt(t, current, i, FindNextLost(t, current))
<1> DEFINE stops == {i \in 0 .. CacheSize - 1 : Stops(t, Plus(current, i))}
           i0 == Min(stops)
           found == FindNextLost(t, current)
<1>1. CASE stops = {}
  <2>1. found = [kind |-> "overflow", sn |-> current]
    BY <1>1 DEF FindNextLost
  <2>2. QED
    BY <1>1, <2>1 DEF NeverEnds, Slots
<1>2. CASE stops # {}
  <2>1. stops \in SUBSET Nat
    BY Sizes
  <2>2. \E m \in stops : \A k \in stops : m <= k
    BY <1>2, <2>1, Least
  <2>3. i0 \in stops /\ \A k \in stops : i0 <= k
    <3> HIDE DEF stops
    <3>1. QED
      BY <2>2 DEF Min
  <2>4. i0 \in Slots /\ Stops(t, Plus(current, i0))
    BY <2>3 DEF Slots
  <2>5. \A j \in 0 .. i0 - 1 : ~Stops(t, Plus(current, j))
    <3>1. ASSUME NEW j \in 0 .. i0 - 1, Stops(t, Plus(current, j)) PROVE FALSE
      <4>1. i0 \in 0 .. CacheSize - 1
        BY <2>4 DEF Slots
      <4>2. j \in stops
        BY <3>1, <4>1, Sizes
      <4> HIDE DEF stops, i0
      <4>3. QED
        BY <2>3, <4>1, <4>2, Sizes
    <3>2. QED
      BY <3>1
  <2>6. LET sn == Plus(current, i0)
        IN  found = IF Missing(t, sn) THEN [kind |-> "lost", sn |-> sn]
                    ELSE IF NewTime(t, sn) THEN [kind |-> "frame", sn |-> Pred(sn)]
                    ELSE [kind |-> "frame", sn |-> sn]
    <3>1. QED
      BY <1>2 DEF FindNextLost
  <2> HIDE DEF i0, found
  <2>7. EndsAt(t, current, i0, found)
    BY <2>4, <2>5, <2>6 DEF EndsAt, LostAt, TimeAt, MarkerAt, Stops
  <2>8. QED
    BY <2>4, <2>7 DEF found
<1>3. QED
  BY <1>1, <1>2

LEMMA SearchTyped ==
  ASSUME NEW t, NEW current \in SeqNo
  PROVE  FindNextLost(t, current) \in Results
<1>1. CASE NeverEnds(t, current, FindNextLost(t, current))
  BY <1>1 DEF NeverEnds, Results
<1>2. ASSUME NEW i \in Slots, EndsAt(t, current, i, FindNextLost(t, current))
      PROVE  FindNextLost(t, current) \in Results
  <2>1. i \in Nat /\ current \in Nat
    BY Sizes, NextNumber DEF Slots
  <2>2. Plus(current, i) \in SeqNo
    BY <2>1, PlusFacts
  <2>3. Pred(Plus(current, i)) \in SeqNo
    BY <2>2, NextNumber
  <2>4. QED
    BY <1>2, <2>2, <2>3 DEF EndsAt, LostAt, TimeAt, MarkerAt, Results
<1>3. QED
  BY <1>1, <1>2, SearchEnds

-----------------------------------------------------------------------------
(* A frame leaves the cache. *)

LEMMA EmptiedTyped ==
  ASSUME NEW c \in Cached
  PROVE  Emptied(c) \in Cached /\ ~Emptied(c).inUse
<1>1. c.pkt \in Packet
  BY DEF Cached
<1>2. [c.pkt EXCEPT !.fu = {}] \in Packet
  BY <1>1 DEF Packet
<1>3. QED
  BY <1>2 DEF Cached, Emptied

LEMMA NumbersTyped ==
  ASSUME NEW t \in Tracks, NEW end \in SeqNo
  PROVE  /\ AheadOf(t.header, end) + 1 \in Nat \ {0}
         /\ FrameNumbers(t, end) \in [1 .. AheadOf(t.header, end) + 1 -> SeqNo]
         /\ DOMAIN FrameNumbers(t, end) = 1 .. AheadOf(t.header, end) + 1
         /\ \A i \in 1 .. AheadOf(t.header, end) + 1 :
              FrameNumbers(t, end)[i] = Plus(t.header, i - 1)
<1>1. t.header \in SeqNo /\ t.header \in Nat
  BY NextNumber DEF Tracks
<1>2. AheadOf(t.header, end) \in 0 .. SeqSpace - 1
  BY <1>1, Ahead
<1>3. AheadOf(t.header, end) + 1 \in Nat \ {0}
  BY <1>2, Sizes
<1>4. \A i \in 1 .. AheadOf(t.header, end) + 1 : Plus(t.header, i - 1) \in SeqNo
  <2>1. ASSUME NEW i \in 1 .. AheadOf(t.header, end) + 1
        PROVE  Plus(t.header, i - 1) \in SeqNo
    <3>1. i - 1 \in Nat
      BY <1>3
    <3>2. QED
      BY <1>1, <3>1, PlusFacts
  <2>2. QED
    BY <2>1
<1>5. QED
  BY <1>3, <1>4 DEF FrameNumbers

FramePackets(t, end) ==
  [i \in DOMAIN FrameNumbers(t, end) |-> Slot(t.cache, FrameNumbers(t, end)[i]).pkt]

Leaving(t, end) ==
  {FrameNumbers(t, end)[i] % CacheSize : i \in DOMAIN FrameNumbers(t, end)}

LEMMA FrameTyped ==
  ASSUME NEW t \in Tracks, NEW end \in SeqNo
  PROVE  FramePackets(t, end) \in Seq(Packet)
<1> DEFINE n == AheadOf(t.header, end) + 1
           numbers == FrameNumbers(t, end)
<1>1. n \in Nat /\ numbers \in [1 .. n -> SeqNo] /\ DOMAIN numbers = 1 .. n
  BY NumbersTyped
<1>2. t.cache \in [Slots -> Cached]
  BY DEF Tracks
<1>3. ASSUME NEW s \in SeqNo PROVE Slot(t.cache, s).pkt \in Packet
  <2>1. s % CacheSize \in Slots
    BY NextNumber, SlotRange DEF Slots
  <2>2. t.cache[s % CacheSize] \in Cached
    BY <1>2, <2>1
  <2>3. QED
    BY <2>2 DEF Cached, Slot
<1>4. FramePackets(t, end) \in [1 .. n -> Packet]
  <2> HIDE DEF n, numbers
  <2>1. QED
    BY <1>1, <1>3 DEF FramePackets, numbers
<1>5. QED
  <2> HIDE DEF n
  <2>1. QED
    BY <1>1, <1>4, SeqDef

LEMMA PacketVideoFacts ==
  ASSUME NEW t \in Tracks, NEW end \in SeqNo
  PROVE  LET u == PacketVideo(t, end)
         IN  /\ u \in Tracks
             /\ u.header = Plus(end, 1) /\ u.lost = t.lost /\ u.keyTs \in {t.keyTs, -1}
             /\ u.out = Append(t.out, FramePackets(t, end))
             /\ \A s \in Slots : IF s \in Leaving(t, end) THEN ~u.cache[s].inUse
                                 ELSE u.cache[s] = t.cache[s]
<1> DEFINE u == PacketVideo(t, end)
           key == Slot(t.cache, t.header).pkt.keyByte
<1>1. /\ t.cache \in [Slots -> Cached] /\ t.lost \in SeqNo
      /\ t.keyTs \in Nat \cup {-1} /\ t.out \in Seq(Seq(Packet))
  BY DEF Tracks
<1>2. u = [cache  |-> [s \in Slots |-> IF s \in Leaving(t, end) THEN Emptied(t.cache[s])
                                        ELSE t.cache[s]],
           header |-> Plus(end, 1), lost |-> t.lost,
           keyTs  |-> IF key THEN -1 ELSE t.keyTs,
           out    |-> Append(t.out, FramePackets(t, end))]
  BY DEF PacketVideo, Leaving, FramePackets, Slots
<1>3. Plus(end, 1) \in SeqNo
  BY NextNumber, PlusFacts
<1>4. \A s \in Slots : t.cache[s] \in Cached /\ Emptied(t.cache[s]) \in Cached
                         /\ ~Emptied(t.cache[s]).inUse
  BY <1>1, EmptiedTyped
<1>5. Append(t.out, FramePackets(t, end)) \in Seq(Seq(Packet))
  BY <1>1, FrameTyped, AppendProperties
<1>6. (IF key THEN -1 ELSE t.keyTs) \in {t.keyTs, -1}
  OBVIOUS
<1> HIDE DEF key, u
<1>7. u.cache \in [Slots -> Cached]
  BY <1>1, <1>2, <1>4
<1>8. u \in Tracks
  <2>1. /\ u.header = Plus(end, 1) /\ u.lost = t.lost /\ u.keyTs \in {t.keyTs, -1}
        /\ u.out = Append(t.out, FramePackets(t, end))
    BY <1>2, <1>6
  <2>2. u = [cache |-> u.cache, header |-> u.header, lost |-> u.lost,
             keyTs |-> u.keyTs, out |-> u.out]
    BY <1>2
  <2>3. u.keyTs \in Nat \cup {-1}
    BY <1>1, <2>1
  <2>4. QED
    BY <1>1, <1>3, <1>5, <1>7, <2>1, <2>2, <2>3 DEF Tracks
<1>9. QED
  BY <1>2, <1>4, <1>6, <1>8 DEF u

(* What a search found is lost, becomes a frame, or changes nothing.        *)
LEMMA AfterCases ==
  ASSUME NEW t \in Tracks, NEW found \in Results
  PROVE  /\ After(t, found) \in Tracks
         /\ \/ found.kind = "lost" /\ After(t, found) = [t EXCEPT !.lost = found.sn]
            \/ /\ found.kind = "frame" /\ FrameComplete(t, found.sn)
               /\ After(t, found) = PacketVideo(t, found.sn)
            \/ /\ found.kind # "lost"
               /\ found.kind = "frame" => ~FrameComplete(t, found.sn)
               /\ After(t, found) = t
<1>1. found.sn \in SeqNo /\ found.kind \in {"overflow", "lost", "frame"}
  BY DEF Results
<1>2. [t EXCEPT !.lost = found.sn] \in Tracks
  BY <1>1 DEF Tracks
<1>3. PacketVideo(t, found.sn) \in Tracks
  BY <1>1, PacketVideoFacts
<1>4. CASE found.kind = "lost"
  BY <1>2, <1>4 DEF After
<1>5. CASE found.kind = "frame" /\ FrameComplete(t, found.sn)
  BY <1>3, <1>5 DEF After
<1>6. CASE found.kind # "lost" /\ ~(found.kind = "frame" /\ FrameComplete(t, found.sn))
  BY <1>6 DEF After
<1>7. QED
  BY <1>4, <1>5, <1>6

-----------------------------------------------------------------------------
(* The loop. *)

LEMMA TurnTyped ==
  ASSUME NEW t \in Tracks, NEW n
  PROVE  Turn(t, n) \in Tracks
<1>1. t.header \in SeqNo
  BY DEF Tracks
<1>2. After(t, FindNextLost(t, t.header)) \in Tracks
  BY <1>1, SearchTyped, AfterCases
<1>3. QED
  BY <1>2 DEF Turn

LEMMA TurnsEquation ==
  ASSUME NEW t \in Tracks, NEW found \in Results
  PROVE  /\ Turns(t, found)[0] = After(t, found)
         /\ \A n \in 1 .. CacheSize : Turns(t, found)[n] = Turn(Turns(t, found)[n - 1], n)
<1> DEFINE N == CacheSize
           T == Tracks
           step == [n \in 1 .. N |-> [u \in T |-> Turn(u, n)]]
           base == After(t, found)
           Equation(f) == f = [n \in 0 .. CacheSize |->
                                 IF n = 0 THEN base ELSE Turn(f[n - 1], n)]
<1>1. base \in T
  BY AfterCases
<1>2. step \in [1 .. N -> [T -> T]]
  BY TurnTyped
<1> HIDE DEF step, base, Equation
<1>3. PICK g \in [0 .. N -> T] :
        g[0] = base /\ \A i \in 1 .. N : g[i] = step[i][g[i - 1]]
  <2>1. N \in Nat
    BY Sizes
  <2> HIDE DEF N, T
  <2>2. \E g \in [0 .. N -> T] :
          g[0] = base /\ \A i \in 1 .. N : g[i] = step[i][g[i - 1]]
    BY <1>1, <1>2, <2>1, Runs
  <2>3. QED
    BY <2>2
<1>4. \A n \in 1 .. CacheSize : g[n] = Turn(g[n - 1], n)
  <2>1. ASSUME NEW n \in 1 .. CacheSize PROVE g[n] = Turn(g[n - 1], n)
    <3>1. n - 1 \in 0 .. CacheSize
      BY Sizes
    <3>2. g[n - 1] \in Tracks
      BY <3>1
    <3>3. QED
      BY <1>3, <3>2 DEF step
  <2>2. QED
    BY <2>1
<1>5. \A n \in 0 .. CacheSize : g[n] = IF n = 0 THEN base ELSE Turn(g[n - 1], n)
  <2>1. ASSUME NEW n \in 0 .. CacheSize
        PROVE  g[n] = IF n = 0 THEN base ELSE Turn(g[n - 1], n)
    <3>1. CASE n = 0
      BY <1>3, <3>1
    <3>2. CASE n # 0
      <4>1. n \in 1 .. CacheSize
        BY <3>2, Sizes
      <4>2. QED
        BY <1>4, <3>2, <4>1
    <3>3. QED
      BY <3>1, <3>2
  <2>2. QED
    BY <2>1
<1>6. Equation(g)
  <2>1. g = [n \in 0 .. CacheSize |-> g[n]]
    OBVIOUS
  <2>2. QED
    BY <1>5, <2>1 DEF Equation
<1>7. Turns(t, found) = CHOOSE f : Equation(f)
  BY DEF Turns, Equation, base
<1>8. Equation(Turns(t, found))
  BY <1>6, <1>7, Zenon
<1>9. QED
  <2> DEFINE f == Turns(t, found)
  <2>1. f = [n \in 0 .. CacheSize |-> IF n = 0 THEN base ELSE Turn(f[n - 1], n)]
    BY <1>8 DEF Equation
  <2> HIDE DEF f
  <2>2. 0 \in 0 .. CacheSize /\ \A n \in 1 .. CacheSize : n \in 0 .. CacheSize /\ n # 0
    BY Sizes
  <2>3. f[0] = base /\ \A n \in 1 .. CacheSize : f[n] = Turn(f[n - 1], n)
    BY <2>1, <2>2
  <2>4. QED
    BY <2>3 DEF f, base

(* What the first delivery establishes and every turn keeps.                *)
LEMMA DrainKeeps ==
  ASSUME NEW t \in Tracks, NEW found \in Results, NEW Inv,
         After(t, found) \in Inv[0],
         \A n \in 1 .. CacheSize, u \in Tracks : u \in Inv[n - 1] => Turn(u, n) \in Inv[n]
  PROVE  Drain(t, found) \in Tracks /\ Drain(t, found) \in Inv[CacheSize]
<1> DEFINE f == Turns(t, found)
           Typed == [n \in 0 .. CacheSize |-> Tracks \cap Inv[n]]
<1>1. f[0] = After(t, found) /\ \A n \in 1 .. CacheSize : f[n] = Turn(f[n - 1], n)
  BY TurnsEquation
<1> HIDE DEF f
<1>2. f[0] \in Typed[0]
  BY <1>1, AfterCases, Sizes
<1>3. ASSUME NEW n \in 1 .. CacheSize, f[n - 1] \in Typed[n - 1]
      PROVE  f[n] \in Typed[n]
  <2>1. n - 1 \in 0 .. CacheSize /\ n \in 0 .. CacheSize
    BY Sizes
  <2>2. f[n - 1] \in Tracks /\ f[n - 1] \in Inv[n - 1]
    BY <1>3, <2>1
  <2>3. Turn(f[n - 1], n) \in Tracks /\ Turn(f[n - 1], n) \in Inv[n]
    BY <2>2, TurnTyped
  <2>4. QED
    BY <1>1, <2>1, <2>3
<1>4. \A n \in 0 .. CacheSize : f[n] \in Typed[n]
  <2> HIDE DEF Typed
  <2>1. CacheSize \in Nat
    BY Sizes
  <2>2. QED
    BY <1>2, <1>3, <2>1, LoopInvariant
<1>5. f[CacheSize] \in Tracks /\ f[CacheSize] \in Inv[CacheSize]
  <2>1. CacheSize \in 0 .. CacheSize
    BY Sizes
  <2>2. QED
    BY <1>4, <2>1
<1>6. QED
  BY <1>5 DEF Drain, f

-----------------------------------------------------------------------------
(* A packet comes. *)

(* The track as it is when the packet is stored: with an empty cache when   *)
(* it is the first that came of its key frame.                              *)
Begun(pkt) ==
  Store(IF pkt.key /\ pkt.ts # key_frame_ts THEN NewKeyFrame(pkt) ELSE Track, pkt)

FromHere(t, pkt) == [t EXCEPT !.header = pkt.sn]

Searched(t, pkt) == Drain(t, FindNextLost(t, pkt.sn))

(* What becomes of it: searched from an earlier packet of the key frame,    *)
(* searched from the packet that was missing, or left as it is.             *)
Earlier(pkt) == pkt.key /\ SeqDistance(Begun(pkt).header, pkt.sn) < 0

Coming(pkt) ==
  IF Earlier(pkt) THEN Searched(FromHere(Begun(pkt), pkt), pkt)
  ELSE IF Begun(pkt).lost = pkt.sn THEN Searched(Begun(pkt), pkt)
  ELSE Begun(pkt)

LEMMA EmptyTyped ==
  EmptyCache \in [Slots -> Cached] /\ \A s \in Slots : ~EmptyCache[s].inUse
<1>1. EmptySlot.pkt \in Packet
  BY Sizes DEF EmptySlot, Packet
<1>2. EmptySlot \in Cached /\ ~EmptySlot.inUse
  BY <1>1 DEF EmptySlot, Cached
<1>3. QED
  BY <1>2 DEF EmptyCache, Slots

LEMMA StoreFacts ==
  ASSUME NEW t \in Tracks, NEW pkt \in Packet
  PROVE  /\ Store(t, pkt) \in Tracks
         /\ Store(t, pkt).header = t.header /\ Store(t, pkt).lost = t.lost
         /\ Store(t, pkt).keyTs = t.keyTs /\ Store(t, pkt).out = t.out
         /\ Store(t, pkt).cache[pkt.sn % CacheSize] = [inUse |-> TRUE, pkt |-> pkt]
         /\ \A s \in Slots : s # pkt.sn % CacheSize => Store(t, pkt).cache[s] = t.cache[s]
<1> DEFINE u == Store(t, pkt)
           slot == pkt.sn % CacheSize
           held == [inUse |-> TRUE, pkt |-> pkt]
<1>1. t.cache \in [Slots -> Cached]
  BY DEF Tracks
<1>2. slot \in Slots
  <2>1. pkt.sn \in Nat
    BY NextNumber DEF Packet
  <2>2. QED
    BY <2>1, SlotRange DEF Slots
<1>3. held \in Cached
  BY DEF Cached
<1>4. u = [t EXCEPT !.cache = [t.cache EXCEPT ![slot] = held]]
  BY DEF Store
<1> HIDE DEF slot, held, u
<1>5. [t.cache EXCEPT ![slot] = held] \in [Slots -> Cached]
  BY <1>1, <1>3
<1>6. u \in Tracks /\ u.cache = [t.cache EXCEPT ![slot] = held]
  BY <1>4, <1>5 DEF Tracks
<1>7. u.header = t.header /\ u.lost = t.lost /\ u.keyTs = t.keyTs /\ u.out = t.out
  BY <1>4 DEF Tracks
<1>8. u.cache[slot] = held /\ \A s \in Slots : s # slot => u.cache[s] = t.cache[s]
  BY <1>1, <1>2, <1>6
<1>9. QED
  BY <1>6, <1>7, <1>8 DEF u, slot, held

LEMMA TrackTyped ==
  ASSUME TrackTypeOK
  PROVE  /\ Track \in Tracks
         /\ Track.cache = cache /\ Track.header = header_sn /\ Track.lost = lost_sn
         /\ Track.keyTs = key_frame_ts /\ Track.out = <<>>
<1>1. <<>> \in Seq(Seq(Packet))
  BY EmptySeq
<1>2. QED
  BY <1>1 DEF Track, Tracks, TrackTypeOK, Slots

LEMMA StartOverTyped ==
  ASSUME NEW pkt \in Packet
  PROVE  /\ NewKeyFrame(pkt) \in Tracks
         /\ NewKeyFrame(pkt).cache = EmptyCache
         /\ NewKeyFrame(pkt).header = pkt.sn /\ NewKeyFrame(pkt).lost = Succ(pkt.sn)
         /\ NewKeyFrame(pkt).keyTs = pkt.ts /\ NewKeyFrame(pkt).out = <<>>
<1>1. <<>> \in Seq(Seq(Packet))
  BY EmptySeq
<1>2. pkt.sn \in SeqNo /\ pkt.ts \in Nat /\ Succ(pkt.sn) \in SeqNo
  BY NextNumber DEF Packet
<1>3. QED
  BY <1>1, <1>2, EmptyTyped DEF NewKeyFrame, StartOver, Tracks

LEMMA BegunTyped ==
  ASSUME TrackTypeOK, NEW pkt \in Packet
  PROVE  /\ Begun(pkt) \in Tracks /\ Begun(pkt).out = <<>>
         /\ FromHere(Begun(pkt), pkt) \in Tracks
         /\ FromHere(Begun(pkt), pkt) = [cache |-> Begun(pkt).cache, header |-> pkt.sn,
              lost |-> Begun(pkt).lost, keyTs |-> Begun(pkt).keyTs, out |-> <<>>]
<1>1. Begun(pkt) \in Tracks /\ Begun(pkt).out = <<>>
  <2>1. CASE pkt.key /\ pkt.ts # key_frame_ts
    <3>1. Begun(pkt) = Store(NewKeyFrame(pkt), pkt)
      BY <2>1 DEF Begun
    <3>2. PICK t \in Tracks : t = NewKeyFrame(pkt) /\ t.out = <<>>
      BY StartOverTyped
    <3>3. Store(t, pkt) \in Tracks /\ Store(t, pkt).out = t.out
      BY StoreFacts
    <3>4. QED
      BY <3>1, <3>2, <3>3
  <2>2. CASE ~(pkt.key /\ pkt.ts # key_frame_ts)
    <3>1. Begun(pkt) = Store(Track, pkt)
      BY <2>2 DEF Begun
    <3>2. PICK t \in Tracks : t = Track /\ t.out = <<>>
      BY TrackTyped
    <3>3. Store(t, pkt) \in Tracks /\ Store(t, pkt).out = t.out
      BY StoreFacts
    <3>4. QED
      BY <3>1, <3>2, <3>3
  <2>3. QED
    BY <2>1, <2>2
<1>2. pkt.sn \in SeqNo
  BY DEF Packet
<1>3. QED
  BY <1>1, <1>2 DEF FromHere, Tracks

LEMMA ComingIsNext ==
  ASSUME TrackTypeOK, NEW k \in Latest, OnRtp(k)
  PROVE  sent[k] \in Packet /\ Apply(Coming(sent[k]))
<1> DEFINE pkt == sent[k]
<1>1. k \in 0 .. count - 1 /\ pkt \in Packet
  BY DEF TrackTypeOK, Latest
<1>2. pkt.key \in BOOLEAN /\ IF pkt.key THEN OnKeyPacket(pkt) ELSE OnOtherPacket(pkt)
  BY <1>1 DEF OnRtp, Packet
<1> HIDE DEF pkt
<1>3. CASE pkt.key
  <2>1. Begun(pkt) = Store(IF pkt.ts = key_frame_ts THEN Track ELSE NewKeyFrame(pkt), pkt)
    BY <1>3 DEF Begun
  <2> DEFINE b == Begun(pkt)
             before == FromHere(b, pkt)
  <2>2. IF SeqDistance(b.header, pkt.sn) < 0
        THEN Apply(Drain(before, FindNextLost(before, pkt.sn)))
        ELSE IF b.lost = pkt.sn THEN Apply(Drain(b, FindNextLost(b, pkt.sn)))
        ELSE Apply(b)
    <3>1. OnKeyPacket(pkt)
      BY <1>2, <1>3
    <3> HIDE DEF b
    <3>2. QED
      BY <2>1, <3>1, Zenon DEF OnKeyPacket, FromHere, b
  <2>3. Earlier(pkt) <=> SeqDistance(b.header, pkt.sn) < 0
    BY <1>3 DEF Earlier
  <2> HIDE DEF b
  <2>4. Apply(Coming(pkt))
    <3>1. CASE SeqDistance(b.header, pkt.sn) < 0
      BY <2>2, <2>3, <3>1 DEF Coming, Searched, b
    <3>2. CASE ~(SeqDistance(b.header, pkt.sn) < 0) /\ b.lost = pkt.sn
      BY <2>2, <2>3, <3>2 DEF Coming, Searched, b
    <3>3. CASE ~(SeqDistance(b.header, pkt.sn) < 0) /\ b.lost # pkt.sn
      BY <2>2, <2>3, <3>3 DEF Coming, b
    <3>4. QED
      BY <3>1, <3>2, <3>3
  <2>5. QED
    BY <1>1, <2>4 DEF pkt
<1>4. CASE ~pkt.key
  <2>1. Begun(pkt) = Store(Track, pkt)
    BY <1>4 DEF Begun
  <2>2. OnOtherPacket(pkt) /\ ~Earlier(pkt)
    BY <1>2, <1>4 DEF Earlier
  <2>3. Begun(pkt).lost = lost_sn
    <3>1. PICK t \in Tracks : t = Track /\ t.lost = lost_sn
      BY TrackTyped
    <3>2. Store(t, pkt).lost = t.lost
      BY <1>1, StoreFacts
    <3>3. QED
      BY <2>1, <3>1, <3>2
  <2>4. QED
    BY <1>1, <2>1, <2>2, <2>3, Zenon DEF OnOtherPacket, Coming, Searched, pkt
<1>5. QED
  BY <1>2, <1>3, <1>4

(* Whatever holds of the stored packet's track and survives the loop.       *)
LEMMA ComingKeeps ==
  ASSUME TrackTypeOK, NEW pkt \in Packet, NEW Inv, Begun(pkt) \in Inv,
         FromHere(Begun(pkt), pkt) \in Inv,
         \A u \in Tracks, found \in Results : u \in Inv => After(u, found) \in Inv
  PROVE  Coming(pkt) \in Tracks /\ Coming(pkt) \in Inv
<1>1. ASSUME NEW t \in Tracks, t \in Inv
      PROVE  Searched(t, pkt) \in Tracks /\ Searched(t, pkt) \in Inv
  <2> DEFINE found == FindNextLost(t, pkt.sn)
             Invs == [n \in 0 .. CacheSize |-> Inv]
  <2>1. found \in Results
    <3>1. pkt.sn \in SeqNo
      BY DEF Packet
    <3>2. QED
      BY <3>1, SearchTyped
  <2> HIDE DEF found
  <2>2. After(t, found) \in Invs[0]
    BY <1>1, <2>1, Sizes
  <2>3. ASSUME NEW n \in 1 .. CacheSize, NEW u \in Tracks, u \in Invs[n - 1]
        PROVE  Turn(u, n) \in Invs[n]
    <3>1. n - 1 \in 0 .. CacheSize /\ n \in 0 .. CacheSize
      BY Sizes
    <3>2. u \in Inv
      BY <2>3, <3>1
    <3>3. u.header \in SeqNo
      BY DEF Tracks
    <3>4. FindNextLost(u, u.header) \in Results
      BY <3>3, SearchTyped
    <3>5. Turn(u, n) \in Inv
      BY <3>2, <3>4 DEF Turn
    <3>6. QED
      BY <3>1, <3>5
  <2>4. Drain(t, found) \in Tracks /\ Drain(t, found) \in Invs[CacheSize]
    <3> HIDE DEF Invs
    <3>1. QED
      BY <2>1, <2>2, <2>3, DrainKeeps
  <2>5. CacheSize \in 0 .. CacheSize
    BY Sizes
  <2>6. QED
    BY <2>4, <2>5 DEF Searched, found
<1>2. QED
  BY <1>1, BegunTyped DEF Coming

-----------------------------------------------------------------------------
(* The sender's frames. *)

Pieces ==
  [marker : BOOLEAN, fu : SUBSET {"start", "middle", "end"}, key : BOOLEAN, keyByte : BOOLEAN]

(* A NAL unit goes on after the packet, or went on before it.               *)
GoesOn(p) == "start" \in p.fu \/ "middle" \in p.fu

Continues(p) == "middle" \in p.fu \/ "end" \in p.fu

Kind(p) ==
  /\ "end" \in p.fu => p.marker
  /\ GoesOn(p) => ~p.marker
  /\ "start" \in p.fu => ~Continues(p)

(* Two packets of a frame that follow each other.                           *)
Linked(p, q) ==
  /\ GoesOn(p) <=> Continues(q)
  /\ "middle" \in p.fu => "end" \in q.fu
  /\ "middle" \in q.fu => "start" \in p.fu
  /\ ~GoesOn(p) => p.fu = {} /\ (q.marker \/ "start" \in q.fu)

InShape(pieces, n) ==
  /\ n \in 1 .. 4 /\ Len(pieces) = n /\ DOMAIN pieces = 1 .. n
  /\ \A i \in 1 .. n : /\ pieces[i] \in Pieces /\ Kind(pieces[i])
                       /\ pieces[i].marker <=> i = n
                       /\ pieces[i].key = pieces[1].key
  /\ \A i \in 1 .. n - 1 : Linked(pieces[i], pieces[i + 1])
  /\ ~Continues(pieces[1])
  /\ pieces[1].key => pieces[1].fu = {} /\ n > 1

IsPiece(p, marker, fu, key) ==
  p \in Pieces /\ p.marker = marker /\ p.fu = fu /\ p.key = key

LEMMA PieceIs ==
  ASSUME NEW marker \in BOOLEAN, NEW fu \in SUBSET {"start", "middle", "end"},
         NEW key \in BOOLEAN, NEW b \in BOOLEAN
  PROVE  IsPiece(Piece(marker, fu, key, b), marker, fu, key)
<1> DEFINE p == Piece(marker, fu, key, b)
<1>1. p \in Pieces
  BY DEF Piece, Pieces
<1>2. p.marker = marker /\ p.fu = fu /\ p.key = key
  BY DEF Piece
<1>3. QED
  BY <1>1, <1>2 DEF IsPiece

LEMMA KindsOfPieces ==
  /\ IsPiece(Stap, FALSE, {}, TRUE)
  /\ \A key \in BOOLEAN : IsPiece(Single(key), TRUE, {}, key)
  /\ \A key, b \in BOOLEAN : /\ IsPiece(Start(key, b), FALSE, {"start"}, key)
                            /\ IsPiece(Middle(key, b), FALSE, {"middle"}, key)
                            /\ IsPiece(End(key, b), TRUE, {"end"}, key)
<1>1. /\ {} \in SUBSET {"start", "middle", "end"} /\ {"start"} \in SUBSET {"start", "middle", "end"}
      /\ {"middle"} \in SUBSET {"start", "middle", "end"}
      /\ {"end"} \in SUBSET {"start", "middle", "end"} /\ TRUE \in BOOLEAN /\ FALSE \in BOOLEAN
  OBVIOUS
<1>2. IsPiece(Stap, FALSE, {}, TRUE)
  BY <1>1, PieceIs DEF Stap
<1>3. \A key \in BOOLEAN : IsPiece(Single(key), TRUE, {}, key)
  BY <1>1, PieceIs DEF Single
<1>4. \A key, b \in BOOLEAN : IsPiece(Start(key, b), FALSE, {"start"}, key)
  BY <1>1, PieceIs DEF Start
<1>5. \A key, b \in BOOLEAN : IsPiece(Middle(key, b), FALSE, {"middle"}, key)
  BY <1>1, PieceIs DEF Middle
<1>6. \A key, b \in BOOLEAN : IsPiece(End(key, b), TRUE, {"end"}, key)
  BY <1>1, PieceIs DEF End
<1>7. QED
  BY <1>2, <1>3, <1>4, <1>5, <1>6

LEMMA FrameShapes ==
  ASSUME NEW pieces \in Frames
  PROVE  InShape(pieces, Len(pieces))
<1> USE DEF IsPiece, Kind, GoesOn, Continues
<1>1. ASSUME NEW p, IsPiece(p, TRUE, {}, FALSE) PROVE InShape(<<p>>, 1)
  BY <1>1 DEF InShape
<1>2. ASSUME NEW p, NEW q, NEW key \in BOOLEAN,
             \/ /\ key /\ IsPiece(p, FALSE, {}, key) /\ IsPiece(q, TRUE, {}, key)
             \/ /\ ~key /\ IsPiece(p, FALSE, {"start"}, key) /\ IsPiece(q, TRUE, {"end"}, key)
      PROVE  InShape(<<p, q>>, 2)
  <2> DEFINE f == <<p, q>>
  <2>1. Len(f) = 2 /\ DOMAIN f = 1 .. 2 /\ f[1] = p /\ f[2] = q
    OBVIOUS
  <2>2. Kind(p) /\ Kind(q) /\ Linked(p, q) /\ ~Continues(p)
    BY <1>2 DEF Linked
  <2>3. p \in Pieces /\ q \in Pieces /\ ~p.marker /\ q.marker /\ q.key = p.key
        /\ (p.key => p.fu = {})
    BY <1>2
  <2> HIDE DEF f, Kind, Continues
  <2>4. 2 - 1 = 1 /\ 1 + 1 = 2 /\ 1 .. 1 = {1} /\ 1 .. 2 = {1, 2} /\ 2 \in 1 .. 4 /\ 2 > 1
    OBVIOUS
  <2>5. \A i \in 1 .. 2 : /\ f[i] \in Pieces /\ Kind(f[i]) /\ (f[i].marker <=> i = 2)
                         /\ f[i].key = f[1].key
    BY <2>1, <2>2, <2>3, <2>4
  <2>6. QED
    BY <2>1, <2>2, <2>3, <2>4, <2>5 DEF InShape, f
<1>3. ASSUME NEW p, NEW q, NEW r, NEW key \in BOOLEAN,
             \/ /\ key /\ IsPiece(p, FALSE, {}, key) /\ IsPiece(q, FALSE, {"start"}, key)
                /\ IsPiece(r, TRUE, {"end"}, key)
             \/ /\ ~key /\ IsPiece(p, FALSE, {"start"}, key)
                /\ IsPiece(q, FALSE, {"middle"}, key) /\ IsPiece(r, TRUE, {"end"}, key)
      PROVE  InShape(<<p, q, r>>, 3)
  <2> DEFINE f == <<p, q, r>>
  <2>1. Len(f) = 3 /\ DOMAIN f = 1 .. 3 /\ f[1] = p /\ f[2] = q /\ f[3] = r
    OBVIOUS
  <2>2. Kind(p) /\ Kind(q) /\ Kind(r) /\ ~Continues(p)
    BY <1>3
  <2>3. Linked(p, q) /\ Linked(q, r)
    BY <1>3 DEF Linked
  <2>4. /\ p \in Pieces /\ q \in Pieces /\ r \in Pieces /\ ~p.marker /\ ~q.marker /\ r.marker
        /\ q.key = p.key /\ r.key = p.key /\ (p.key => p.fu = {})
    BY <1>3
  <2> HIDE DEF f, Kind, Continues
  <2>5. /\ 3 - 1 = 2 /\ 1 + 1 = 2 /\ 2 + 1 = 3 /\ 1 .. 2 = {1, 2} /\ 1 .. 3 = {1, 2, 3}
        /\ 3 \in 1 .. 4 /\ 3 > 1
    OBVIOUS
  <2>6. \A i \in 1 .. 3 : /\ f[i] \in Pieces /\ Kind(f[i]) /\ (f[i].marker <=> i = 3)
                         /\ f[i].key = f[1].key
    BY <2>1, <2>2, <2>4, <2>5
  <2>7. \A i \in 1 .. 2 : Linked(f[i], f[i + 1])
    BY <2>1, <2>3, <2>5
  <2>8. QED
    BY <2>1, <2>2, <2>4, <2>5, <2>6, <2>7 DEF InShape, f
<1>4. ASSUME NEW p, NEW q, NEW r, NEW t, IsPiece(p, FALSE, {}, TRUE),
             IsPiece(q, FALSE, {"start"}, TRUE), IsPiece(r, FALSE, {"middle"}, TRUE),
             IsPiece(t, TRUE, {"end"}, TRUE)
      PROVE  InShape(<<p, q, r, t>>, 4)
  <2> DEFINE f == <<p, q, r, t>>
  <2>1. Len(f) = 4 /\ DOMAIN f = 1 .. 4 /\ f[1] = p /\ f[2] = q /\ f[3] = r /\ f[4] = t
    OBVIOUS
  <2>2. Kind(p) /\ Kind(q) /\ Kind(r) /\ Kind(t) /\ ~Continues(p)
    BY <1>4
  <2>3. Linked(p, q) /\ Linked(q, r) /\ Linked(r, t)
    BY <1>4 DEF Linked
  <2>4. /\ p \in Pieces /\ q \in Pieces /\ r \in Pieces /\ t \in Pieces
        /\ ~p.marker /\ ~q.marker /\ ~r.marker /\ t.marker
        /\ q.key = p.key /\ r.key = p.key /\ t.key = p.key /\ (p.key => p.fu = {})
    BY <1>4
  <2> HIDE DEF f, Kind, Continues
  <2>5. /\ 4 - 1 = 3 /\ 1 + 1 = 2 /\ 2 + 1 = 3 /\ 3 + 1 = 4 /\ 1 .. 3 = {1, 2, 3}
        /\ 1 .. 4 = {1, 2, 3, 4} /\ 4 \in 1 .. 4 /\ 4 > 1
    OBVIOUS
  <2>6. \A i \in 1 .. 4 : /\ f[i] \in Pieces /\ Kind(f[i]) /\ (f[i].marker <=> i = 4)
                         /\ f[i].key = f[1].key
    BY <2>1, <2>2, <2>4, <2>5
  <2>7. \A i \in 1 .. 3 : Linked(f[i], f[i + 1])
    BY <2>1, <2>3, <2>5
  <2>8. QED
    BY <2>1, <2>2, <2>4, <2>5, <2>6, <2>7 DEF InShape, f
<1> HIDE DEF IsPiece, Kind, GoesOn, Continues
<1>5. CASE pieces = <<Stap, Single(TRUE)>>
  BY <1>2, <1>5, KindsOfPieces
<1>6. CASE pieces = <<Single(FALSE)>>
  BY <1>1, <1>6, KindsOfPieces
<1>7. ASSUME NEW b \in BOOLEAN, pieces = <<Stap, Start(TRUE, b), End(TRUE, b)>>
      PROVE  InShape(pieces, Len(pieces))
  BY <1>3, <1>7, KindsOfPieces
<1>8. ASSUME NEW b \in BOOLEAN, pieces = <<Stap, Start(TRUE, b), Middle(TRUE, b), End(TRUE, b)>>
      PROVE  InShape(pieces, Len(pieces))
  BY <1>4, <1>8, KindsOfPieces
<1>9. ASSUME NEW b \in BOOLEAN, pieces = <<Start(FALSE, b), End(FALSE, b)>>
      PROVE  InShape(pieces, Len(pieces))
  BY <1>2, <1>9, KindsOfPieces
<1>10. ASSUME NEW b \in BOOLEAN, pieces = <<Start(FALSE, b), Middle(FALSE, b), End(FALSE, b)>>
       PROVE  InShape(pieces, Len(pieces))
  BY <1>3, <1>10, KindsOfPieces
<1>11. QED
  BY <1>5, <1>6, <1>7, <1>8, <1>9, <1>10 DEF Frames

-----------------------------------------------------------------------------
(* Types. *)

LEMMA SentTyped ==
  ASSUME TrackTypeOK, NEW pieces \in Frames, SendFrame(pieces)
  PROVE  /\ Len(pieces) \in 1 .. 4 /\ count' = count + Len(pieces)
         /\ count \in Nat /\ count' \in 0 .. MaxPackets
         /\ sent' \in [0 .. count' - 1 -> Packet]
         /\ \A k \in 0 .. count - 1 : sent'[k] = sent[k]
         /\ \A i \in 1 .. Len(pieces) :
              sent'[count + i - 1] = Numbered(pieces[i], count + i - 1)
<1> DEFINE n == Len(pieces)
<1>1. n \in 1 .. 4 /\ \A i \in 1 .. n : pieces[i] \in Pieces
  BY FrameShapes DEF InShape
<1>2. count \in 0 .. MaxPackets /\ sent \in [0 .. count - 1 -> Packet]
  BY DEF TrackTypeOK
<1>3. /\ count + n <= MaxPackets /\ count' = count + n
      /\ sent' = [k \in 0 .. count' - 1 |->
                   IF k < count THEN sent[k] ELSE Numbered(pieces[k - count + 1], k)]
  BY DEF SendFrame
<1> HIDE DEF n
<1>4. ASSUME NEW k \in Nat, NEW i \in 1 .. n PROVE Numbered(pieces[i], k) \in Packet
  <2>1. Plus(0, k) \in SeqNo
    BY PlusFacts
  <2>2. pieces[i] \in Pieces
    BY <1>1
  <2>3. count + 1 \in Nat
    BY <1>2, Sizes
  <2>4. QED
    BY <2>1, <2>2, <2>3 DEF Numbered, Packet, Pieces
<1>5. count \in Nat /\ count' \in 0 .. MaxPackets
  BY <1>1, <1>2, <1>3, Sizes
<1>6. ASSUME NEW k \in 0 .. count' - 1
      PROVE  (IF k < count THEN sent[k] ELSE Numbered(pieces[k - count + 1], k)) \in Packet
  <2>1. CASE k < count
    BY <1>2, <1>5, <2>1
  <2>2. CASE ~(k < count)
    <3>1. k \in Nat /\ k - count + 1 \in 1 .. n
      BY <1>1, <1>3, <1>5, <2>2
    <3>2. QED
      BY <1>4, <2>2, <3>1
  <2>3. QED
    BY <2>1, <2>2
<1>7. sent' \in [0 .. count' - 1 -> Packet]
  BY <1>3, <1>6
<1>8. ASSUME NEW k \in 0 .. count - 1 PROVE sent'[k] = sent[k]
  <2>1. k \in 0 .. count' - 1 /\ k < count
    BY <1>1, <1>3, <1>5
  <2>2. QED
    BY <1>3, <2>1
<1>9. ASSUME NEW i \in 1 .. n PROVE sent'[count + i - 1] = Numbered(pieces[i], count + i - 1)
  <2>1. PICK k \in 0 .. count' - 1 : k = count + i - 1 /\ ~(k < count) /\ k - count + 1 = i
    BY <1>1, <1>3, <1>5
  <2>2. sent'[k] = Numbered(pieces[i], k)
    BY <1>3, <2>1
  <2>3. QED
    BY <2>1, <2>2
<1>10. QED
  BY <1>1, <1>3, <1>5, <1>7, <1>8, <1>9 DEF n

LEMMA TrackTypeKept == TrackTypeOK /\ [TrackNext]_trackVars => TrackTypeOK'
<1>1. SUFFICES ASSUME TrackTypeOK, [TrackNext]_trackVars PROVE TrackTypeOK'
  OBVIOUS
<1>2. ASSUME NEW pieces \in Frames, SendFrame(pieces) PROVE TrackTypeOK'
  <2>1. /\ count' \in 0 .. MaxPackets /\ sent' \in [0 .. count' - 1 -> Packet]
        /\ count \in Nat /\ count' \in Nat /\ count <= count'
    BY <1>1, <1>2, SentTyped, Sizes
  <2>2. /\ UNCHANGED <<cache, header_sn, lost_sn, key_frame_ts, hasRequestKeyframe,
                       delivered, newest, repeated, expect>>
        /\ came' \subseteq Latest'
    BY <1>2 DEF SendFrame, track
  <2>3. expect \in 0 .. count' \cup {-1}
    BY <1>1, <2>1 DEF TrackTypeOK
  <2>4. QED
    BY <1>1, <2>1, <2>2, <2>3 DEF TrackTypeOK
<1>3. ASSUME NEW k \in Latest, OnRtp(k) PROVE TrackTypeOK'
  <2> DEFINE pkt == sent[k]
             t == Coming(pkt)
  <2>1. pkt \in Packet /\ Apply(t)
    BY <1>1, <1>3, ComingIsNext
  <2>2. t \in Tracks
    <3> HIDE DEF pkt
    <3> DEFINE All == {u : u \in Tracks}
    <3>1. Begun(pkt) \in All /\ FromHere(Begun(pkt), pkt) \in All
      BY <1>1, <2>1, BegunTyped
    <3>2. \A u \in Tracks, found \in Results : u \in All => After(u, found) \in All
      BY AfterCases
    <3> HIDE DEF All
    <3>3. QED
      BY <1>1, <2>1, <3>1, <3>2, ComingKeeps
  <2>3. /\ cache' \in [0 .. CacheSize - 1 -> Cached] /\ header_sn' \in SeqNo
        /\ lost_sn' \in SeqNo /\ key_frame_ts' \in Nat \cup {-1}
        /\ delivered' \in Seq(Seq(Packet))
    <3> HIDE DEF t
    <3>1. QED
      BY <2>1, <2>2 DEF Apply, Tracks, Slots
  <2>4. /\ hasRequestKeyframe' = (hasRequestKeyframe \/ pkt.key)
        /\ newest' = IF pkt.ts > newest THEN pkt.ts ELSE newest
        /\ came' = came \cup {k} /\ repeated' = (repeated \/ k \in came)
        /\ expect' = (IF StartsKeyFrame(pkt) \/ k = expect THEN k + 1 ELSE -1)
        /\ sent' = sent /\ count' = count
    BY <1>3 DEF OnRtp
  <2>5. count \in 0 .. MaxPackets /\ k \in 0 .. count - 1
    BY <1>1, <1>3 DEF TrackTypeOK, Latest
  <2>6. hasRequestKeyframe' \in BOOLEAN /\ repeated' \in BOOLEAN
    BY <2>4
  <2>7. newest' \in Nat
    BY <1>1, <2>1, <2>4 DEF TrackTypeOK, Packet
  <2>8. came' \subseteq Latest'
    BY <1>1, <1>3, <2>4 DEF TrackTypeOK, Latest
  <2>9. expect' \in 0 .. count' \cup {-1}
    <3>1. k + 1 \in 0 .. count
      BY <2>5, Sizes
    <3>2. QED
      BY <2>4, <3>1
  <2>10. QED
    BY <1>1, <2>3, <2>4, <2>5, <2>6, <2>7, <2>8, <2>9 DEF TrackTypeOK
<1>4. CASE UNCHANGED trackVars
  BY <1>1, <1>4 DEF TrackTypeOK, Latest, trackVars, track, history
<1>5. QED
  BY <1>1, <1>2, <1>3, <1>4 DEF TrackNext

LEMMA TrackInitTyped == TrackInit => TrackTypeOK
<1>1. SUFFICES ASSUME TrackInit PROVE TrackTypeOK
  OBVIOUS
<1>2. EmptyCache \in [0 .. CacheSize - 1 -> Cached]
  BY EmptyTyped DEF Slots
<1>3. <<>> \in Seq(Seq(Packet))
  BY EmptySeq
<1>4. count = 0 /\ sent \in [0 .. count - 1 -> Packet]
  BY <1>1 DEF TrackInit
<1>5. count \in 0 .. MaxPackets /\ newest \in Nat /\ expect \in 0 .. count \cup {-1}
  BY <1>1, Sizes DEF TrackInit
<1>6. header_sn \in SeqNo /\ lost_sn \in SeqNo /\ key_frame_ts \in Nat \cup {-1}
  BY <1>1, Sizes DEF TrackInit
<1>7. /\ cache \in [0 .. CacheSize - 1 -> Cached] /\ delivered \in Seq(Seq(Packet))
      /\ hasRequestKeyframe \in BOOLEAN /\ repeated \in BOOLEAN /\ came \subseteq Latest
  BY <1>1, <1>2, <1>3 DEF TrackInit
<1>8. QED
  BY <1>4, <1>5, <1>6, <1>7 DEF TrackTypeOK

(* The cache is addressed within its bounds, and header and lost number are *)
(* uint16_t (YangPlayTrackH264).                                            *)
THEOREM TrackTyping == TrackSpec => []TrackTypeOK
<1>1. QED
  BY TrackInitTyped, TrackTypeKept, PTL DEF TrackSpec

-----------------------------------------------------------------------------
(* The frames delivered. *)

(* The frames delivered so far, and one more.                               *)
LEMMA OneMoreFrame ==
  ASSUME NEW t \in Tracks, NEW end \in SeqNo
  PROVE  LET n == Len(t.out)
             u == PacketVideo(t, end)
         IN  /\ n \in Nat /\ Len(u.out) = n + 1
             /\ \A i \in 1 .. n : u.out[i] = t.out[i]
             /\ u.out[n + 1] = FramePackets(t, end)
<1>1. PacketVideo(t, end).out = Append(t.out, FramePackets(t, end))
  BY PacketVideoFacts
<1>2. t.out \in Seq(Seq(Packet)) /\ FramePackets(t, end) \in Seq(Packet)
  BY FrameTyped DEF Tracks
<1> DEFINE out == t.out
           f == FramePackets(t, end)
           all == Append(out, f)
<1>3. /\ Len(out) \in Nat /\ Len(all) = Len(out) + 1
      /\ \A i \in 1 .. Len(out) : all[i] = out[i]
      /\ all[Len(out) + 1] = f
  <2> HIDE DEF f, out
  <2>1. QED
    BY <1>2, AppendProperties, LenProperties DEF f, out
<1>4. QED
  BY <1>1, <1>3

-----------------------------------------------------------------------------
(* The stream of all packets sent. *)

(* A packet is the last of its frame, or the next one continues it.         *)
Continued(p, q) ==
  IF p.marker THEN p.ts < q.ts /\ ~Continues(q)
  ELSE q.ts = p.ts /\ q.key = p.key /\ Linked(p, q)

InStream(s, n, k) ==
  /\ s[k].sn = Plus(0, k) /\ s[k].ts <= k + 1
  /\ k + 1 = n => s[k].marker
  /\ k + 1 < n => Continued(s[k], s[k + 1])
  /\ Kind(s[k]) /\ (k = 0 => ~Continues(s[k]))
  /\ (k = 0 \/ s[k - 1].marker) /\ s[k].key => s[k].fu = {} /\ ~s[k].marker

Stream == \A k \in 0 .. count - 1 : InStream(sent, count, k)

(* The last packet before a new frame, which closes the one before.         *)
LEMMA EndsOld ==
  ASSUME NEW n \in Nat, NEW m \in Nat, n < m, NEW s, NEW r, NEW k \in 0 .. n - 1,
         InStream(s, n, k), \A j \in 0 .. n - 1 : r[j] = s[j],
         s[n - 1].ts < r[n].ts, ~Continues(r[n])
  PROVE  InStream(r, m, k)
<1>1. k \in Nat /\ k < n /\ (k # n - 1 => k + 1 \in 0 .. n - 1)
      /\ (k > 0 => k - 1 \in 0 .. n - 1)
  OBVIOUS
<1>2. CASE k = n - 1
  <2>1. r[k] = s[k] /\ s[k].marker /\ s[k].ts < r[k + 1].ts /\ ~Continues(r[k + 1])
    BY <1>2 DEF InStream
  <2>2. Continued(r[k], r[k + 1])
    BY <2>1 DEF Continued
  <2>3. k > 0 => r[k - 1] = s[k - 1]
    BY <1>1
  <2>4. k + 1 # m
    BY <1>2
  <2>5. QED
    BY <1>1, <2>1, <2>2, <2>3, <2>4 DEF InStream
<1>3. CASE k # n - 1
  <2>1. r[k] = s[k] /\ r[k + 1] = s[k + 1] /\ k + 1 < n /\ k + 1 < m /\ k + 1 # m
    BY <1>1, <1>3
  <2>2. k > 0 => r[k - 1] = s[k - 1]
    BY <1>1
  <2>3. QED
    BY <1>1, <2>1, <2>2 DEF InStream
<1>4. QED
  BY <1>2, <1>3

LEMMA StreamSent ==
  ASSUME TrackTypeOK, Stream, NEW pieces \in Frames, SendFrame(pieces)
  PROVE  Stream'
<1> DEFINE l == Len(pieces)
           p(i) == Numbered(pieces[i], count + i - 1)
<1>1. /\ l \in 1 .. 4 /\ count' = count + l /\ count \in Nat
      /\ \A k \in 0 .. count - 1 : sent'[k] = sent[k]
      /\ \A i \in 1 .. l : sent'[count + i - 1] = p(i)
  BY SentTyped
<1>2. InShape(pieces, l)
  BY FrameShapes
<1>3. \A i \in 1 .. l :
        /\ p(i).sn = Plus(0, count + i - 1) /\ p(i).ts = count + 1
        /\ p(i).marker = pieces[i].marker /\ p(i).fu = pieces[i].fu
        /\ p(i).key = pieces[i].key
  BY DEF Numbered
<1> HIDE DEF l, p
<1>4. ASSUME NEW k \in 0 .. count - 1 PROVE InStream(sent', count', k)
  <2>1. InStream(sent, count, k) /\ InStream(sent, count, count - 1)
    BY <1>1 DEF Stream
  <2>2. sent[count - 1].ts \in Nat /\ sent[count - 1].ts <= count
    <3>1. count - 1 \in 0 .. count - 1
      BY <1>1
    <3>2. sent[count - 1] \in Packet
      BY <3>1 DEF TrackTypeOK
    <3>3. sent[count - 1].ts <= count - 1 + 1
      BY <2>1 DEF InStream
    <3>4. QED
      BY <1>1, <3>2, <3>3 DEF Packet
  <2>3. sent'[count].ts = count + 1 /\ ~Continues(sent'[count])
    <3>1. 1 \in 1 .. l /\ count + 1 - 1 = count
      BY <1>1
    <3>2. sent'[count] = p(1)
      BY <1>1, <3>1
    <3>3. ~Continues(p(1))
      BY <1>2, <1>3, <3>1 DEF InShape, Continues
    <3>4. QED
      BY <1>3, <3>1, <3>2, <3>3
  <2>4. sent[count - 1].ts < sent'[count].ts /\ count < count' /\ count' \in Nat
    BY <1>1, <2>2, <2>3
  <2>5. QED
    BY <1>1, <2>1, <2>3, <2>4, EndsOld
<1>5. ASSUME NEW i \in 1 .. l PROVE InStream(sent', count', count + i - 1)
  <2>1. PICK k \in Nat : k = count + i - 1
    BY <1>1
  <2>2. /\ sent'[k] = p(i) /\ Kind(pieces[i]) /\ (pieces[i].marker <=> i = l)
        /\ pieces[i].key = pieces[1].key
    BY <1>1, <1>2, <2>1 DEF InShape
  <2>3. i < l => i + 1 \in 1 .. l /\ sent'[k + 1] = p(i + 1) /\ k + 1 < count'
    <3>1. i < l => i + 1 \in 1 .. l /\ k + 1 = count + (i + 1) - 1 /\ k + 1 < count'
      BY <1>1, <2>1
    <3>2. QED
      BY <1>1, <3>1
  <2>4. i = l => k + 1 = count'
    BY <1>1, <2>1
  <2>5. i > 1 => i - 1 \in 1 .. l /\ sent'[k - 1] = p(i - 1) /\ k > 0
    <3>1. i > 1 => i - 1 \in 1 .. l /\ k - 1 = count + (i - 1) - 1 /\ k > 0
      BY <1>1, <2>1
    <3>2. QED
      BY <1>1, <3>1
  <2>6. /\ sent'[k].sn = Plus(0, k) /\ sent'[k].ts = count + 1 /\ sent'[k].ts <= k + 1
        /\ sent'[k].marker = pieces[i].marker /\ sent'[k].fu = pieces[i].fu
        /\ sent'[k].key = pieces[i].key
    BY <1>1, <1>3, <2>1, <2>2
  <2>7. sent'[k].marker <=> i = l
    BY <2>2, <2>6
  <2>8. /\ k + 1 = count' => sent'[k].marker
        /\ k + 1 < count' => Continued(sent'[k], sent'[k + 1])
    <3>1. CASE i < l
      <4>1. /\ sent'[k + 1].ts = count + 1 /\ sent'[k + 1].key = pieces[i + 1].key
            /\ sent'[k + 1].fu = pieces[i + 1].fu /\ sent'[k + 1].marker = pieces[i + 1].marker
            /\ pieces[i + 1].key = pieces[1].key /\ ~sent'[k].marker
        BY <1>2, <1>3, <2>3, <2>7, <3>1 DEF InShape
      <4>2. i \in 1 .. l - 1
        BY <1>1, <3>1
      <4>3. Linked(pieces[i], pieces[i + 1])
        BY <1>2, <4>2 DEF InShape
      <4>4. Linked(sent'[k], sent'[k + 1])
        BY <2>6, <4>1, <4>3, Zenon DEF Linked, GoesOn, Continues
      <4>5. QED
        BY <2>2, <2>3, <2>6, <3>1, <4>1, <4>4 DEF Continued
    <3>2. CASE i = l
      BY <1>1, <2>4, <2>7, <3>2
    <3>3. QED
      BY <1>1, <3>1, <3>2
  <2>9. Kind(sent'[k])
    BY <2>2, <2>6 DEF Kind, GoesOn, Continues
  <2>10. k = 0 => ~Continues(sent'[k])
    <3>1. k = 0 => i = 1
      BY <1>1, <2>1
    <3>2. QED
      BY <1>2, <2>6, <3>1 DEF InShape, Continues
  <2>11. (k = 0 \/ sent'[k - 1].marker) /\ sent'[k].key
           => sent'[k].fu = {} /\ ~sent'[k].marker
    <3>1. CASE i > 1
      <4>1. pieces[i - 1].marker <=> i - 1 = l
        BY <1>2, <2>5, <3>1 DEF InShape
      <4>2. i - 1 # l
        BY <1>1
      <4>3. ~sent'[k - 1].marker /\ k # 0
        BY <1>3, <2>5, <3>1, <4>1, <4>2
      <4>4. QED
        BY <4>3
    <3>2. CASE i = 1
      <4>1. pieces[1].key => pieces[1].fu = {} /\ l > 1
        BY <1>2 DEF InShape
      <4>2. QED
        BY <1>1, <2>6, <2>7, <3>2, <4>1
    <3>3. QED
      BY <1>1, <3>1, <3>2
  <2>12. InStream(sent', count', k)
    BY <2>6, <2>8, <2>9, <2>10, <2>11 DEF InStream
  <2>13. QED
    BY <2>1, <2>12
<1>6. ASSUME NEW k \in 0 .. count' - 1 PROVE InStream(sent', count', k)
  <2>1. CASE k < count
    BY <1>1, <1>4, <2>1
  <2>2. CASE ~(k < count)
    <3>1. PICK i \in 1 .. l : i = k - count + 1
      BY <1>1, <2>2
    <3>2. k = count + i - 1
      BY <1>1, <3>1
    <3>3. QED
      BY <1>5, <3>2
  <2>3. QED
    BY <2>1, <2>2
<1>7. QED
  BY <1>6 DEF Stream

-----------------------------------------------------------------------------
(* Before the first slot is due again. *)

(* The packets in the cache are those sent under the number of their slot,  *)
(* and none of them is still to come for the first time (F).                *)
InPlace(t, F) ==
  \A s \in Slots : t.cache[s].inUse => s < count /\ t.cache[s].pkt = sent[s] /\ s \notin F

(* The slot of header: header passes CacheSize once all slots were emptied. *)
Base(t) == IF t.header < CacheSize THEN 0 ELSE CacheSize

Spot(t) == t.header - Base(t)

Together(t, p) ==
  \A j \in Spot(t) .. p - 1 : t.cache[j].inUse /\ sent[j].ts = sent[Spot(t)].ts

(* How a search ends, in slots.                                             *)
LostIn(t, q, found) ==
  ~t.cache[q].inUse /\ found = [kind |-> "lost", sn |-> Base(t) + q]

TimeIn(t, q, found) ==
  /\ q > Spot(t) /\ sent[q].ts # sent[Spot(t)].ts
  /\ found = [kind |-> "frame", sn |-> Base(t) + q - 1]

MarkerIn(t, q, found) ==
  /\ Together(t, q + 1) /\ sent[q].marker
  /\ found = [kind |-> "frame", sn |-> Base(t) + q]

LEMMA SmallPlus ==
  ASSUME NEW n \in Nat, NEW i \in Nat, n + i < SeqSpace
  PROVE  Plus(n, i) = n + i
<1>1. n + i \in 0 .. SeqSpace - 1 /\ n + i = SeqSpace * 0 + (n + i)
  BY Sizes
<1>2. (n + i) % SeqSpace = n + i
  BY <1>1, Sizes, OneRemainder
<1>3. QED
  BY <1>2 DEF Plus

LEMMA SmallSlot ==
  ASSUME NEW b \in {0, CacheSize}, NEW p \in Slots
  PROVE  b + p \in SeqNo /\ b + p \in Nat /\ (b + p) % CacheSize = p
<1>1. p \in 0 .. CacheSize - 1 /\ b + p \in Nat /\ b + p < 2 * CacheSize
  BY Sizes DEF Slots
<1>2. PICK q \in Int : b + p = CacheSize * q + p
  <2>1. CASE b = 0
    <3>1. b + p = CacheSize * 0 + p
      BY <1>1, <2>1, Sizes
    <3>2. QED
      BY <3>1
  <2>2. CASE b = CacheSize
    <3>1. b + p = CacheSize * 1 + p
      BY <1>1, <2>2, Sizes
    <3>2. QED
      BY <3>1
  <2>3. QED
    BY <2>1, <2>2
<1>3. (b + p) % CacheSize = p
  BY <1>1, <1>2, Sizes, OneRemainder
<1>4. b + p \in SeqNo
  BY <1>1, Sizes DEF SeqNo
<1>5. QED
  BY <1>1, <1>3, <1>4

LEMMA SpotFacts ==
  ASSUME NEW t \in Tracks, t.header < 2 * CacheSize
  PROVE  /\ Base(t) \in {0, CacheSize} /\ Spot(t) \in Slots
         /\ t.header = Base(t) + Spot(t) /\ t.header \in Nat
         /\ t.header % CacheSize = Spot(t)
<1>1. t.header \in Nat
  BY NextNumber DEF Tracks
<1>2. Base(t) \in {0, CacheSize}
  BY DEF Base
<1>3. Spot(t) \in Slots /\ t.header = Base(t) + Spot(t)
  <2>1. CASE t.header < CacheSize
    BY <1>1, <2>1, Sizes DEF Base, Spot, Slots
  <2>2. CASE ~(t.header < CacheSize)
    BY <1>1, <2>2, Sizes DEF Base, Spot, Slots
  <2>3. QED
    BY <2>1, <2>2
<1>4. (Base(t) + Spot(t)) % CacheSize = Spot(t)
  BY <1>2, <1>3, SmallSlot
<1>5. QED
  BY <1>1, <1>2, <1>3, <1>4

(* What the code sees at the i-th number of a search is what is in the slot *)
(* i further.                                                               *)
LEMMA SeenAt ==
  ASSUME NEW t \in Tracks, NEW b \in {0, CacheSize}, NEW p \in Slots, NEW i \in Nat,
         p + i \in Slots
  PROVE  /\ Plus(b + p, i) = b + (p + i)
         /\ Slot(t.cache, Plus(b + p, i)) = t.cache[p + i]
<1>1. b + p \in Nat /\ b + p + i < SeqSpace /\ b + p + i = b + (p + i)
  BY Sizes DEF Slots
<1>2. Plus(b + p, i) = b + p + i
  BY <1>1, SmallPlus
<1>3. (b + (p + i)) % CacheSize = p + i
  BY SmallSlot
<1>4. QED
  BY <1>1, <1>2, <1>3 DEF Slot

-----------------------------------------------------------------------------
(* A search. *)

Quiet == TrackTypeOK /\ Stream /\ count <= CacheSize

LEMMA SentFacts ==
  ASSUME Quiet, NEW k \in 0 .. count - 1
  PROVE  /\ k \in Slots /\ k \in Nat /\ sent[k] \in Packet /\ sent[k].sn = k
         /\ InStream(sent, count, k)
         /\ ~sent[k].marker => k + 1 \in 0 .. count - 1 /\ sent[k + 1].ts = sent[k].ts
<1>1. count \in Nat /\ count <= CacheSize /\ sent[k] \in Packet /\ InStream(sent, count, k)
  BY Sizes DEF Quiet, TrackTypeOK, Stream
<1>2. k \in Slots /\ k \in Nat /\ 0 + k < SeqSpace
  BY <1>1, Sizes DEF Slots
<1>3. Plus(0, k) = 0 + k
  BY <1>2, SmallPlus
<1>4. sent[k].sn = k
  BY <1>1, <1>2, <1>3 DEF InStream
<1>5. ASSUME ~sent[k].marker
      PROVE  k + 1 \in 0 .. count - 1 /\ sent[k + 1].ts = sent[k].ts
  <2>1. k + 1 # count
    BY <1>1, <1>5 DEF InStream
  <2>2. k + 1 < count
    BY <1>1, <2>1
  <2>3. sent[k + 1].ts = sent[k].ts
    BY <1>1, <1>5, <2>2 DEF InStream, Continued
  <2>4. QED
    BY <1>1, <2>2, <2>3
<1>6. QED
  BY <1>1, <1>2, <1>4, <1>5

(* A packet that is in the cache and is not the last of its frame leaves    *)
(* room for the next one.                                                   *)
LEMMA RoomAfter ==
  ASSUME Quiet, NEW F, NEW t, InPlace(t, F), NEW s \in Slots,
         t.cache[s].inUse, ~sent[s].marker
  PROVE  s + 1 \in Slots /\ s \in 0 .. count - 1 /\ sent[s + 1].ts = sent[s].ts
<1>1. s \in 0 .. count - 1
  BY Sizes DEF InPlace, Slots, Quiet, TrackTypeOK
<1>2. s + 1 \in 0 .. count - 1 /\ sent[s + 1].ts = sent[s].ts
  BY <1>1, SentFacts
<1>3. s + 1 \in Slots
  BY <1>2, SentFacts
<1>4. QED
  BY <1>1, <1>2, <1>3

(* What the code sees of one slot that a search comes to.                   *)
LEMMA StopsIn ==
  ASSUME Quiet, NEW F, NEW t \in Tracks, InPlace(t, F), t.header < 2 * CacheSize,
         NEW p \in Slots, NEW i \in Nat, p + i \in Slots
  PROVE  LET sn == Plus(Base(t) + p, i)
         IN  /\ sn = Base(t) + (p + i)
             /\ Missing(t, sn) <=> ~t.cache[p + i].inUse
             /\ t.cache[p + i].inUse =>
                  /\ Slot(t.cache, sn).pkt.marker = sent[p + i].marker
                  /\ t.cache[Spot(t)].inUse \/ p + i = Spot(t) =>
                       (NewTime(t, sn) <=> sent[p + i].ts # sent[Spot(t)].ts)
<1> DEFINE sn == Plus(Base(t) + p, i)
<1>1. Base(t) \in {0, CacheSize} /\ t.header % CacheSize = Spot(t) /\ Spot(t) \in Slots
  BY SpotFacts
<1>2. sn = Base(t) + (p + i) /\ Slot(t.cache, sn) = t.cache[p + i]
  BY <1>1, SeenAt
<1>3. Slot(t.cache, t.header) = t.cache[Spot(t)]
  BY <1>1 DEF Slot
<1> HIDE DEF sn
<1>4. Missing(t, sn) <=> ~t.cache[p + i].inUse
  BY <1>2 DEF Missing
<1>5. ASSUME t.cache[p + i].inUse
      PROVE  /\ Slot(t.cache, sn).pkt.marker = sent[p + i].marker
             /\ t.cache[Spot(t)].inUse \/ p + i = Spot(t) =>
                  (NewTime(t, sn) <=> sent[p + i].ts # sent[Spot(t)].ts)
  <2>1. t.cache[p + i].pkt = sent[p + i]
    BY <1>5 DEF InPlace
  <2>2. t.cache[Spot(t)].inUse \/ p + i = Spot(t) => t.cache[Spot(t)].pkt = sent[Spot(t)]
    BY <1>1, <2>1 DEF InPlace
  <2>3. QED
    BY <1>2, <1>3, <2>1, <2>2 DEF NewTime, OtherTime
<1>6. QED
  BY <1>2, <1>4, <1>5 DEF sn

LEMMA SearchGoes ==
  ASSUME Quiet, NEW F, NEW t \in Tracks, InPlace(t, F), t.header < 2 * CacheSize,
         NEW p \in Spot(t) .. CacheSize - 1, Together(t, p),
         t.cache[p].inUse \/ p = Spot(t)
  PROVE  \E q \in p .. CacheSize - 1 :
           /\ Together(t, q)
           /\ \A j \in p .. q - 1 : ~sent[j].marker
           /\ \/ LostIn(t, q, FindNextLost(t, Base(t) + p))
              \/ TimeIn(t, q, FindNextLost(t, Base(t) + p))
              \/ MarkerIn(t, q, FindNextLost(t, Base(t) + p))
<1> DEFINE b == Base(t)
           h == Spot(t)
           current == b + p
           found == FindNextLost(t, current)
<1>1. /\ b \in {0, CacheSize} /\ h \in Slots /\ p \in Slots /\ h <= p /\ h \in Nat
      /\ p \in Nat /\ CacheSize \in Nat
  BY SpotFacts, Sizes DEF Slots
<1> HIDE DEF found, current, b, h
(* A slot of which the search has not stopped.                              *)
<1>2. ASSUME NEW i \in Nat, p + i \in Slots, ~Stops(t, Plus(current, i)),
             i = 0 \/ t.cache[h].inUse
      PROVE  /\ t.cache[p + i].inUse /\ ~sent[p + i].marker /\ p + i + 1 \in Slots
             /\ t.cache[h].inUse /\ sent[p + i].ts = sent[h].ts
  <2>1. t.cache[p + i].inUse
    BY <1>1, <1>2, StopsIn DEF Stops, current, b
  <2>2. t.cache[h].inUse
    <3>1. CASE p = h
      <4>1. CASE i = 0
        BY <1>1, <2>1, <3>1, <4>1
      <4>2. QED
        BY <1>2, <4>1
    <3>2. CASE p # h
      <4>1. h \in h .. p - 1
        BY <1>1, <3>2
      <4>2. QED
        BY <4>1 DEF Together, h
    <3>3. QED
      BY <3>1, <3>2
  <2>3. ~sent[p + i].marker /\ sent[p + i].ts = sent[h].ts
    BY <1>1, <1>2, <2>1, <2>2, StopsIn DEF Stops, current, b, h
  <2>4. p + i + 1 \in Slots
    BY <1>2, <2>1, <2>3, RoomAfter
  <2>5. QED
    BY <2>1, <2>2, <2>3, <2>4
<1>3. ASSUME NEW i \in Nat, \A j \in 0 .. i - 1 : ~Stops(t, Plus(current, j))
      PROVE  /\ p + i \in Slots
             /\ \A j \in 0 .. i - 1 : /\ t.cache[p + j].inUse /\ ~sent[p + j].marker
                                      /\ sent[p + j].ts = sent[h].ts
  <2> DEFINE T == {n \in Nat : n <= i =>
                     /\ p + n \in Slots
                     /\ n > 0 => t.cache[h].inUse
                     /\ \A j \in 0 .. n - 1 : /\ t.cache[p + j].inUse /\ ~sent[p + j].marker
                                              /\ sent[p + j].ts = sent[h].ts}
  <2>1. 0 \in T
    BY <1>1
  <2>2. ASSUME NEW n \in T PROVE n + 1 \in T
    <3>1. SUFFICES ASSUME n + 1 <= i
                   PROVE  /\ p + n + 1 \in Slots /\ t.cache[h].inUse
                          /\ \A j \in 0 .. n : /\ t.cache[p + j].inUse
                                               /\ ~sent[p + j].marker
                                               /\ sent[p + j].ts = sent[h].ts
      <4>1. p + (n + 1) = p + n + 1 /\ n + 1 - 1 = n /\ n + 1 \in Nat
        BY <1>1
      <4>2. QED
        BY <4>1
    <3>2. /\ n \in Nat /\ n <= i /\ n \in 0 .. i - 1 /\ p + n \in Slots
          /\ n = 0 \/ t.cache[h].inUse
          /\ \A j \in 0 .. n - 1 : /\ t.cache[p + j].inUse /\ ~sent[p + j].marker
                                   /\ sent[p + j].ts = sent[h].ts
      BY <3>1
    <3>3. ~Stops(t, Plus(current, n))
      BY <1>3, <3>2
    <3>4. /\ t.cache[p + n].inUse /\ ~sent[p + n].marker /\ p + n + 1 \in Slots
          /\ t.cache[h].inUse /\ sent[p + n].ts = sent[h].ts
      BY <1>2, <3>2, <3>3
    <3>5. ASSUME NEW j \in 0 .. n
          PROVE  /\ t.cache[p + j].inUse /\ ~sent[p + j].marker
                 /\ sent[p + j].ts = sent[h].ts
      <4>1. CASE j = n
        BY <3>4, <4>1
      <4>2. CASE j # n
        <5>1. j \in 0 .. n - 1
          BY <3>2, <4>2
        <5>2. QED
          BY <3>2, <5>1
      <4>3. QED
        BY <4>1, <4>2
    <3>6. QED
      BY <3>4, <3>5
  <2>3. T = Nat
    <3> HIDE DEF T
    <3>1. T \in SUBSET Nat
      BY DEF T
    <3>2. QED
      BY <2>1, <2>2, <3>1, Induction
  <2>4. i \in T
    BY <2>3
  <2>5. QED
    BY <2>4
<1>4. ~NeverEnds(t, current, found)
  <2>1. SUFFICES ASSUME \A i \in Slots : ~Stops(t, Plus(current, i)) PROVE FALSE
    BY DEF NeverEnds
  <2>2. \A j \in 0 .. CacheSize - 1 : ~Stops(t, Plus(current, j))
    BY <2>1 DEF Slots
  <2>3. p + CacheSize \in Slots
    BY <1>1, <1>3, <2>2
  <2>4. QED
    BY <1>1, <2>3 DEF Slots
<1>5. PICK i \in Slots : EndsAt(t, current, i, found)
  BY <1>4, SearchEnds DEF found
<1>6. i \in Nat
  BY <1>1 DEF Slots
<1>7. PICK q \in Slots : q = p + i
  BY <1>3, <1>5, <1>6 DEF EndsAt
<1>8. q \in p .. CacheSize - 1 /\ q \in Nat
  BY <1>1, <1>6, <1>7 DEF Slots
<1>9. ASSUME NEW j \in p .. q - 1
      PROVE  t.cache[j].inUse /\ ~sent[j].marker /\ sent[j].ts = sent[h].ts
  <2>1. PICK m \in 0 .. i - 1 : j = p + m
    <3>1. j - p \in 0 .. i - 1 /\ j = p + (j - p)
      BY <1>1, <1>6, <1>7
    <3>2. QED
      BY <3>1
  <2>2. QED
    BY <1>3, <1>5, <1>6, <2>1 DEF EndsAt
<1>10. Together(t, q)
  <2>1. ASSUME NEW j \in h .. q - 1 PROVE t.cache[j].inUse /\ sent[j].ts = sent[h].ts
    <3>1. CASE j < p
      <4>1. j \in h .. p - 1
        BY <1>1, <1>8, <3>1
      <4>2. QED
        BY <4>1 DEF Together, h
    <3>2. CASE ~(j < p)
      <4>1. j \in p .. q - 1
        BY <1>1, <1>8, <3>2
      <4>2. QED
        BY <1>9, <4>1
    <3>3. QED
      BY <3>1, <3>2
  <2>2. QED
    BY <2>1 DEF Together, h
<1>11. q = h \/ t.cache[h].inUse
  <2>1. CASE h < q
    <3>1. h \in h .. q - 1
      BY <1>1, <1>8, <2>1
    <3>2. QED
      BY <1>10, <3>1 DEF Together, h
  <2>2. QED
    BY <1>1, <1>8, <2>1
<1> DEFINE sn == Plus(current, i)
<1>12. /\ sn = b + q
       /\ Missing(t, sn) <=> ~t.cache[q].inUse
       /\ t.cache[q].inUse =>
            /\ Slot(t.cache, sn).pkt.marker = sent[q].marker
            /\ NewTime(t, sn) <=> sent[q].ts # sent[h].ts
  BY <1>1, <1>6, <1>7, <1>11, StopsIn DEF current, b, h
<1> HIDE DEF sn
<1>13. LostAt(t, sn, found) \/ TimeAt(t, sn, found) \/ MarkerAt(t, sn, found)
  BY <1>5 DEF EndsAt, sn
<1>14. CASE LostAt(t, sn, found)
  <2>1. LostIn(t, q, found)
    BY <1>12, <1>14 DEF LostAt, LostIn, b
  <2>2. QED
    BY <1>8, <1>9, <1>10, <2>1 DEF found, current, b
<1>15. CASE TimeAt(t, sn, found)
  <2>1. sent[q].ts # sent[h].ts /\ found = [kind |-> "frame", sn |-> Pred(sn)]
    BY <1>12, <1>15 DEF TimeAt
  <2>2. q # h
    BY <2>1
  <2>3. Pred(sn) = b + q - 1 /\ q > h
    BY <1>1, <1>8, <1>12, <2>2 DEF Pred
  <2>4. TimeIn(t, q, found)
    BY <2>1, <2>3 DEF TimeIn, b, h
  <2>5. QED
    BY <1>8, <1>9, <1>10, <2>4 DEF found, current, b
<1>16. CASE MarkerAt(t, sn, found)
  <2>1. /\ t.cache[q].inUse /\ sent[q].ts = sent[h].ts /\ sent[q].marker
        /\ found = [kind |-> "frame", sn |-> b + q]
    BY <1>12, <1>16 DEF MarkerAt
  <2>2. Together(t, q + 1)
    <3>1. ASSUME NEW j \in h .. q PROVE t.cache[j].inUse /\ sent[j].ts = sent[h].ts
      <4>1. CASE j = q
        BY <2>1, <4>1
      <4>2. CASE j # q
        <5>1. j \in h .. q - 1
          BY <1>1, <1>8, <4>2
        <5>2. QED
          BY <1>10, <5>1 DEF Together, h
      <4>3. QED
        BY <4>1, <4>2
    <3>2. h .. (q + 1) - 1 = h .. q
      BY <1>1, <1>8
    <3>3. \A j \in h .. (q + 1) - 1 : t.cache[j].inUse /\ sent[j].ts = sent[h].ts
      BY <3>1, <3>2
    <3>4. QED
      BY <3>3 DEF Together, h
  <2>3. MarkerIn(t, q, found)
    BY <2>1, <2>2 DEF MarkerIn, b
  <2>4. QED
    BY <1>8, <1>9, <1>10, <2>3 DEF found, current, b
<1>17. QED
  BY <1>13, <1>14, <1>15, <1>16

-----------------------------------------------------------------------------
(* A delivery. *)

(* Header goes past the last slot only when that slot is empty.             *)
InRange(t) ==
  t.header < 2 * CacheSize /\ (t.header < CacheSize \/ ~t.cache[CacheSize - 1].inUse)

LEMMA NumbersIn ==
  ASSUME Quiet, NEW F, NEW t \in Tracks, InPlace(t, F), t.header < 2 * CacheSize,
         NEW e \in Spot(t) .. CacheSize - 1, Together(t, e + 1)
  PROVE  LET end == Base(t) + e
             n == e - Spot(t) + 1
         IN  /\ end \in SeqNo /\ n \in Nat \ {0}
             /\ DOMAIN FrameNumbers(t, end) = 1 .. n
             /\ \A i \in 1 .. n :
                  /\ FrameNumbers(t, end)[i] % CacheSize = Spot(t) + i - 1
                  /\ Slot(t.cache, FrameNumbers(t, end)[i]).pkt = sent[Spot(t) + i - 1]
<1> DEFINE b == Base(t)
           h == Spot(t)
           end == b + e
           n == e - h + 1
<1>1. /\ b \in {0, CacheSize} /\ h \in Slots /\ e \in Slots /\ h <= e /\ h \in Nat
      /\ t.header = b + h
  BY SpotFacts, Sizes DEF Slots
<1>2. end \in SeqNo /\ n \in Nat \ {0}
  BY <1>1, SmallSlot, Sizes DEF Slots
<1>3. t.header \in SeqNo /\ AheadOf(t.header, end) = e - h
  BY <1>1, <1>2, Sizes DEF AheadOf, Tracks, Slots
<1>4. AheadOf(t.header, end) + 1 = n
  BY <1>3
<1>5. /\ DOMAIN FrameNumbers(t, end) = 1 .. n
      /\ \A i \in 1 .. n : FrameNumbers(t, end)[i] = Plus(t.header, i - 1)
  BY <1>2, <1>4, NumbersTyped
<1> HIDE DEF end, n, b
<1>6. ASSUME NEW i \in 1 .. n
      PROVE  /\ FrameNumbers(t, end)[i] % CacheSize = h + i - 1
             /\ Slot(t.cache, FrameNumbers(t, end)[i]).pkt = sent[h + i - 1]
  <2>1. i - 1 \in Nat /\ h + (i - 1) \in Slots /\ h + (i - 1) = h + i - 1
        /\ h + i - 1 \in h .. (e + 1) - 1
    BY <1>1, Sizes DEF n, Slots
  <2>2. PICK j \in Nat : j = i - 1
    BY <2>1
  <2>3. Plus(b + h, j) = b + (h + j) /\ Slot(t.cache, Plus(b + h, j)) = t.cache[h + j]
    BY <1>1, <2>1, <2>2, SeenAt
  <2>4. (b + (h + j)) % CacheSize = h + j
    BY <1>1, <2>1, <2>2, SmallSlot
  <2>5. t.cache[h + i - 1].inUse
    BY <2>1 DEF Together, h
  <2>6. t.cache[h + i - 1].pkt = sent[h + i - 1]
    BY <2>1, <2>5 DEF InPlace
  <2>7. FrameNumbers(t, end)[i] = Plus(b + h, j)
    BY <1>1, <1>5, <2>2
  <2>8. h + j = h + i - 1
    BY <2>1, <2>2
  <2>9. QED
    BY <2>3, <2>4, <2>6, <2>7, <2>8
<1>7. QED
  BY <1>2, <1>5, <1>6 DEF end, n, b

LEMMA DeliversOne ==
  ASSUME Quiet, NEW F, NEW t \in Tracks, InPlace(t, F), InRange(t),
         NEW e \in Spot(t) .. CacheSize - 1, Together(t, e + 1)
  PROVE  LET f == FramePackets(t, Base(t) + e)
         IN  FrameOfOne(f) /\ \A j \in Spot(t) .. e : j \notin F
<1> DEFINE h == Spot(t)
           n == e - h + 1
           f == FramePackets(t, Base(t) + e)
<1>1. h \in Slots /\ h \in Nat /\ e \in Slots /\ e \in Nat /\ n \in Nat \ {0}
  BY SpotFacts, Sizes DEF InRange, Slots
<1>2. DOMAIN f = 1 .. n /\ \A i \in 1 .. n : f[i] = sent[h + i - 1]
  BY NumbersIn DEF FramePackets, InRange
<1>3. ASSUME NEW j \in h .. e
      PROVE  /\ j \in 0 .. count - 1 /\ j \notin F /\ sent[j].ts = sent[h].ts
             /\ sent[j].sn = j
  <2>1. j \in h .. (e + 1) - 1 /\ j \in Slots
    BY <1>1, Sizes DEF Slots
  <2>2. t.cache[j].inUse /\ sent[j].ts = sent[h].ts
    BY <2>1 DEF Together
  <2>3. j < count /\ j \notin F
    BY <2>1, <2>2 DEF InPlace
  <2>4. j \in 0 .. count - 1
    BY <2>1, <2>3, Sizes DEF Slots, Quiet, TrackTypeOK
  <2>5. QED
    BY <2>2, <2>3, <2>4, SentFacts
<1> HIDE DEF f
<1>4. ASSUME NEW i \in 1 .. n
      PROVE  f[i].ts = f[1].ts /\ f[i].sn = Plus(f[1].sn, i - 1)
  <2>1. h + i - 1 \in h .. e /\ h \in h .. e /\ h + 1 - 1 = h /\ 1 \in 1 .. n
    BY <1>1
  <2>2. f[i].ts = sent[h].ts /\ f[i].sn = h + i - 1 /\ f[1].ts = sent[h].ts /\ f[1].sn = h
    BY <1>2, <1>3, <2>1
  <2>3. i - 1 \in Nat /\ h + (i - 1) < SeqSpace /\ h + (i - 1) = h + i - 1
    BY <1>1, Sizes DEF Slots
  <2>4. Plus(h, i - 1) = h + (i - 1)
    BY <1>1, <2>3, SmallPlus
  <2>5. QED
    BY <2>2, <2>3, <2>4
<1>5. FrameOfOne(f)
  BY <1>2, <1>4 DEF FrameOfOne
<1>6. QED
  BY <1>3, <1>5 DEF f

LEMMA DeliveredState ==
  ASSUME Quiet, NEW F, NEW t \in Tracks, InPlace(t, F), InRange(t),
         NEW e \in Spot(t) .. CacheSize - 1, Together(t, e + 1)
  PROVE  LET u == PacketVideo(t, Base(t) + e)
         IN  /\ u \in Tracks /\ u.header = Base(t) + e + 1
             /\ InPlace(u, F) /\ InRange(u)
             /\ u.lost = t.lost /\ u.keyTs \in {t.keyTs, -1}
             /\ \A s \in Slots : u.cache[s].inUse => t.cache[s].inUse
             /\ \A j \in Spot(t) .. e : ~u.cache[j].inUse
<1> DEFINE b == Base(t)
           h == Spot(t)
           end == b + e
           n == e - h + 1
           u == PacketVideo(t, end)
<1>1. /\ h \in Slots /\ h \in Nat /\ e \in Slots /\ e \in Nat /\ b \in {0, CacheSize}
      /\ b \in Nat /\ t.header = b + h
  BY SpotFacts, Sizes DEF InRange, Slots
<1>2. /\ end \in SeqNo /\ n \in Nat \ {0} /\ DOMAIN FrameNumbers(t, end) = 1 .. n
      /\ \A i \in 1 .. n : FrameNumbers(t, end)[i] % CacheSize = h + i - 1
  BY NumbersIn DEF InRange
<1>3. /\ u \in Tracks /\ u.header = Plus(end, 1) /\ u.lost = t.lost
      /\ u.keyTs \in {t.keyTs, -1}
      /\ \A s \in Slots : IF s \in Leaving(t, end) THEN ~u.cache[s].inUse
                          ELSE u.cache[s] = t.cache[s]
  BY <1>2, PacketVideoFacts
<1>4. ASSUME NEW j \in h .. e PROVE j \in Leaving(t, end)
  <2>1. PICK i \in 1 .. n : h + i - 1 = j
    <3>1. j - h + 1 \in 1 .. n /\ h + (j - h + 1) - 1 = j
      BY <1>1
    <3>2. QED
      BY <3>1
  <2>2. FrameNumbers(t, end)[i] % CacheSize = j
    BY <1>2, <2>1
  <2> HIDE DEF n, end
  <2>3. QED
    BY <1>2, <2>1, <2>2 DEF Leaving
<1> HIDE DEF u
<1>5. \A s \in Slots : u.cache[s].inUse => t.cache[s].inUse /\ u.cache[s] = t.cache[s] /\ s # e
  <2>1. e \in h .. e
    BY <1>1
  <2>2. QED
    BY <1>3, <1>4, <2>1
<1>6. InPlace(u, F)
  BY <1>5 DEF InPlace
<1>7. t.cache[e].inUse
  <2>1. e \in h .. (e + 1) - 1
    BY <1>1
  <2>2. QED
    BY <2>1 DEF Together
<1>8. b = 0 \/ (~t.cache[CacheSize - 1].inUse /\ e # CacheSize - 1)
  BY <1>7 DEF InRange, Base
<1>9. end + 1 < 2 * CacheSize /\ end \in Nat /\ end + 1 < SeqSpace /\ end + 1 = b + e + 1
  BY <1>1, <1>8, Sizes DEF Slots
<1>10. u.header = b + e + 1
  BY <1>3, <1>9, SmallPlus
<1>11. CacheSize - 1 \in Slots
  BY Sizes DEF Slots
<1>12. u.header < CacheSize \/ ~u.cache[CacheSize - 1].inUse
  <2>1. CASE b = 0 /\ e < CacheSize - 1
    BY <1>1, <1>10, <2>1, Sizes
  <2>2. CASE e = CacheSize - 1
    BY <1>5, <1>11, <2>2
  <2>3. CASE ~t.cache[CacheSize - 1].inUse
    BY <1>5, <1>11, <2>3
  <2>4. e = CacheSize - 1 \/ e < CacheSize - 1
    BY <1>1, Sizes DEF Slots
  <2>5. QED
    BY <1>8, <2>1, <2>2, <2>3, <2>4
<1>13. InRange(u)
  BY <1>9, <1>10, <1>12 DEF InRange
<1>14. ASSUME NEW j \in h .. e PROVE ~u.cache[j].inUse
  <2>1. j \in Slots
    BY <1>1, Sizes DEF Slots
  <2>2. QED
    BY <1>3, <1>4, <2>1
<1>15. QED
  BY <1>3, <1>5, <1>6, <1>10, <1>13, <1>14 DEF u

-----------------------------------------------------------------------------
(* A frame of which all packets are there is complete.                      *)

(* Inside of a frame every packet is linked to the next.                    *)
LEMMA Inside ==
  ASSUME NEW h \in Nat, NEW e \in Nat, count \in Nat, e < count,
         \A j \in h .. e : InStream(sent, count, j),
         \A j \in h .. e - 1 : ~sent[j].marker,
         NEW j \in h .. e - 1
  PROVE  /\ ~sent[j].marker /\ Linked(sent[j], sent[j + 1])
         /\ Kind(sent[j]) /\ Kind(sent[j + 1])
         /\ sent[j + 1].ts = sent[j].ts /\ sent[j + 1].key = sent[j].key
<1>1. j \in h .. e /\ j + 1 \in h .. e /\ j + 1 < count
  OBVIOUS
<1>2. InStream(sent, count, j) /\ InStream(sent, count, j + 1) /\ ~sent[j].marker
  BY <1>1
<1>3. Continued(sent[j], sent[j + 1]) /\ Kind(sent[j]) /\ Kind(sent[j + 1])
  BY <1>1, <1>2 DEF InStream
<1>4. QED
  BY <1>2, <1>3 DEF Continued

(* The fragments of a frame, from a packet on that does not continue a NAL  *)
(* unit, are as many first as last ones.                                    *)
LEMMA EndsMeet ==
  ASSUME NEW h \in Nat, NEW e \in Nat, h <= e, count \in Nat, e < count,
         \A j \in h .. e : InStream(sent, count, j),
         sent[e].marker, \A j \in h .. e - 1 : ~sent[j].marker,
         ~Continues(sent[h])
  PROVE  Cardinality({i \in 1 .. e - h + 1 : "start" \in sent[h + i - 1].fu})
           = Cardinality({i \in 1 .. e - h + 1 : "end" \in sent[h + i - 1].fu})
<1> DEFINE n == e - h + 1
           starts == {i \in 1 .. n : "start" \in sent[h + i - 1].fu}
           ends == {i \in 1 .. n : "end" \in sent[h + i - 1].fu}
<1>1. n \in Nat \ {0}
  OBVIOUS
<1>2. \A j \in h .. e - 1 : /\ ~sent[j].marker /\ Linked(sent[j], sent[j + 1])
                           /\ Kind(sent[j]) /\ Kind(sent[j + 1])
  BY Inside
<1>3. Kind(sent[e])
  <2>1. e \in h .. e
    OBVIOUS
  <2>2. QED
    BY <2>1 DEF InStream
<1> HIDE DEF n
(* Where a NAL unit starts, it ends with the frame.                         *)
<1>4. ASSUME NEW j \in h .. e, "start" \in sent[j].fu
      PROVE  /\ "end" \in sent[e].fu
             /\ j + 1 = e \/ (j + 2 = e /\ "middle" \in sent[j + 1].fu)
  <2>1. Kind(sent[j])
    BY <1>2, <1>3
  <2>2. ~sent[j].marker /\ ~Continues(sent[j])
    BY <1>4, <2>1 DEF Kind, GoesOn
  <2>3. j \in h .. e - 1
    BY <2>2
  <2>4. Linked(sent[j], sent[j + 1]) /\ Kind(sent[j + 1])
    BY <1>2, <2>3
  <2>5. Continues(sent[j + 1])
    BY <1>4, <2>4 DEF Linked, GoesOn
  <2>6. CASE "end" \in sent[j + 1].fu
    <3>1. sent[j + 1].marker
      BY <2>4, <2>6 DEF Kind
    <3>2. j + 1 \notin h .. e - 1
      BY <3>1
    <3>3. j + 1 = e
      BY <2>3, <3>2
    <3>4. QED
      BY <2>6, <3>3
  <2>7. CASE "middle" \in sent[j + 1].fu
    <3>1. ~sent[j + 1].marker
      BY <2>4, <2>7 DEF Kind, GoesOn
    <3>2. j + 1 \in h .. e - 1 /\ j + 1 + 1 = j + 2
      BY <2>3, <3>1
    <3>3. Linked(sent[j + 1], sent[j + 2]) /\ Kind(sent[j + 2])
      BY <1>2, <3>2
    <3>4. "end" \in sent[j + 2].fu
      BY <2>7, <3>3 DEF Linked
    <3>5. sent[j + 2].marker
      BY <3>3, <3>4 DEF Kind
    <3>6. j + 2 \notin h .. e - 1
      BY <3>5
    <3>7. j + 2 = e
      BY <3>2, <3>6
    <3>8. QED
      BY <2>7, <3>4, <3>7
  <2>8. QED
    BY <2>5, <2>6, <2>7 DEF Continues
<1>5. ASSUME "end" \in sent[e].fu PROVE \E j \in h .. e : "start" \in sent[j].fu
  <2>1. e # h
    BY <1>5 DEF Continues
  <2>2. e - 1 \in h .. e - 1 /\ e - 1 + 1 = e
    BY <2>1
  <2>3. Linked(sent[e - 1], sent[e]) /\ Kind(sent[e - 1])
    BY <1>2, <2>2
  <2>4. GoesOn(sent[e - 1])
    BY <1>5, <2>3 DEF Linked, Continues
  <2>5. CASE "start" \in sent[e - 1].fu
    BY <2>2, <2>5
  <2>6. CASE "middle" \in sent[e - 1].fu
    <3>1. e - 1 # h
      BY <2>6 DEF Continues
    <3>2. e - 2 \in h .. e - 1 /\ e - 2 + 1 = e - 1 /\ e - 2 \in h .. e
      BY <2>2, <3>1
    <3>3. Linked(sent[e - 2], sent[e - 1])
      BY <1>2, <3>2
    <3>4. QED
      BY <2>6, <3>2, <3>3 DEF Linked
  <2>7. QED
    BY <2>4, <2>5, <2>6 DEF GoesOn
<1>6. ASSUME NEW i \in h .. e, NEW j \in h .. e, "start" \in sent[i].fu, "start" \in sent[j].fu
      PROVE  i = j
  <2>1. ASSUME NEW k \in h .. e, "start" \in sent[k].fu PROVE ~("middle" \in sent[k].fu)
    <3>1. Kind(sent[k])
      BY <1>2, <1>3
    <3>2. QED
      BY <2>1, <3>1 DEF Kind, Continues
  <2>2. ~(i + 1 = j /\ j + 1 = e) /\ ~(j + 1 = i /\ i + 1 = e)
    <3>1. CASE i + 1 = j /\ j + 1 = e
      <4>1. "middle" \in sent[j].fu
        BY <1>4, <1>6, <3>1
      <4>2. QED
        BY <1>6, <2>1, <4>1
    <3>2. CASE j + 1 = i /\ i + 1 = e
      <4>1. "middle" \in sent[i].fu
        BY <1>4, <1>6, <3>2
      <4>2. QED
        BY <1>6, <2>1, <4>1
    <3>3. QED
      BY <3>1, <3>2
  <2>3. (i + 1 = e \/ i + 2 = e) /\ (j + 1 = e \/ j + 2 = e)
    BY <1>4, <1>6
  <2>4. QED
    BY <2>2, <2>3
<1>7. ASSUME NEW i \in 1 .. n PROVE h + i - 1 \in h .. e
  BY <1>1 DEF n
<1>8. ASSUME NEW i \in ends PROVE i = n
  <2>1. PICK j \in h .. e : j = h + i - 1 /\ "end" \in sent[j].fu
    BY <1>7
  <2>2. Kind(sent[j])
    BY <1>2, <1>3, <2>1
  <2>3. sent[j].marker
    BY <2>1, <2>2 DEF Kind
  <2>4. j \notin h .. e - 1
    BY <2>3
  <2>5. QED
    BY <2>1, <2>4 DEF n
<1>9. n \in 1 .. n /\ h + n - 1 = e
  BY <1>1 DEF n
<1>10. CASE "end" \in sent[e].fu
  <2>1. PICK j \in h .. e : "start" \in sent[j].fu
    BY <1>5, <1>10
  <2>2. PICK m \in 1 .. n : m = j - h + 1 /\ h + m - 1 = j
    BY <2>1 DEF n
  <2>3. starts = {m}
    <3>1. m \in starts
      BY <2>1, <2>2
    <3>2. ASSUME NEW i \in starts PROVE i = m
      <4>1. h + i - 1 \in h .. e /\ "start" \in sent[h + i - 1].fu
        BY <1>7
      <4>2. h + i - 1 = j
        BY <1>6, <2>1, <4>1
      <4>3. QED
        BY <2>2, <4>2
    <3>3. QED
      BY <3>1, <3>2
  <2>4. ends = {n}
    BY <1>8, <1>9, <1>10
  <2>5. QED
    BY <2>3, <2>4, FS_Singleton DEF n
<1>11. CASE "end" \notin sent[e].fu
  <2>1. starts = {}
    <3>1. ASSUME NEW i \in starts PROVE FALSE
      BY <1>4, <1>7, <1>11
    <3>2. QED
      BY <3>1
  <2>2. ends = {}
    <3>1. ASSUME NEW i \in ends PROVE FALSE
      BY <1>8, <1>9, <1>11
    <3>2. QED
      BY <3>1
  <2>3. QED
    BY <2>1, <2>2 DEF n
<1>12. QED
  BY <1>10, <1>11

LEMMA WholeFrame ==
  ASSUME Quiet, NEW F, NEW t \in Tracks, InPlace(t, F), InRange(t),
         NEW e \in Spot(t) .. CacheSize - 1, Together(t, e + 1),
         sent[e].marker, \A j \in Spot(t) .. e - 1 : ~sent[j].marker,
         ~Continues(sent[Spot(t)])
  PROVE  FrameComplete(t, Base(t) + e)
<1> DEFINE h == Spot(t)
           n == e - h + 1
           end == Base(t) + e
           starts == {i \in 1 .. n : "start" \in sent[h + i - 1].fu}
           ends == {i \in 1 .. n : "end" \in sent[h + i - 1].fu}
<1>1. h \in Slots /\ h \in Nat /\ e \in Nat /\ n \in Nat \ {0} /\ h <= e
  BY SpotFacts, Sizes DEF InRange, Slots
<1>2. /\ DOMAIN FrameNumbers(t, end) = 1 .. n
      /\ \A i \in 1 .. n : Slot(t.cache, FrameNumbers(t, end)[i]).pkt = sent[h + i - 1]
  BY NumbersIn DEF InRange
<1>3. ASSUME NEW j \in h .. e PROVE j \in 0 .. count - 1 /\ InStream(sent, count, j)
  <2>1. j \in h .. (e + 1) - 1 /\ j \in Slots
    BY <1>1, Sizes DEF Slots
  <2>2. j < count
    BY <2>1 DEF Together, InPlace
  <2>3. j \in 0 .. count - 1
    BY <2>1, <2>2, Sizes DEF Slots, Quiet, TrackTypeOK
  <2>4. QED
    BY <2>3, SentFacts
<1>4. Cardinality(starts) = Cardinality(ends)
  <2>1. e \in h .. e /\ count \in Nat
    BY <1>1, Sizes DEF Quiet, TrackTypeOK
  <2>2. e < count
    BY <1>3, <2>1
  <2>3. QED
    BY <1>1, <1>3, <2>1, <2>2, EndsMeet
<1> HIDE DEF n, end
<1>5. {i \in DOMAIN FrameNumbers(t, end) :
         "start" \in Slot(t.cache, FrameNumbers(t, end)[i]).pkt.fu} = starts
  BY <1>2
<1>6. {i \in DOMAIN FrameNumbers(t, end) :
         "end" \in Slot(t.cache, FrameNumbers(t, end)[i]).pkt.fu} = ends
  BY <1>2
<1>7. FrameComplete(t, end)
  <2> HIDE DEF starts, ends
  <2>1. QED
    BY <1>4, <1>5, <1>6 DEF FrameComplete
<1>8. QED
  BY <1>7 DEF end

-----------------------------------------------------------------------------
(* Frames that are delivered. *)

LEMMA LaterFrame ==
  ASSUME Quiet, NEW i \in 0 .. count - 1, NEW j \in 0 .. count - 1, i < j, sent[i].marker
  PROVE  sent[i].ts < sent[j].ts
<1> DEFINE T == {n \in Nat : i + 1 + n < count => sent[i].ts < sent[i + 1 + n].ts}
<1>1. i \in Nat /\ j \in Nat /\ count \in Nat
  BY Sizes DEF Quiet, TrackTypeOK
<1>2. \A k \in 0 .. count - 1 : sent[k].ts \in Nat
  BY SentFacts DEF Packet
<1>3. ASSUME NEW k \in Nat, k + 1 < count
      PROVE  IF sent[k].marker THEN sent[k].ts < sent[k + 1].ts
             ELSE sent[k + 1].ts = sent[k].ts
  <2>1. k \in 0 .. count - 1
    BY <1>1, <1>3
  <2>2. InStream(sent, count, k) /\ sent[k].marker \in BOOLEAN
    BY <2>1, SentFacts DEF Packet
  <2>3. QED
    BY <1>3, <2>2 DEF InStream, Continued
<1>4. 0 \in T
  BY <1>1, <1>3
<1>5. ASSUME NEW n \in T PROVE n + 1 \in T
  <2>1. SUFFICES ASSUME i + 1 + (n + 1) < count
                 PROVE  sent[i].ts < sent[i + 1 + (n + 1)].ts
    OBVIOUS
  <2>2. PICK k \in Nat : k = i + 1 + n
    BY <1>1
  <2>3. k + 1 < count /\ k < count /\ i + 1 + (n + 1) = k + 1
    BY <1>1, <2>1, <2>2
  <2>4. sent[i].ts < sent[k].ts
    BY <2>2, <2>3
  <2>5. i \in 0 .. count - 1 /\ k \in 0 .. count - 1 /\ k + 1 \in 0 .. count - 1
    BY <1>1, <2>3
  <2>6. sent[i].ts \in Nat /\ sent[k].ts \in Nat /\ sent[k + 1].ts \in Nat
    BY <1>2, <2>5
  <2>7. sent[k].ts <= sent[k + 1].ts
    <3>1. CASE sent[k].marker
      BY <1>3, <2>3, <2>6, <3>1
    <3>2. CASE ~sent[k].marker
      BY <1>3, <2>3, <2>6, <3>2
    <3>3. QED
      BY <3>1, <3>2
  <2>8. sent[i].ts < sent[k + 1].ts
    BY <2>4, <2>6, <2>7
  <2>9. QED
    BY <2>3, <2>8
<1>6. T = Nat
  <2> HIDE DEF T
  <2>1. T \in SUBSET Nat
    BY DEF T
  <2>2. QED
    BY <1>4, <1>5, <2>1, Induction
<1>7. PICK n \in Nat : j = i + 1 + n
  <2>1. j - (i + 1) \in Nat /\ j = i + 1 + (j - (i + 1))
    BY <1>1
  <2>2. QED
    BY <2>1
<1>8. n \in T /\ i + 1 + n < count
  <2>1. n \in T
    BY <1>6
  <2>2. QED
    BY <1>1, <1>7, <2>1
<1>9. QED
  BY <1>7, <1>8

(* A packet that continues a NAL unit, and all from there to its end: more  *)
(* last than first fragments.                                               *)
LEMMA EndsDiffer ==
  ASSUME NEW h \in Nat, NEW e \in Nat, h <= e, count \in Nat, e < count,
         \A j \in h .. e : InStream(sent, count, j),
         sent[e].marker, \A j \in h .. e - 1 : ~sent[j].marker,
         Continues(sent[h])
  PROVE  Cardinality({i \in 1 .. e - h + 1 : "start" \in sent[h + i - 1].fu})
           # Cardinality({i \in 1 .. e - h + 1 : "end" \in sent[h + i - 1].fu})
<1> DEFINE n == e - h + 1
           starts == {i \in 1 .. n : "start" \in sent[h + i - 1].fu}
           ends == {i \in 1 .. n : "end" \in sent[h + i - 1].fu}
<1>1. \A j \in h .. e - 1 : /\ ~sent[j].marker /\ Linked(sent[j], sent[j + 1])
                           /\ Kind(sent[j]) /\ Kind(sent[j + 1])
  BY Inside
<1>2. \A j \in h .. e : Kind(sent[j])
  BY DEF InStream
<1>3. n \in Nat \ {0} /\ n \in 1 .. n /\ h + n - 1 = e
      /\ (n = 1 => e = h) /\ \A i \in 1 .. n : h + i - 1 \in h .. e
  OBVIOUS
<1>4. /\ e = h \/ e = h + 1
      /\ "end" \in sent[e].fu /\ "start" \notin sent[h].fu
  <2>1. Kind(sent[h]) /\ "start" \notin sent[h].fu
    BY <1>2 DEF Kind
  <2>2. CASE "end" \in sent[h].fu
    <3>1. sent[h].marker
      BY <2>1, <2>2 DEF Kind
    <3>2. h \notin h .. e - 1
      BY <3>1
    <3>3. QED
      BY <2>1, <2>2, <3>2
  <2>3. CASE "middle" \in sent[h].fu
    <3>1. ~sent[h].marker
      BY <2>1, <2>3 DEF Kind, GoesOn
    <3>2. h \in h .. e - 1
      BY <3>1
    <3>3. "end" \in sent[h + 1].fu /\ Kind(sent[h + 1])
      BY <1>1, <2>3, <3>2 DEF Linked
    <3>4. sent[h + 1].marker
      BY <3>3 DEF Kind
    <3>5. h + 1 \notin h .. e - 1
      BY <3>4
    <3>6. e = h + 1
      BY <3>2, <3>5
    <3>7. QED
      BY <2>1, <3>3, <3>6
  <2>4. QED
    BY <2>2, <2>3 DEF Continues
<1>5. ASSUME NEW j \in h .. e PROVE "start" \notin sent[j].fu
  <2>1. "start" \notin sent[e].fu
    BY <1>2, <1>4 DEF Kind, Continues
  <2>2. j = h \/ j = e
    BY <1>4
  <2>3. QED
    BY <1>4, <2>1, <2>2
<1>6. ASSUME NEW i \in ends PROVE i = n
  <2>1. PICK j \in h .. e : j = h + i - 1 /\ "end" \in sent[j].fu
    BY <1>3
  <2>2. sent[j].marker
    BY <1>2, <2>1 DEF Kind
  <2>3. j \notin h .. e - 1
    BY <2>2
  <2>4. QED
    BY <2>1, <2>3
<1>7. n \in ends
  BY <1>3, <1>4
<1>8. starts = {}
  <2>1. ASSUME NEW i \in starts PROVE FALSE
    BY <1>3, <1>5
  <2>2. QED
    BY <2>1
<1> HIDE DEF n
<1>9. ends = {n}
  BY <1>6, <1>7
<1>10. Cardinality(starts) = 0 /\ Cardinality(ends) = 1
  BY <1>8, <1>9, FS_EmptySet, FS_Singleton
<1>11. QED
  BY <1>10 DEF n

(* The other fragments of a NAL unit are behind a packet that does not      *)
(* continue it, or in the same frame.                                       *)
LEMMA FragmentsFollow ==
  ASSUME Quiet, NEW h \in 0 .. count - 1, ~Continues(sent[h]),
         NEW k \in 0 .. count - 1, k < h, sent[k].fu # {}
  PROVE  sent[k].ts # sent[h].ts
<1>1. SUFFICES ASSUME sent[k].ts = sent[h].ts PROVE FALSE
  OBVIOUS
<1>2. count \in Nat /\ h \in Nat /\ k \in Nat /\ k + 1 <= h
  BY Sizes DEF Quiet, TrackTypeOK
<1>3. ASSUME NEW j \in 0 .. count - 1
      PROVE  /\ sent[j] \in Packet /\ sent[j].ts \in Nat /\ Kind(sent[j])
             /\ j + 1 < count => Continued(sent[j], sent[j + 1])
  BY SentFacts DEF InStream, Packet
<1>4. ASSUME NEW j \in 0 .. count - 1, j < h, sent[j].ts = sent[h].ts PROVE ~sent[j].marker
  BY <1>3, <1>4, LaterFrame
(* One step on.                                                             *)
<1>5. ASSUME NEW j \in 0 .. count - 1, j < h, sent[j].ts = sent[h].ts, GoesOn(sent[j])
      PROVE  /\ j + 1 < h /\ j + 1 \in 0 .. count - 1 /\ sent[j + 1].ts = sent[h].ts
             /\ "middle" \in sent[j + 1].fu /\ "middle" \notin sent[j].fu
  <2>1. ~sent[j].marker /\ j + 1 < count /\ j + 1 \in 0 .. count - 1
    BY <1>2, <1>4, <1>5
  <2>2. sent[j + 1].ts = sent[j].ts /\ Linked(sent[j], sent[j + 1])
    BY <1>3, <2>1 DEF Continued
  <2>3. Continues(sent[j + 1])
    BY <1>5, <2>2 DEF Linked
  <2>4. j + 1 < h
    BY <1>2, <1>5, <2>3
  <2>5. ~sent[j + 1].marker
    BY <1>4, <1>5, <2>1, <2>2, <2>4
  <2>6. "end" \notin sent[j + 1].fu
    BY <1>3, <2>1, <2>5 DEF Kind
  <2>7. "middle" \in sent[j + 1].fu /\ "middle" \notin sent[j].fu
    BY <2>2, <2>3, <2>6 DEF Continues, Linked
  <2>8. QED
    BY <1>5, <2>1, <2>2, <2>4, <2>7
<1>6. GoesOn(sent[k])
  <2>1. sent[k].fu \in SUBSET {"start", "middle", "end"}
    BY <1>3 DEF Packet
  <2>2. ~sent[k].marker
    BY <1>1, <1>4
  <2>3. "end" \notin sent[k].fu
    BY <1>3, <2>2 DEF Kind
  <2>4. QED
    BY <2>1, <2>3 DEF GoesOn
<1>7. /\ k + 1 < h /\ k + 1 \in 0 .. count - 1 /\ sent[k + 1].ts = sent[h].ts
      /\ "middle" \in sent[k + 1].fu
  BY <1>1, <1>5, <1>6
<1>8. QED
  BY <1>5, <1>7 DEF GoesOn

(* What a delivered frame is made of.                                       *)
Proper(f) ==
  /\ FrameOfOne(f) /\ Whole(f)
  /\ \A i \in DOMAIN f : \E j \in 0 .. count - 1 : f[i] = sent[j]

LEMMA DeliversWhole ==
  ASSUME Quiet, NEW F, NEW t \in Tracks, InPlace(t, F), InRange(t),
         NEW e \in Spot(t) .. CacheSize - 1, Together(t, e + 1), sent[e].marker,
         FrameComplete(t, Base(t) + e)
  PROVE  Proper(FramePackets(t, Base(t) + e))
<1> DEFINE h == Spot(t)
           n == e - h + 1
           end == Base(t) + e
           f == FramePackets(t, end)
           starts == {i \in 1 .. n : "start" \in sent[h + i - 1].fu}
           ends == {i \in 1 .. n : "end" \in sent[h + i - 1].fu}
<1>1. /\ h \in Slots /\ h \in Nat /\ e \in Slots /\ e \in Nat /\ n \in Nat \ {0} /\ h <= e
      /\ count \in Nat
  BY SpotFacts, Sizes DEF InRange, Slots, Quiet, TrackTypeOK
<1>2. FrameOfOne(f)
  BY DeliversOne
<1>3. /\ DOMAIN FrameNumbers(t, end) = 1 .. n
      /\ \A i \in 1 .. n : Slot(t.cache, FrameNumbers(t, end)[i]).pkt = sent[h + i - 1]
  BY NumbersIn DEF InRange
<1>4. DOMAIN f = 1 .. n /\ \A i \in 1 .. n : f[i] = sent[h + i - 1]
  BY <1>3 DEF FramePackets
<1> HIDE DEF f
<1>5. ASSUME NEW j \in h .. e
      PROVE  j \in 0 .. count - 1 /\ sent[j].ts = sent[h].ts /\ InStream(sent, count, j)
  <2>1. j \in h .. (e + 1) - 1 /\ j \in Slots
    BY <1>1, Sizes DEF Slots
  <2>2. j < count /\ sent[j].ts = sent[h].ts
    BY <2>1 DEF Together, InPlace
  <2>3. j \in 0 .. count - 1
    BY <1>1, <2>1, <2>2 DEF Slots
  <2>4. QED
    BY <2>2, <2>3, SentFacts
<1>6. h \in h .. e /\ e \in h .. e
  BY <1>1
<1>7. ASSUME NEW j \in h .. e - 1 PROVE ~sent[j].marker
  <2>1. j \in h .. e /\ j < e
    BY <1>1
  <2>2. sent[j].ts = sent[e].ts /\ sent[j].ts \in Nat
    BY <1>5, <1>6, <2>1, SentFacts DEF Packet
  <2>3. QED
    BY <1>5, <1>6, <2>1, <2>2, LaterFrame
<1>8. ~Continues(sent[h])
  <2>1. SUFFICES ASSUME Continues(sent[h]) PROVE FALSE
    OBVIOUS
  <2>2. Cardinality(starts) # Cardinality(ends)
    BY <1>1, <1>5, <1>6, <1>7, <2>1, EndsDiffer
  <2> HIDE DEF n, end
  <2>3. {i \in DOMAIN FrameNumbers(t, end) :
           "start" \in Slot(t.cache, FrameNumbers(t, end)[i]).pkt.fu} = starts
    BY <1>3
  <2>4. {i \in DOMAIN FrameNumbers(t, end) :
           "end" \in Slot(t.cache, FrameNumbers(t, end)[i]).pkt.fu} = ends
    BY <1>3
  <2>5. FrameComplete(t, end)
    BY DEF end
  <2> HIDE DEF starts, ends
  <2>6. QED
    BY <2>2, <2>3, <2>4, <2>5 DEF FrameComplete
<1>9. ASSUME NEW k \in 0 .. count - 1, sent[k].ts = sent[h].ts, sent[k].fu # {}
      PROVE  \E i \in 1 .. n : f[i] = sent[k]
  <2>1. ~(k < h)
    BY <1>5, <1>6, <1>8, <1>9, FragmentsFollow
  <2>2. ~(e < k)
    <3>1. SUFFICES ASSUME e < k PROVE FALSE
      OBVIOUS
    <3>2. e \in 0 .. count - 1 /\ sent[e].ts = sent[h].ts
      BY <1>5, <1>6
    <3>3. sent[e].ts < sent[k].ts
      BY <3>1, <3>2, LaterFrame
    <3>4. sent[e].ts \in Nat
      BY <3>2, SentFacts DEF Packet
    <3>5. QED
      BY <1>9, <3>2, <3>3, <3>4
  <2>3. k - h + 1 \in 1 .. n /\ h + (k - h + 1) - 1 = k
    BY <1>1, <2>1, <2>2
  <2>4. QED
    BY <1>4, <2>3
<1>10. ASSUME NEW i \in 1 .. n
       PROVE  h + i - 1 \in 0 .. count - 1 /\ f[i].ts = sent[h].ts /\ f[i] = sent[h + i - 1]
  <2>1. h + i - 1 \in h .. e
    BY <1>1
  <2>2. QED
    BY <1>4, <1>5, <2>1
<1>11. Whole(f)
  <2>1. SUFFICES ASSUME NEW i \in 1 .. n, NEW k \in 0 .. count - 1,
                        sent[k].ts = f[i].ts, sent[k].fu # {}
                 PROVE  sent[k] \in ToSet(f)
    BY <1>4 DEF Whole
  <2>2. PICK l \in 1 .. n : f[l] = sent[k]
    BY <1>9, <1>10, <2>1
  <2>3. QED
    BY <1>4, <2>2 DEF ToSet
<1>12. \A i \in DOMAIN f : \E j \in 0 .. count - 1 : f[i] = sent[j]
  BY <1>4, <1>10
<1>13. QED
  BY <1>2, <1>11, <1>12 DEF Proper, f

-----------------------------------------------------------------------------
(* The loop, from the header it starts with. *)

Unmixed(t) == \A i \in 1 .. Len(t.out) : Proper(t.out[i])

Sound(F, from, ts) ==
  {t \in Tracks :
     /\ InPlace(t, F) /\ InRange(t) /\ Unmixed(t)
     /\ from <= t.header
     /\ \A m \in from .. CacheSize - 1 : m < t.header => m \notin F /\ ~t.cache[m].inUse
     /\ t.keyTs \in {ts, -1}}

(* When the packet awaited comes, all from header on are there.             *)
Settled(t, F) ==
  t.lost < CacheSize /\ t.lost \in F =>
    /\ t.header <= t.lost
    /\ \A j \in t.header .. t.lost - 1 : t.cache[j].inUse /\ sent[j].ts = sent[t.header].ts

(* A frame found from header on is not needed to settle.                    *)
Backed(t, F) ==
  \A q \in Spot(t) .. CacheSize - 1 :
    Together(t, q + 1) /\ sent[q].marker => Settled(t, F)

(* After n frames: a search is due, and as long as the number that was lost *)
(* before (old) is, it must not fail.                                       *)
Due(t, F, old, n) ==
  /\ Len(t.out) = n /\ n <= t.header /\ t.lost = old
  /\ old < CacheSize /\ old \in F /\ t.header < count
       => ~Continues(sent[t.header]) \/ Backed(t, F)

Turned(F, from, ts, old, n) ==
  {t \in Sound(F, from, ts) : (Len(t.out) <= n /\ Settled(t, F)) \/ Due(t, F, old, n + 1)}

LEMMA AfterFrame ==
  ASSUME Quiet, NEW F, NEW from \in Nat, NEW ts, NEW t \in Sound(F, from, ts),
         NEW e \in Spot(t) .. CacheSize - 1, Together(t, e + 1),
         sent[e].marker, NEW found, found = [kind |-> "frame", sn |-> Base(t) + e],
         FrameComplete(t, found.sn)
  PROVE  LET u == After(t, found)
         IN  /\ u \in Sound(F, from, ts) /\ Len(u.out) = Len(t.out) + 1
             /\ u.lost = t.lost /\ u.header = Base(t) + e + 1 /\ t.header < u.header
<1> DEFINE end == Base(t) + e
           u == PacketVideo(t, end)
           f == FramePackets(t, end)
<1>1. /\ t \in Tracks /\ InPlace(t, F) /\ InRange(t) /\ Unmixed(t)
      /\ from <= t.header
      /\ \A m \in from .. CacheSize - 1 : m < t.header => m \notin F /\ ~t.cache[m].inUse
      /\ t.keyTs \in {ts, -1}
  BY DEF Sound
<1>2. /\ Base(t) \in {0, CacheSize} /\ Spot(t) \in Slots /\ t.header = Base(t) + Spot(t)
      /\ t.header \in Nat
  BY <1>1, SpotFacts DEF InRange
<1>3. e \in Slots /\ e \in Nat /\ Spot(t) <= e /\ Spot(t) \in Nat
  BY <1>2, Sizes DEF Slots
<1>4. end \in SeqNo
  BY <1>2, <1>3, SmallSlot
<1>5. After(t, found) = u
  BY DEF After
<1>6. /\ u \in Tracks /\ u.header = Base(t) + e + 1 /\ InPlace(u, F) /\ InRange(u)
      /\ u.lost = t.lost /\ u.keyTs \in {t.keyTs, -1}
      /\ \A s \in Slots : u.cache[s].inUse => t.cache[s].inUse
      /\ \A j \in Spot(t) .. e : ~u.cache[j].inUse
  BY <1>1, DeliveredState
<1>7. Proper(f) /\ \A j \in Spot(t) .. e : j \notin F
  <2>1. FrameComplete(t, Base(t) + e)
    OBVIOUS
  <2>2. Proper(FramePackets(t, Base(t) + e))
    BY <1>1, <2>1, DeliversWhole
  <2>3. QED
    BY <1>1, <2>2, DeliversOne
<1> DEFINE n == Len(t.out)
<1>8. /\ n \in Nat /\ Len(u.out) = n + 1
      /\ \A i \in 1 .. n : u.out[i] = t.out[i]
      /\ u.out[n + 1] = f
  BY <1>1, <1>4, OneMoreFrame
<1>9. \A i \in 1 .. n : Proper(t.out[i])
  BY <1>1 DEF Unmixed
<1> HIDE DEF u, f, n, end
<1>10. Unmixed(u)
  <2>1. ASSUME NEW i \in 1 .. n + 1 PROVE Proper(u.out[i])
    <3>1. CASE i = n + 1
      BY <1>7, <1>8, <3>1
    <3>2. CASE i # n + 1
      <4>1. i \in 1 .. n
        BY <1>8, <3>2
      <4>2. QED
        BY <1>8, <1>9, <4>1
    <3>3. QED
      BY <3>1, <3>2
  <2>2. QED
    BY <1>8, <2>1 DEF Unmixed
<1>11. t.header < u.header
  BY <1>2, <1>3, <1>6, Sizes
<1>12. from <= u.header
  <2>1. u.header \in Nat
    BY <1>2, <1>3, <1>6, Sizes
  <2>2. QED
    BY <1>1, <1>2, <1>11, <2>1
<1>13. ASSUME NEW m \in from .. CacheSize - 1, m < u.header
       PROVE  m \notin F /\ ~u.cache[m].inUse
  <2>1. CASE m < t.header
    <3>1. m \in Slots
      BY Sizes DEF Slots
    <3>2. QED
      BY <1>1, <1>6, <2>1, <3>1
  <2>2. CASE ~(m < t.header)
    <3>1. Base(t) = 0
      BY <1>2, <2>2, Sizes DEF Base
    <3>2. m \in Spot(t) .. e
      BY <1>2, <1>3, <1>6, <1>13, <2>2, <3>1
    <3>3. QED
      BY <1>6, <1>7, <3>2
  <2>3. QED
    BY <2>1, <2>2
<1>14. u.keyTs \in {ts, -1}
  BY <1>1, <1>6
<1>15. u \in Sound(F, from, ts)
  BY <1>6, <1>10, <1>12, <1>13, <1>14 DEF Sound
<1>16. QED
  BY <1>5, <1>6, <1>8, <1>11, <1>15 DEF n

LEMMA AfterSearch ==
  ASSUME Quiet, NEW F, NEW from \in Nat, NEW ts, NEW old \in SeqNo, NEW n \in Nat,
         NEW t \in Sound(F, from, ts), Due(t, F, old, n),
         NEW p \in Spot(t) .. CacheSize - 1, Together(t, p),
         t.cache[p].inUse \/ p = Spot(t),
         old < CacheSize /\ old \in F => from <= old /\ p = Spot(t)
  PROVE  After(t, FindNextLost(t, Base(t) + p)) \in Turned(F, from, ts, old, n)
<1> DEFINE b == Base(t)
           h == Spot(t)
           found == FindNextLost(t, b + p)
           danger == old < CacheSize /\ old \in F
<1>1. /\ t \in Tracks /\ InPlace(t, F) /\ InRange(t) /\ t.header < 2 * CacheSize
      /\ \A m \in from .. CacheSize - 1 : m < t.header => m \notin F
  BY DEF Sound, InRange
<1>2. /\ b \in {0, CacheSize} /\ h \in Slots /\ t.header = b + h /\ t.header \in Nat
      /\ h \in Nat /\ p \in Nat /\ h <= p /\ old \in Nat /\ CacheSize \in Nat
  BY <1>1, SpotFacts, NextNumber, Sizes DEF Slots
<1>3. /\ Len(t.out) = n /\ n <= t.header /\ t.lost = old
      /\ danger /\ t.header < count => ~Continues(sent[t.header]) \/ Backed(t, F)
  BY DEF Due
<1>4. PICK q \in p .. CacheSize - 1 :
        /\ Together(t, q) /\ \A j \in p .. q - 1 : ~sent[j].marker
        /\ LostIn(t, q, found) \/ TimeIn(t, q, found) \/ MarkerIn(t, q, found)
  BY <1>1, SearchGoes
<1>5. q \in Slots /\ q \in Nat /\ p <= q
  BY <1>2 DEF Slots
<1> HIDE DEF found, danger, b, h
<1>6. danger => b = 0 /\ p = h
  <2>1. SUFFICES ASSUME danger PROVE b = 0 /\ p = h
    OBVIOUS
  <2>2. from <= old /\ p = h /\ old < CacheSize /\ old \in F
    BY <2>1 DEF danger, h
  <2>3. old \in from .. CacheSize - 1
    BY <1>2, <2>2
  <2>4. ~(old < t.header)
    BY <1>1, <2>2, <2>3
  <2>5. QED
    BY <1>2, <2>2, <2>4
<1>7. ~danger => Settled(t, F)
  BY <1>3 DEF danger, Settled
<1>8. ASSUME Settled(t, F) PROVE t \in Turned(F, from, ts, old, n)
  BY <1>2, <1>3, <1>8 DEF Turned
<1>9. CASE LostIn(t, q, found)
  <2> DEFINE u == [t EXCEPT !.lost = b + q]
  <2>1. After(t, found) = u /\ ~t.cache[q].inUse
    BY <1>9 DEF After, LostIn, b
  <2>2. b + q \in SeqNo
    BY <1>2, <1>5, SmallSlot
  <2>3. /\ u \in Tracks /\ u.cache = t.cache /\ u.header = t.header /\ u.lost = b + q
        /\ u.keyTs = t.keyTs /\ u.out = t.out
    BY <1>1, <2>2 DEF Tracks
  <2> HIDE DEF u
  <2>4. u \in Sound(F, from, ts)
    BY <2>3 DEF Sound, InPlace, InRange, Unmixed
  <2>5. Settled(u, F)
    <3>1. SUFFICES ASSUME b + q < CacheSize
                   PROVE  /\ t.header <= q /\ b + q = q
                          /\ \A j \in t.header .. q - 1 :
                               t.cache[j].inUse /\ sent[j].ts = sent[t.header].ts
      BY <2>3 DEF Settled
    <3>2. b = 0 /\ t.header = h
      BY <1>2, <1>5, <3>1
    <3>3. QED
      BY <1>2, <1>4, <1>5, <3>2 DEF Together, h
  <2>6. Len(u.out) <= n
    BY <1>3, <2>3
  <2>7. u \in Turned(F, from, ts, old, n)
    BY <2>4, <2>5, <2>6 DEF Turned
  <2>8. QED
    BY <2>1, <2>7 DEF found, b
(* A frame: it is delivered, or nothing happens.                            *)
<1>10. ASSUME NEW e \in h .. CacheSize - 1, Together(t, e + 1), sent[e].marker,
              NEW r \in Nat, r = b + e, found = [kind |-> "frame", sn |-> r],
              danger => FrameComplete(t, r) \/ Settled(t, F)
       PROVE  After(t, found) \in Turned(F, from, ts, old, n)
  <2>1. CASE FrameComplete(t, r)
    <3> DEFINE u == After(t, found)
    <3>1. /\ u \in Sound(F, from, ts) /\ Len(u.out) = Len(t.out) + 1
          /\ u.lost = t.lost /\ u.header = b + e + 1 /\ t.header < u.header
      <4>1. found = [kind |-> "frame", sn |-> Base(t) + e] /\ e \in Spot(t) .. CacheSize - 1
        BY <1>10 DEF b, h
      <4>2. FrameComplete(t, found.sn)
        BY <1>10, <2>1
      <4> HIDE DEF found
      <4>3. QED
        BY <1>10, <4>1, <4>2, AfterFrame DEF b
    <3> HIDE DEF u
    <3>2. Len(u.out) = n + 1 /\ u.lost = old
      BY <1>3, <3>1
    <3>3. u.header \in Nat
      BY <1>2, <1>10, <3>1
    <3>4. n + 1 <= u.header
      BY <1>2, <1>3, <3>1, <3>3
    <3>5. danger /\ u.header < count => ~Continues(sent[u.header])
      <4>1. SUFFICES ASSUME danger, u.header < count PROVE ~Continues(sent[u.header])
        OBVIOUS
      <4>2. u.header = e + 1 /\ e \in h .. (e + 1) - 1 /\ e \in Slots
        BY <1>2, <1>6, <1>10, <3>1, <4>1 DEF Slots
      <4>3. t.cache[e].inUse
        BY <1>10, <4>2 DEF Together, h
      <4>4. e \in 0 .. count - 1
        BY <1>1, <1>2, <4>2, <4>3, Sizes DEF InPlace, Slots, Quiet, TrackTypeOK
      <4>5. InStream(sent, count, e)
        BY <4>4, SentFacts
      <4>6. QED
        BY <1>10, <4>1, <4>2, <4>5 DEF InStream, Continued
    <3>6. Due(u, F, old, n + 1)
      BY <3>2, <3>4, <3>5 DEF Due, danger
    <3>7. QED
      BY <3>1, <3>6 DEF Turned, u
  <2>2. CASE ~FrameComplete(t, r)
    <3>1. After(t, found) = t
      BY <1>10, <2>2 DEF After
    <3>2. Settled(t, F)
      BY <1>7, <1>10, <2>2
    <3>3. QED
      BY <1>8, <3>1, <3>2
  <2>3. QED
    BY <2>1, <2>2
<1>11. CASE TimeIn(t, q, found)
  <2>1. /\ q > h /\ sent[q].ts # sent[h].ts
        /\ found = [kind |-> "frame", sn |-> b + q - 1]
    BY <1>11 DEF TimeIn, b, h
  <2>2. PICK e \in h .. CacheSize - 1 : e = q - 1
    BY <1>2, <1>5, <2>1
  <2>3. Together(t, e + 1)
    BY <1>4, <1>5, <2>2
  <2>4. e \in Nat /\ b + e \in Nat /\ b + q - 1 = b + e
    BY <1>2, <1>5, <2>2
  <2>5. sent[e].marker
    <3>1. SUFFICES ASSUME ~sent[e].marker PROVE FALSE
      OBVIOUS
    <3>2. e \in h .. q - 1 /\ e \in Slots /\ q = e + 1
      BY <1>2, <1>5, <2>1, <2>2 DEF Slots
    <3>3. t.cache[e].inUse /\ sent[e].ts = sent[h].ts
      BY <1>4, <3>2 DEF Together, h
    <3>4. sent[e + 1].ts = sent[e].ts
      BY <1>1, <3>1, <3>2, <3>3, RoomAfter
    <3>5. QED
      BY <2>1, <3>2, <3>3, <3>4
  <2>6. ~danger
    <3>1. SUFFICES ASSUME danger PROVE FALSE
      OBVIOUS
    <3>2. e \in p .. q - 1
      BY <1>2, <1>5, <1>6, <2>1, <2>2, <3>1
    <3>3. QED
      BY <1>4, <2>5, <3>2
  <2>7. After(t, found) \in Turned(F, from, ts, old, n)
    BY <1>10, <2>1, <2>3, <2>4, <2>5, <2>6
  <2>8. QED
    BY <2>7 DEF found, b
<1>12. CASE MarkerIn(t, q, found)
  <2>1. /\ Together(t, q + 1) /\ sent[q].marker
        /\ found = [kind |-> "frame", sn |-> b + q]
    BY <1>12 DEF MarkerIn, b
  <2>2. q \in h .. CacheSize - 1 /\ b + q \in Nat
    BY <1>2, <1>5
  <2>3. \A j \in h .. q : j \in 0 .. count - 1
    <3>1. ASSUME NEW j \in h .. q PROVE j \in 0 .. count - 1
      <4>1. j \in h .. (q + 1) - 1 /\ j \in Slots
        BY <1>2, <1>5 DEF Slots
      <4>2. t.cache[j].inUse
        BY <2>1, <4>1 DEF Together, h
      <4>3. j < count
        BY <1>1, <4>1, <4>2 DEF InPlace
      <4>4. QED
        BY <1>2, <4>1, <4>3, Sizes DEF Slots, Quiet, TrackTypeOK
    <3>2. QED
      BY <3>1
  <2>4. danger => FrameComplete(t, b + q) \/ Settled(t, F)
    <3>1. SUFFICES ASSUME danger PROVE FrameComplete(t, b + q) \/ Settled(t, F)
      OBVIOUS
    <3>2. p = h /\ b = 0 /\ t.header = h
      BY <1>2, <1>6, <3>1
    <3>3. h \in 0 .. count - 1
      BY <1>2, <1>5, <2>3
    <3>4. t.header < count
      BY <1>2, <3>2, <3>3 DEF Quiet, TrackTypeOK
    <3>5. CASE ~Continues(sent[h])
      <4>1. \A j \in h .. q - 1 : ~sent[j].marker
        BY <1>4, <3>2
      <4>2. QED
        BY <1>1, <2>1, <2>2, <3>5, <4>1, WholeFrame DEF b, h
    <3>6. CASE Backed(t, F)
      BY <2>1, <2>2, <3>6 DEF Backed, h
    <3>7. QED
      BY <1>3, <3>1, <3>2, <3>4, <3>5, <3>6
  <2>5. After(t, found) \in Turned(F, from, ts, old, n)
    BY <1>10, <2>1, <2>2, <2>4
  <2>6. QED
    BY <2>5 DEF found, b
<1>13. QED
  BY <1>4, <1>9, <1>11, <1>12 DEF found, b

LEMMA TurnKeeps ==
  ASSUME Quiet, NEW F, NEW from \in Nat, NEW ts, NEW old \in SeqNo,
         old < CacheSize /\ old \in F => from <= old,
         NEW n \in 1 .. CacheSize, NEW t \in Turned(F, from, ts, old, n - 1)
  PROVE  Turn(t, n) \in Turned(F, from, ts, old, n)
<1>1. n \in Nat /\ n - 1 \in Nat /\ (n - 1) + 1 = n
  BY Sizes
<1>2. t \in Sound(F, from, ts)
  BY DEF Turned
<1>3. t.out \in Seq(Seq(Packet))
  BY <1>2 DEF Sound, Tracks
<1>4. Len(t.out) \in Nat
  BY <1>3, LenProperties
<1>5. CASE Len(t.out) <= n - 1 /\ Settled(t, F)
  <2>1. Len(t.out) < n /\ Len(t.out) <= n
    BY <1>1, <1>4, <1>5
  <2>2. Turn(t, n) = t
    BY <2>1 DEF Turn
  <2>3. QED
    BY <1>2, <1>5, <2>1, <2>2 DEF Turned
<1>6. CASE Due(t, F, old, n)
  <2> DEFINE p == Spot(t)
  <2>1. ~(Len(t.out) < n)
    BY <1>1, <1>6 DEF Due
  <2>2. Turn(t, n) = After(t, FindNextLost(t, t.header))
    BY <2>1 DEF Turn
  <2>3. t.header = Base(t) + p /\ p \in Slots
    BY <1>2, SpotFacts DEF Sound, InRange
  <2>4. p \in Spot(t) .. CacheSize - 1 /\ Together(t, p)
    BY <2>3, Sizes DEF Slots, Together
  <2> HIDE DEF p
  <2>5. p = Spot(t)
    BY DEF p
  <2>6. After(t, FindNextLost(t, Base(t) + p)) \in Turned(F, from, ts, old, n)
    BY <1>1, <1>2, <1>6, <2>4, <2>5, AfterSearch
  <2>7. QED
    BY <2>2, <2>3, <2>6
<1>7. QED
  BY <1>1, <1>5, <1>6 DEF Turned

LEMMA SearchedSound ==
  ASSUME Quiet, NEW F, NEW from \in Nat, NEW ts, NEW t \in Sound(F, from, ts),
         t.out = <<>>, NEW pkt \in Packet,
         NEW p \in Spot(t) .. CacheSize - 1, Together(t, p),
         t.cache[p].inUse \/ p = Spot(t), pkt.sn = Base(t) + p,
         t.lost < CacheSize /\ t.lost \in F =>
           /\ from <= t.lost /\ p = Spot(t)
           /\ t.header < count => ~Continues(sent[t.header]) \/ Backed(t, F)
  PROVE  Searched(t, pkt) \in Sound(F, from, ts) /\ Settled(Searched(t, pkt), F)
<1>1. PICK old \in SeqNo : old = t.lost
  BY DEF Sound, Tracks
<1> DEFINE found == FindNextLost(t, Base(t) + p)
           Inv == [n \in 0 .. CacheSize |-> Turned(F, from, ts, old, n)]
           u == Drain(t, found)
<1>2. t \in Tracks /\ t.header \in Nat
  BY SpotFacts DEF Sound, InRange
<1>3. found \in Results
  <2>1. Base(t) + p \in SeqNo
    BY DEF Packet
  <2>2. QED
    BY <2>1, SearchTyped
<1>4. Due(t, F, old, 0)
  BY <1>1, <1>2 DEF Due
<1>5. After(t, found) \in Inv[0]
  <2>1. 0 \in Nat /\ 0 \in 0 .. CacheSize
    BY Sizes
  <2>2. After(t, found) \in Turned(F, from, ts, old, 0)
    BY <1>1, <1>4, <2>1, AfterSearch
  <2> HIDE DEF found
  <2>3. QED
    BY <2>1, <2>2
<1> HIDE DEF found
<1>6. ASSUME NEW n \in 1 .. CacheSize, NEW v \in Tracks, v \in Inv[n - 1]
      PROVE  Turn(v, n) \in Inv[n]
  <2>1. n - 1 \in 0 .. CacheSize /\ n \in 0 .. CacheSize
    BY Sizes
  <2>2. v \in Turned(F, from, ts, old, n - 1)
    BY <1>6, <2>1
  <2>3. Turn(v, n) \in Turned(F, from, ts, old, n)
    BY <1>1, <2>2, TurnKeeps
  <2>4. QED
    BY <2>1, <2>3
<1>7. u \in Inv[CacheSize]
  <2> HIDE DEF Inv
  <2>1. QED
    BY <1>2, <1>3, <1>5, <1>6, DrainKeeps
<1>8. u \in Turned(F, from, ts, old, CacheSize)
  <2>1. CacheSize \in 0 .. CacheSize
    BY Sizes
  <2> HIDE DEF u
  <2>2. QED
    BY <1>7, <2>1
<1> HIDE DEF u
<1>9. u \in Sound(F, from, ts)
  BY <1>8 DEF Turned
<1>10. Settled(u, F)
  <2>1. CASE Due(u, F, old, CacheSize + 1)
    <3>1. SUFFICES ASSUME u.lost < CacheSize, u.lost \in F PROVE FALSE
      BY DEF Settled
    <3>2. u.lost = old /\ CacheSize + 1 <= u.header
      BY <2>1 DEF Due
    <3>3. from <= old /\ old \in Nat /\ old < CacheSize /\ u.header \in Nat
      BY <1>1, <1>9, <3>1, <3>2, NextNumber DEF Sound, Tracks
    <3>4. old \in from .. CacheSize - 1 /\ old < u.header
      BY <3>2, <3>3, Sizes
    <3>5. QED
      BY <1>9, <3>1, <3>2, <3>4 DEF Sound
  <2>2. QED
    BY <1>8, <2>1 DEF Turned
<1>11. Searched(t, pkt) = u
  BY DEF Searched, u, found
<1>12. QED
  BY <1>9, <1>10, <1>11

-----------------------------------------------------------------------------
(* Frames are not mixed. *)

Fresh == {k \in Nat : k >= count \/ (k \in Latest /\ k \notin came)}

(* The key frame awaited is not all behind header yet, or has come.         *)
KeyAhead(t, F) ==
  t.keyTs # -1 =>
    /\ t.keyTs <= count
    /\ \A m \in 0 .. count - 1 :
         sent[m].marker /\ sent[m].ts = t.keyTs
           => t.header <= m \/ (m \notin F /\ ~t.cache[m].inUse)

Clean(t, F) == InPlace(t, F) /\ Settled(t, F) /\ KeyAhead(t, F)

(* As long as every packet came once and no slot was due again.             *)
FirstTime == FirstRound => Clean(Track, Fresh)

(* The packet is stored.                                                    *)
LEMMA BegunCases ==
  ASSUME TrackTypeOK, NEW pkt \in Packet
  PROVE  LET b == Begun(pkt)
         IN  /\ b \in Tracks /\ b.out = <<>>
             /\ b.cache[pkt.sn % CacheSize] = [inUse |-> TRUE, pkt |-> pkt]
             /\ IF pkt.key /\ pkt.ts # key_frame_ts
                THEN /\ b.header = pkt.sn /\ b.lost = Succ(pkt.sn) /\ b.keyTs = pkt.ts
                     /\ \A s \in Slots : s # pkt.sn % CacheSize => ~b.cache[s].inUse
                ELSE /\ b.header = header_sn /\ b.lost = lost_sn /\ b.keyTs = key_frame_ts
                     /\ \A s \in Slots : s # pkt.sn % CacheSize => b.cache[s] = cache[s]
<1>1. CASE pkt.key /\ pkt.ts # key_frame_ts
  <2>1. Begun(pkt) = Store(NewKeyFrame(pkt), pkt)
    BY <1>1 DEF Begun
  <2>2. PICK t \in Tracks : /\ t = NewKeyFrame(pkt) /\ t.out = <<>> /\ t.cache = EmptyCache
                            /\ t.header = pkt.sn /\ t.lost = Succ(pkt.sn)
                            /\ t.keyTs = pkt.ts
    BY StartOverTyped
  <2>3. /\ Store(t, pkt) \in Tracks
        /\ Store(t, pkt).header = t.header /\ Store(t, pkt).lost = t.lost
        /\ Store(t, pkt).keyTs = t.keyTs /\ Store(t, pkt).out = t.out
        /\ Store(t, pkt).cache[pkt.sn % CacheSize] = [inUse |-> TRUE, pkt |-> pkt]
        /\ \A s \in Slots : s # pkt.sn % CacheSize => Store(t, pkt).cache[s] = t.cache[s]
    BY StoreFacts
  <2>4. QED
    BY <1>1, <2>1, <2>2, <2>3, EmptyTyped
<1>2. CASE ~(pkt.key /\ pkt.ts # key_frame_ts)
  <2>1. Begun(pkt) = Store(Track, pkt)
    BY <1>2 DEF Begun
  <2>2. PICK t \in Tracks : /\ t = Track /\ t.out = <<>> /\ t.cache = cache
                            /\ t.header = header_sn /\ t.lost = lost_sn
                            /\ t.keyTs = key_frame_ts
    BY TrackTyped
  <2>3. /\ Store(t, pkt) \in Tracks
        /\ Store(t, pkt).header = t.header /\ Store(t, pkt).lost = t.lost
        /\ Store(t, pkt).keyTs = t.keyTs /\ Store(t, pkt).out = t.out
        /\ Store(t, pkt).cache[pkt.sn % CacheSize] = [inUse |-> TRUE, pkt |-> pkt]
        /\ \A s \in Slots : s # pkt.sn % CacheSize => Store(t, pkt).cache[s] = t.cache[s]
    BY StoreFacts
  <2>4. QED
    BY <1>2, <2>1, <2>2, <2>3
<1>3. QED
  BY <1>1, <1>2

LEMMA EmptyUnmixed ==
  ASSUME NEW t, t.out = <<>>
  PROVE  Unmixed(t)
BY EmptySeq DEF Unmixed

(* A slot that is empty when a packet was stored in another stays empty.    *)
LEMMA EmptyStays ==
  ASSUME TrackTypeOK, NEW pkt \in Packet, NEW m \in Slots, ~Begun(pkt).cache[m].inUse
  PROVE  ~Coming(pkt).cache[m].inUse
<1> DEFINE Inv == {u \in Tracks : ~u.cache[m].inUse}
<1>1. Begun(pkt) \in Inv /\ FromHere(Begun(pkt), pkt) \in Inv
  BY BegunTyped
<1>2. ASSUME NEW u \in Tracks, NEW found \in Results, u \in Inv
      PROVE  After(u, found) \in Inv
  <2>1. After(u, found) \in Tracks
    BY AfterCases
  <2>2. ~After(u, found).cache[m].inUse
    <3>1. CASE After(u, found) = [u EXCEPT !.lost = found.sn]
      <4>1. After(u, found).cache = u.cache
        BY <3>1 DEF Tracks
      <4>2. QED
        BY <1>2, <4>1
    <3>2. CASE After(u, found) = PacketVideo(u, found.sn)
      <4>1. found.sn \in SeqNo
        BY DEF Results
      <4>2. IF m \in Leaving(u, found.sn) THEN ~PacketVideo(u, found.sn).cache[m].inUse
            ELSE PacketVideo(u, found.sn).cache[m] = u.cache[m]
        BY <4>1, PacketVideoFacts
      <4>3. QED
        BY <1>2, <3>2, <4>2
    <3>3. CASE After(u, found) = u
      BY <1>2, <3>3
    <3>4. QED
      BY <3>1, <3>2, <3>3, AfterCases
  <2>3. QED
    BY <2>1, <2>2
<1> HIDE DEF Inv
<1>3. Coming(pkt) \in Inv
  BY <1>1, <1>2, ComingKeeps
<1>4. QED
  BY <1>3 DEF Inv

LEMMA ComesClean ==
  ASSUME Quiet, Clean(Track, Fresh), NEW k \in Latest, k \notin came
  PROVE  /\ Coming(sent[k]) \in Tracks /\ Unmixed(Coming(sent[k]))
         /\ Clean(Coming(sent[k]), Fresh \ {k})
<1> DEFINE pkt == sent[k]
           F == Fresh \ {k}
           b == Begun(pkt)
           t == Coming(pkt)
<1>1. /\ k \in 0 .. count - 1 /\ k \in Nat /\ k \in Slots /\ count \in Nat /\ k < CacheSize
      /\ k + 1 <= count /\ k + 1 < SeqSpace /\ TrackTypeOK /\ CacheSize \in Nat
  <2>1. k \in 0 .. count - 1 /\ count \in Nat /\ count <= CacheSize /\ TrackTypeOK
    BY Sizes DEF Latest, Quiet, TrackTypeOK
  <2>2. QED
    BY <2>1, Sizes DEF Slots
<1>2. /\ pkt \in Packet /\ pkt.sn = k /\ pkt.key \in BOOLEAN /\ pkt.ts \in Nat
      /\ InStream(sent, count, k)
  BY <1>1, SentFacts DEF Packet
<1>3. k % CacheSize = k
  <2>1. 0 \in {0, CacheSize} /\ 0 + k = k
    BY <1>1
  <2>2. (0 + k) % CacheSize = k
    BY <1>1, SmallSlot
  <2>3. QED
    BY <2>1, <2>2
<1>4. k \in Fresh /\ k \notin F /\ F \subseteq Fresh
  BY <1>1 DEF Fresh
<1>5. /\ Track.cache = cache /\ Track.header = header_sn /\ Track.lost = lost_sn
      /\ Track.keyTs = key_frame_ts
  BY <1>1, TrackTyped
<1>6. /\ InPlace(Track, Fresh) /\ Settled(Track, Fresh) /\ KeyAhead(Track, Fresh)
  BY DEF Clean
<1> DEFINE new == pkt.key /\ pkt.ts # key_frame_ts
<1>7. /\ b \in Tracks /\ b.out = <<>> /\ b.cache[k] = [inUse |-> TRUE, pkt |-> pkt]
      /\ new => /\ b.header = k /\ b.lost = Succ(k) /\ b.keyTs = pkt.ts
                /\ \A s \in Slots : s # k => ~b.cache[s].inUse
      /\ ~new => /\ b.header = header_sn /\ b.lost = lost_sn /\ b.keyTs = key_frame_ts
                 /\ \A s \in Slots : s # k => b.cache[s] = cache[s]
  BY <1>1, <1>2, <1>3, BegunCases
<1>8. b.cache[k].inUse /\ b.cache[k].pkt = sent[k]
  BY <1>7
<1>9. t = IF Earlier(pkt) THEN Searched(FromHere(b, pkt), pkt)
          ELSE IF b.lost = k THEN Searched(b, pkt) ELSE b
  BY <1>2 DEF Coming
<1>10. Earlier(pkt) <=> pkt.key /\ SeqDistance(b.header, k) < 0
  BY <1>2 DEF Earlier
<1> HIDE DEF pkt, F, b, t, new
<1>11. InPlace(b, F)
  <2>1. ASSUME NEW s \in Slots, b.cache[s].inUse
        PROVE  s < count /\ b.cache[s].pkt = sent[s] /\ s \notin F
    <3>1. CASE s = k
      BY <1>1, <1>4, <1>8, <3>1
    <3>2. CASE s # k
      <4>1. ~new /\ b.cache[s] = cache[s]
        BY <1>7, <2>1, <3>2
      <4>2. cache[s].inUse /\ Track.cache[s] = cache[s]
        BY <1>5, <2>1, <4>1
      <4>3. s < count /\ cache[s].pkt = sent[s] /\ s \notin Fresh
        BY <1>6, <4>2 DEF InPlace
      <4>4. QED
        BY <1>4, <4>1, <4>3
    <3>3. QED
      BY <3>1, <3>2
  <2>2. QED
    BY <2>1 DEF InPlace
<1>12. b.header \in SeqNo /\ b.header \in Nat /\ b.lost \in SeqNo /\ header_sn \in Nat
       /\ header_sn \in SeqNo
  BY <1>1, <1>7, NextNumber DEF Tracks, TrackTypeOK
(* The loop starts from a header before the packet.                         *)
<1>13. ASSUME NEW u \in Tracks, u.cache = b.cache, u.out = <<>>, u.header \in Nat,
              u.header <= k
       PROVE  /\ u \in Sound(F, u.header, u.keyTs) /\ Base(u) = 0 /\ Spot(u) = u.header
              /\ k \in Spot(u) .. CacheSize - 1
  <2>1. Base(u) = 0 /\ Spot(u) = u.header
    BY <1>1, <1>13 DEF Base, Spot
  <2>2. InRange(u) /\ InPlace(u, F) /\ Unmixed(u)
    BY <1>1, <1>11, <1>13, EmptyUnmixed DEF InRange, InPlace
  <2>3. \A m \in u.header .. CacheSize - 1 : ~(m < u.header)
    BY <1>13
  <2>4. u \in Sound(F, u.header, u.keyTs)
    BY <1>13, <2>2, <2>3 DEF Sound
  <2>5. QED
    BY <1>1, <1>13, <2>1, <2>4
<1>14. CASE new
  <2>1. ~Earlier(pkt)
    <3>1. SeqDistance(k, k) = 0
      BY <1>1, Sizes DEF SeqDistance, AheadOf
    <3>2. QED
      BY <1>7, <1>10, <1>14, <3>1
  <2>2. b.header = k /\ b.lost = k + 1 /\ b.keyTs = pkt.ts
    BY <1>1, <1>7, <1>14, Sizes DEF Succ
  <2>3. t = b
    BY <1>1, <1>9, <2>1, <2>2
  <2>4. Settled(b, F)
    <3>1. \A j \in k .. (k + 1) - 1 : j = k
      BY <1>1
    <3>2. QED
      BY <1>1, <1>8, <2>2, <3>1 DEF Settled
  <2>5. KeyAhead(b, F)
    <3>1. pkt.ts <= count
      <4>1. pkt.ts <= k + 1
        BY <1>2 DEF InStream, pkt
      <4>2. QED
        BY <1>1, <1>2, <4>1
    <3>2. ASSUME NEW m \in 0 .. count - 1, sent[m].marker, sent[m].ts = pkt.ts
          PROVE  k <= m
      <4>1. CASE m < k
        <5>1. sent[m].ts < sent[k].ts
          BY <1>1, <3>2, <4>1, LaterFrame
        <5>2. QED
          BY <1>2, <3>2, <5>1 DEF pkt
      <4>2. QED
        BY <1>1, <4>1
    <3>3. QED
      BY <2>2, <3>1, <3>2 DEF KeyAhead
  <2>6. QED
    BY <1>7, <1>11, <2>3, <2>4, <2>5, EmptyUnmixed DEF Clean, t, F, pkt
<1>15. CASE ~new /\ Earlier(pkt)
  <2> DEFINE u == FromHere(b, pkt)
  <2>1. /\ u \in Tracks /\ u.cache = b.cache /\ u.header = k /\ u.lost = lost_sn
        /\ u.keyTs = key_frame_ts /\ u.out = <<>>
    BY <1>1, <1>2, <1>7, <1>15, BegunTyped DEF b
  <2>2. t = Searched(u, pkt)
    BY <1>9, <1>15
  <2> HIDE DEF u
  <2>3. k < header_sn
    <3>1. SeqDistance(header_sn, k) < 0
      BY <1>7, <1>10, <1>15
    <3>2. QED
      BY <1>1, <1>12, <3>1, Sizes DEF SeqDistance, AheadOf
  <2>4. pkt.ts = key_frame_ts /\ key_frame_ts # -1
    BY <1>2, <1>10, <1>15 DEF new
(* The last packet of the key frame is not behind header, or has come.      *)
  <2>5. ASSUME NEW q \in 0 .. count - 1, sent[q].marker, sent[q].ts = sent[k].ts,
               q \in Fresh \/ cache[q].inUse
        PROVE  header_sn <= q
    <3>1. sent[q].ts = Track.keyTs /\ Track.keyTs # -1
      BY <1>5, <2>4, <2>5 DEF pkt
    <3>2. Track.header <= q \/ (q \notin Fresh /\ ~Track.cache[q].inUse)
      BY <1>6, <2>5, <3>1 DEF KeyAhead
    <3>3. QED
      BY <1>5, <2>5, <3>2
  <2>6. Backed(u, F)
    <3>1. SUFFICES ASSUME NEW q \in k .. CacheSize - 1, Together(u, q + 1), sent[q].marker,
                          lost_sn < CacheSize, lost_sn \in F
                   PROVE  Settled(u, F)
      <4>1. Spot(u) = k
        BY <1>1, <1>13, <2>1
      <4>2. QED
        BY <2>1, <4>1 DEF Backed, Settled
    <3>2. /\ Spot(u) = k /\ q \in Nat /\ q \in Slots /\ lost_sn \in Nat
          /\ q \in k .. (q + 1) - 1
      <4>1. Spot(u) = k
        BY <1>1, <1>13, <2>1
      <4>2. lost_sn \in Nat
        BY <1>1, NextNumber DEF TrackTypeOK
      <4>3. QED
        BY <1>1, <4>1, <4>2 DEF Slots
    <3>3. \A j \in k .. q : b.cache[j].inUse /\ sent[j].ts = sent[k].ts
      <4>1. k .. (q + 1) - 1 = k .. q
        BY <1>1, <3>2
      <4>2. QED
        BY <2>1, <3>1, <3>2, <4>1 DEF Together
    <3>4. q \in k .. q /\ q < count
      BY <1>1, <1>11, <3>2, <3>3 DEF InPlace
    <3>5. q \in 0 .. count - 1
      BY <1>1, <3>2, <3>4
    <3>6. q \in Fresh \/ cache[q].inUse
      <4>1. CASE q = k
        BY <1>4, <4>1
      <4>2. CASE q # k
        <5>1. b.cache[q].inUse /\ b.cache[q] = cache[q]
          BY <1>7, <1>15, <3>2, <3>3, <3>4, <4>2
        <5>2. QED
          BY <5>1
      <4>3. QED
        BY <4>1, <4>2
    <3>7. header_sn <= q
      BY <2>5, <3>1, <3>3, <3>4, <3>5, <3>6
    <3>8. /\ header_sn <= lost_sn
          /\ \A j \in header_sn .. lost_sn - 1 :
               cache[j].inUse /\ sent[j].ts = sent[header_sn].ts
      BY <1>4, <1>5, <1>6, <3>1 DEF Settled
    <3>9. header_sn \in k .. q
      BY <1>1, <1>12, <2>3, <3>2, <3>7
    <3>10. k <= lost_sn
      BY <1>1, <1>12, <2>3, <3>2, <3>8
    <3>11. ASSUME NEW j \in k .. lost_sn - 1
           PROVE  b.cache[j].inUse /\ sent[j].ts = sent[k].ts
      <4>1. CASE j <= q
        <5>1. j \in k .. q
          BY <1>1, <3>2, <4>1
        <5>2. QED
          BY <3>3, <5>1
      <4>2. CASE ~(j <= q)
        <5>1. j \in header_sn .. lost_sn - 1 /\ j # k /\ j \in Slots
          BY <1>1, <1>12, <3>1, <3>2, <3>9, <4>2 DEF Slots
        <5>2. cache[j].inUse /\ sent[j].ts = sent[header_sn].ts
          BY <3>8, <5>1
        <5>3. b.cache[j] = cache[j]
          BY <1>7, <1>15, <5>1
        <5>4. sent[header_sn].ts = sent[k].ts
          BY <3>3, <3>9
        <5>5. QED
          BY <5>2, <5>3, <5>4
      <4>3. QED
        BY <4>1, <4>2
    <3>12. QED
      BY <2>1, <3>10, <3>11 DEF Settled
  <2>7. u.lost < CacheSize /\ u.lost \in F => k <= u.lost
    <3>1. SUFFICES ASSUME lost_sn < CacheSize, lost_sn \in F PROVE k <= lost_sn
      BY <2>1
    <3>2. header_sn <= lost_sn
      BY <1>4, <1>5, <1>6, <3>1 DEF Settled
    <3>3. lost_sn \in Nat
      BY <1>1, NextNumber DEF TrackTypeOK
    <3>4. QED
      BY <1>1, <1>12, <2>3, <3>2, <3>3
  <2>8. /\ u \in Sound(F, k, key_frame_ts) /\ Base(u) = 0 /\ Spot(u) = k
        /\ k \in Spot(u) .. CacheSize - 1
    BY <1>1, <1>13, <2>1
  <2>9. Together(u, k)
    BY <1>1, <2>8 DEF Together
  <2>10. pkt.sn = Base(u) + k
    BY <1>1, <1>2, <2>8
  <2>11. t \in Sound(F, k, key_frame_ts) /\ Settled(t, F)
    BY <1>1, <1>2, <2>1, <2>2, <2>6, <2>7, <2>8, <2>9, <2>10, SearchedSound
  <2>12. KeyAhead(t, F)
    <3>1. SUFFICES ASSUME t.keyTs # -1
                   PROVE  /\ t.keyTs <= count
                          /\ \A m \in 0 .. count - 1 :
                               sent[m].marker /\ sent[m].ts = t.keyTs
                                 => t.header <= m \/ (m \notin F /\ ~t.cache[m].inUse)
      BY DEF KeyAhead
    <3>2. t.keyTs = key_frame_ts
      BY <2>11, <3>1 DEF Sound
    <3>3. key_frame_ts <= count
      BY <1>5, <1>6, <2>4 DEF KeyAhead
    <3>4. ASSUME NEW m \in 0 .. count - 1, sent[m].marker, sent[m].ts = t.keyTs,
                 ~(t.header <= m)
          PROVE  m \notin F /\ ~t.cache[m].inUse
      <4>1. ~(m < k)
        <5>1. CASE m < k
          <6>1. sent[m].ts < sent[k].ts /\ sent[m].ts = sent[k].ts
            BY <1>1, <2>4, <3>2, <3>4, <5>1, LaterFrame DEF pkt
          <6>2. QED
            BY <1>2, <6>1 DEF pkt
        <5>2. QED
          BY <5>1
      <4>2. t.header \in Nat
        BY <2>11, NextNumber DEF Sound, Tracks
      <4>3. m \in k .. CacheSize - 1 /\ m < t.header
        BY <1>1, <3>4, <4>1, <4>2, SentFacts DEF Slots
      <4>4. QED
        BY <2>11, <4>3 DEF Sound
    <3>5. QED
      BY <3>2, <3>3, <3>4
  <2>13. QED
    BY <2>11, <2>12 DEF Clean, Sound, t, F, pkt
<1>16. CASE ~new /\ ~Earlier(pkt) /\ b.lost = k
  <2>1. t = Searched(b, pkt)
    BY <1>9, <1>16
  <2>2. lost_sn = k /\ b.header = header_sn
    BY <1>7, <1>16
  <2>3. /\ header_sn <= k
        /\ \A j \in header_sn .. k - 1 : cache[j].inUse /\ sent[j].ts = sent[header_sn].ts
    BY <1>1, <1>4, <1>5, <1>6, <2>2 DEF Settled
  <2>4. /\ b \in Sound(F, header_sn, b.keyTs) /\ Base(b) = 0 /\ Spot(b) = header_sn
        /\ k \in Spot(b) .. CacheSize - 1
    BY <1>1, <1>7, <1>12, <1>13, <2>2, <2>3
  <2>5. Together(b, k)
    <3>1. ASSUME NEW j \in header_sn .. k - 1
          PROVE  b.cache[j].inUse /\ sent[j].ts = sent[header_sn].ts
      <4>1. j \in Slots /\ j # k
        BY <1>1, <1>12, Sizes DEF Slots
      <4>2. QED
        BY <1>7, <1>16, <2>3, <4>1
    <3>2. QED
      BY <2>4, <3>1 DEF Together
  <2>6. pkt.sn = Base(b) + k
    BY <1>1, <1>2, <2>4
  <2>7. ~(b.lost \in F)
    BY <1>4, <1>16
  <2>8. t \in Sound(F, header_sn, b.keyTs) /\ Settled(t, F)
    BY <1>2, <1>7, <1>8, <1>12, <2>1, <2>4, <2>5, <2>6, <2>7, SearchedSound
  <2>9. b.keyTs = key_frame_ts
    BY <1>7, <1>16
  <2>10. KeyAhead(t, F)
    <3>1. SUFFICES ASSUME t.keyTs # -1
                   PROVE  /\ t.keyTs <= count
                          /\ \A m \in 0 .. count - 1 :
                               sent[m].marker /\ sent[m].ts = t.keyTs
                                 => t.header <= m \/ (m \notin F /\ ~t.cache[m].inUse)
      BY DEF KeyAhead
    <3>2. t.keyTs = key_frame_ts
      BY <2>8, <2>9, <3>1 DEF Sound
    <3>3. /\ key_frame_ts <= count
          /\ \A m \in 0 .. count - 1 : sent[m].marker /\ sent[m].ts = key_frame_ts
                            => header_sn <= m \/ (m \notin Fresh /\ ~cache[m].inUse)
      BY <1>5, <1>6, <3>1, <3>2 DEF KeyAhead
    <3>4. ASSUME NEW m \in 0 .. count - 1, sent[m].marker, sent[m].ts = t.keyTs,
                 ~(t.header <= m)
          PROVE  m \notin F /\ ~t.cache[m].inUse
      <4>1. header_sn <= m \/ (m \notin Fresh /\ ~cache[m].inUse)
        BY <3>2, <3>3, <3>4
      <4>2. m \in Slots /\ m \in Nat
        BY SentFacts
      <4>3. CASE header_sn <= m
        <5>1. t.header \in Nat
          BY <2>8, NextNumber DEF Sound, Tracks
        <5>2. m \in header_sn .. CacheSize - 1 /\ m < t.header
          BY <1>1, <1>12, <3>4, <4>2, <4>3, <5>1 DEF Slots
        <5>3. QED
          BY <2>8, <5>2 DEF Sound
      <4>4. CASE m \notin Fresh /\ ~cache[m].inUse
        <5>1. m # k /\ m \notin F
          BY <1>4, <4>4
        <5>2. ~b.cache[m].inUse
          BY <1>7, <1>16, <4>2, <4>4, <5>1
        <5>3. ~t.cache[m].inUse
          BY <1>1, <1>2, <4>2, <5>2, EmptyStays DEF b, t
        <5>4. QED
          BY <5>1, <5>3
      <4>5. QED
        BY <4>1, <4>3, <4>4
    <3>5. QED
      BY <3>2, <3>3, <3>4
  <2>11. QED
    BY <2>8, <2>10 DEF Clean, Sound, t, F, pkt
<1>17. CASE ~new /\ ~Earlier(pkt) /\ b.lost # k
  <2>1. t = b
    BY <1>9, <1>17
  <2>2. b.header = header_sn /\ b.lost = lost_sn /\ b.keyTs = key_frame_ts
    BY <1>7, <1>17
  <2>3. Settled(b, F)
    <3>1. SUFFICES ASSUME lost_sn < CacheSize, lost_sn \in F
                   PROVE  /\ header_sn <= lost_sn
                          /\ \A j \in header_sn .. lost_sn - 1 :
                               b.cache[j].inUse /\ sent[j].ts = sent[header_sn].ts
      BY <2>2 DEF Settled
    <3>2. /\ header_sn <= lost_sn
          /\ \A j \in header_sn .. lost_sn - 1 :
               cache[j].inUse /\ sent[j].ts = sent[header_sn].ts
      BY <1>4, <1>5, <1>6, <3>1 DEF Settled
    <3>3. ASSUME NEW j \in header_sn .. lost_sn - 1 PROVE b.cache[j].inUse
      <4>1. j \in Slots
        <5>1. lost_sn \in Nat
          BY <1>1, NextNumber DEF TrackTypeOK
        <5>2. QED
          BY <1>1, <1>12, <3>1, <5>1 DEF Slots
      <4>2. CASE j = k
        BY <1>8, <4>2
      <4>3. CASE j # k
        BY <1>7, <1>17, <3>2, <4>1, <4>3
      <4>4. QED
        BY <4>2, <4>3
    <3>4. QED
      BY <3>2, <3>3
  <2>4. KeyAhead(b, F)
    <3>1. SUFFICES ASSUME key_frame_ts # -1
                   PROVE  /\ key_frame_ts <= count
                          /\ \A m \in 0 .. count - 1 :
                               sent[m].marker /\ sent[m].ts = key_frame_ts
                                 => header_sn <= m \/ (m \notin F /\ ~b.cache[m].inUse)
      BY <2>2 DEF KeyAhead
    <3>2. /\ key_frame_ts <= count
          /\ \A m \in 0 .. count - 1 : sent[m].marker /\ sent[m].ts = key_frame_ts
                            => header_sn <= m \/ (m \notin Fresh /\ ~cache[m].inUse)
      BY <1>5, <1>6, <3>1 DEF KeyAhead
    <3>3. ASSUME NEW m \in 0 .. count - 1, sent[m].marker, sent[m].ts = key_frame_ts,
                 ~(header_sn <= m)
          PROVE  m \notin F /\ ~b.cache[m].inUse
      <4>1. m \notin Fresh /\ ~cache[m].inUse
        BY <3>2, <3>3
      <4>2. m # k /\ m \notin F /\ m \in Slots
        BY <1>4, <4>1, SentFacts
      <4>3. QED
        BY <1>7, <1>17, <4>1, <4>2
    <3>4. QED
      BY <3>2, <3>3
  <2>5. QED
    BY <1>7, <1>11, <2>1, <2>3, <2>4, EmptyUnmixed DEF Clean, t, F, pkt
<1>18. QED
  BY <1>14, <1>15, <1>16, <1>17

LEMMA StreamKept == TrackTypeOK /\ Stream /\ [TrackNext]_trackVars => Stream'
<1>1. SUFFICES ASSUME TrackTypeOK, Stream, [TrackNext]_trackVars PROVE Stream'
  OBVIOUS
<1>2. CASE sent' = sent /\ count' = count
  BY <1>1, <1>2 DEF Stream
<1>3. ASSUME NEW pieces \in Frames, SendFrame(pieces) PROVE Stream'
  BY <1>1, <1>3, StreamSent
<1>4. ASSUME NEW k \in Latest, OnRtp(k) PROVE Stream'
  BY <1>2, <1>4 DEF OnRtp
<1>5. CASE UNCHANGED trackVars
  BY <1>2, <1>5 DEF trackVars
<1>6. QED
  BY <1>1, <1>3, <1>4, <1>5 DEF TrackNext

(* A frame is sent: nothing more may come for the first time of what was    *)
(* sent before.                                                             *)
LEMMA SendKeepsClean ==
  ASSUME Quiet, Clean(Track, Fresh), NEW pieces \in Frames, SendFrame(pieces)
  PROVE  Clean(Track, Fresh)'
<1> DEFINE l == Len(pieces)
<1>1. /\ l \in 1 .. 4 /\ count' = count + l /\ count \in Nat /\ count' \in Nat
      /\ \A k \in 0 .. count - 1 : sent'[k] = sent[k]
      /\ \A i \in 1 .. l : sent'[count + i - 1] = Numbered(pieces[i], count + i - 1)
  BY SentTyped, Sizes DEF Quiet
<1> HIDE DEF l
<1>2. /\ cache' = cache /\ header_sn' = header_sn /\ lost_sn' = lost_sn
      /\ key_frame_ts' = key_frame_ts /\ came' = came \cap Latest'
  BY DEF SendFrame, track
<1>3. Track' = Track
  BY <1>2 DEF Track
<1>4. Fresh' \subseteq Fresh
  <2>1. ASSUME NEW k \in Nat, k \in Fresh' PROVE k \in Fresh
    <3>1. CASE k >= count
      BY <3>1 DEF Fresh
    <3>2. CASE ~(k >= count)
      <4>1. k \in Latest' /\ k \notin came'
        BY <1>1, <2>1, <3>2 DEF Fresh
      <4>2. k \in 0 .. count - 1 /\ k >= count + l - Window
        <5>1. k \in 0 .. count' - 1 /\ k >= count' - Window
          BY <4>1 DEF Latest
        <5>2. QED
          BY <1>1, <2>1, <3>2, <5>1, Sizes
      <4>3. k \in Latest
        BY <1>1, <4>2, Sizes DEF Latest
      <4>4. QED
        BY <1>2, <4>1, <4>3 DEF Fresh
    <3>3. QED
      BY <3>1, <3>2
  <2>2. QED
    BY <2>1 DEF Fresh
<1>5. PICK t \in Tracks : t = Track
  BY TrackTyped DEF Quiet
<1>6. /\ InPlace(t, Fresh) /\ Settled(t, Fresh) /\ KeyAhead(t, Fresh)
  BY <1>5 DEF Clean
<1>7. t.header \in Nat /\ t.lost \in Nat /\ t.keyTs \in Nat \cup {-1}
  BY <1>5, NextNumber DEF Tracks
<1>8. \A s \in Slots : t.cache[s].inUse => s < count /\ s < count' /\ t.cache[s].pkt = sent'[s]
                                           /\ sent'[s] = sent[s] /\ s \notin Fresh'
  <2>1. ASSUME NEW s \in Slots, t.cache[s].inUse
        PROVE  s < count /\ s < count' /\ t.cache[s].pkt = sent'[s]
               /\ sent'[s] = sent[s] /\ s \notin Fresh'
    <3>1. s < count /\ t.cache[s].pkt = sent[s] /\ s \notin Fresh
      BY <1>6, <2>1 DEF InPlace
    <3>2. s \in 0 .. count - 1 /\ s < count'
      BY <1>1, <3>1, Sizes DEF Slots
    <3>3. QED
      BY <1>1, <1>4, <3>1, <3>2
  <2>2. QED
    BY <2>1
<1>9. InPlace(Track, Fresh)'
  BY <1>3, <1>5, <1>8 DEF InPlace
<1>10. Settled(Track, Fresh)'
  <2>1. SUFFICES ASSUME t.lost < CacheSize, t.lost \in Fresh'
                 PROVE  /\ t.header <= t.lost
                        /\ \A j \in t.header .. t.lost - 1 :
                             t.cache[j].inUse /\ sent'[j].ts = sent'[t.header].ts
    BY <1>3, <1>5 DEF Settled
  <2>2. /\ t.header <= t.lost
        /\ \A j \in t.header .. t.lost - 1 :
             t.cache[j].inUse /\ sent[j].ts = sent[t.header].ts
    BY <1>4, <1>6, <2>1 DEF Settled
  <2>3. ASSUME NEW j \in t.header .. t.lost - 1 PROVE sent'[j].ts = sent'[t.header].ts
    <3>1. j \in Slots /\ t.header \in Slots /\ t.header \in t.header .. t.lost - 1
      BY <1>7, <2>1, <2>2, Sizes DEF Slots
    <3>2. t.cache[j].inUse /\ t.cache[t.header].inUse /\ sent[j].ts = sent[t.header].ts
      BY <2>2, <3>1
    <3>3. sent'[j] = sent[j] /\ sent'[t.header] = sent[t.header]
      BY <1>8, <3>1, <3>2
    <3>4. QED
      BY <3>2, <3>3
  <2>4. QED
    BY <2>2, <2>3
<1>11. KeyAhead(Track, Fresh)'
  <2>1. SUFFICES ASSUME t.keyTs # -1
                 PROVE  /\ t.keyTs <= count'
                        /\ \A m \in 0 .. count' - 1 :
                             sent'[m].marker /\ sent'[m].ts = t.keyTs
                               => t.header <= m \/ (m \notin Fresh' /\ ~t.cache[m].inUse)
    BY <1>3, <1>5 DEF KeyAhead
  <2>2. /\ t.keyTs <= count
        /\ \A m \in 0 .. count - 1 : sent[m].marker /\ sent[m].ts = t.keyTs
                            => t.header <= m \/ (m \notin Fresh /\ ~t.cache[m].inUse)
    BY <1>6, <2>1 DEF KeyAhead
  <2>3. ASSUME NEW m \in 0 .. count' - 1, sent'[m].marker, sent'[m].ts = t.keyTs
        PROVE  t.header <= m \/ (m \notin Fresh' /\ ~t.cache[m].inUse)
    <3>1. CASE m < count
      <4>1. m \in 0 .. count - 1
        BY <1>1, <3>1
      <4>2. sent'[m] = sent[m]
        BY <1>1, <4>1
      <4>3. QED
        BY <1>4, <2>2, <2>3, <4>1, <4>2
    <3>2. CASE ~(m < count)
      <4>1. PICK i \in 1 .. l : m = count + i - 1
        <5>1. m - count + 1 \in 1 .. l /\ m = count + (m - count + 1) - 1
          BY <1>1, <3>2
        <5>2. QED
          BY <5>1
      <4>2. sent'[m] = Numbered(pieces[i], m)
        BY <1>1, <4>1
      <4>3. sent'[m].ts = count + 1
        BY <4>2 DEF Numbered
      <4>4. QED
        BY <1>1, <1>7, <2>2, <2>3, <4>3
    <3>3. QED
      BY <3>1, <3>2
  <2>4. t.keyTs <= count'
    BY <1>1, <1>7, <2>1, <2>2
  <2>5. QED
    BY <2>3, <2>4
<1>12. QED
  BY <1>9, <1>10, <1>11 DEF Clean

(* A packet comes for the first time.                                       *)
LEMMA RtpKeepsClean ==
  ASSUME Quiet, Clean(Track, Fresh), NEW k \in Latest, OnRtp(k), k \notin came
  PROVE  Clean(Track, Fresh)' /\ (\A f \in ToSet(delivered) : Proper(f))'
<1>1. /\ Coming(sent[k]) \in Tracks /\ Unmixed(Coming(sent[k]))
      /\ Clean(Coming(sent[k]), Fresh \ {k})
  BY ComesClean
<1>2. PICK t \in Tracks : t = Coming(sent[k])
  BY <1>1
<1>3. Apply(t) /\ Unmixed(t) /\ Clean(t, Fresh \ {k})
  BY <1>1, <1>2, ComingIsNext DEF Quiet
<1>4. sent' = sent /\ count' = count /\ came' = came \cup {k} /\ k \in 0 .. count - 1
      /\ count \in Nat
  BY Sizes DEF OnRtp, Latest, Quiet, TrackTypeOK
<1>5. Fresh' = Fresh \ {k}
  <2>1. Latest' = Latest
    BY <1>4 DEF Latest
  <2>2. ASSUME NEW i \in Nat PROVE i \in Fresh' <=> i \in Fresh \ {k}
    <3>1. CASE i = k
      BY <1>4, <3>1 DEF Fresh
    <3>2. CASE i # k
      BY <1>4, <2>1, <3>2 DEF Fresh
    <3>3. QED
      BY <3>1, <3>2
  <2>3. QED
    BY <2>2 DEF Fresh
<1>6. PICK u : u = Track' /\ u.cache = t.cache /\ u.header = t.header /\ u.lost = t.lost
               /\ u.keyTs = t.keyTs
  <2>1. /\ Track'.cache = t.cache /\ Track'.header = t.header /\ Track'.lost = t.lost
        /\ Track'.keyTs = t.keyTs
    BY <1>3 DEF Apply, Track
  <2>2. QED
    BY <2>1
<1>7. PICK F : F = Fresh' /\ F = Fresh \ {k}
  BY <1>5
<1>8. InPlace(u, F) /\ Settled(u, F) /\ KeyAhead(u, F)
  BY <1>3, <1>6, <1>7 DEF Clean, InPlace, Settled, KeyAhead
<1>9. InPlace(Track, Fresh)'
  BY <1>4, <1>6, <1>7, <1>8 DEF InPlace
<1>10. Settled(Track, Fresh)'
  BY <1>4, <1>6, <1>7, <1>8 DEF Settled
<1>11. KeyAhead(Track, Fresh)'
  BY <1>4, <1>6, <1>7, <1>8 DEF KeyAhead
<1>12. (\A f \in ToSet(delivered) : Proper(f))'
  <2>1. delivered' = t.out
    BY <1>3 DEF Apply
  <2>2. DOMAIN delivered' = 1 .. Len(delivered')
    BY <2>1, LenProperties DEF Tracks
  <2>3. \A i \in 1 .. Len(delivered') : Proper(delivered'[i])
    BY <1>3, <2>1 DEF Unmixed
  <2>4. ASSUME NEW f \in ToSet(delivered') PROVE Proper(f)'
    <3>1. Proper(f)
      BY <2>2, <2>3 DEF ToSet
    <3>2. QED
      BY <1>4, <3>1 DEF Proper, FrameOfOne, Whole
  <2>5. QED
    BY <2>4
<1>13. QED
  BY <1>9, <1>10, <1>11, <1>12 DEF Clean

AllProper == FirstRound => \A f \in ToSet(delivered) : Proper(f)

Orderly == TrackTypeOK /\ Stream /\ FirstTime /\ AllProper

(* What is sent later is of another frame than what was delivered.          *)
LEMMA ProperStays ==
  ASSUME Quiet, NEW pieces \in Frames, SendFrame(pieces), NEW f, Proper(f)
  PROVE  Proper(f)'
<1> DEFINE l == Len(pieces)
<1>1. /\ l \in 1 .. 4 /\ count' = count + l /\ count \in Nat /\ count' \in Nat
      /\ \A k \in 0 .. count - 1 : sent'[k] = sent[k]
      /\ \A i \in 1 .. l : sent'[count + i - 1] = Numbered(pieces[i], count + i - 1)
  BY SentTyped, Sizes DEF Quiet
<1> HIDE DEF l
<1>2. ASSUME NEW i \in DOMAIN f PROVE \E j \in 0 .. count' - 1 : f[i] = sent'[j]
  <2>1. PICK j \in 0 .. count - 1 : f[i] = sent[j]
    BY DEF Proper
  <2>2. j \in 0 .. count' - 1 /\ sent'[j] = sent[j]
    BY <1>1
  <2>3. QED
    BY <2>1, <2>2
<1>3. ASSUME NEW i \in DOMAIN f, f[i].fu # {}, NEW k \in 0 .. count' - 1,
             sent'[k].ts = f[i].ts, sent'[k].fu # {}
      PROVE  sent'[k] \in ToSet(f)
  <2>1. PICK j \in 0 .. count - 1 : f[i] = sent[j]
    BY DEF Proper
  <2>2. sent[j].ts \in Nat /\ sent[j].ts <= j + 1
    BY SentFacts DEF InStream, Packet
  <2>3. k < count
    <3>1. SUFFICES ASSUME ~(k < count) PROVE FALSE
      OBVIOUS
    <3>2. PICK i1 \in 1 .. l : i1 = k - count + 1
      <4>1. k \in Nat /\ k <= count + l - 1 /\ count <= k
        BY <1>1, <3>1
      <4>2. QED
        BY <1>1, <4>1
    <3>3. sent'[k] = Numbered(pieces[i1], k)
      <4>1. count + i1 - 1 = k
        BY <1>1, <3>2
      <4>2. QED
        BY <1>1, <4>1
    <3>4. sent'[k].ts = count + 1
      BY <3>3 DEF Numbered
    <3>5. QED
      BY <1>1, <1>3, <2>1, <2>2, <3>4
  <2>4. k \in 0 .. count - 1 /\ sent'[k] = sent[k]
    BY <1>1, <2>3
  <2>5. QED
    BY <1>3, <2>4 DEF Proper, Whole
<1>4. QED
  BY <1>2, <1>3 DEF Proper, FrameOfOne, Whole

LEMMA OrderlyKept == Orderly /\ [TrackNext]_trackVars => Orderly'
<1>1. SUFFICES ASSUME Orderly, [TrackNext]_trackVars PROVE Orderly'
  OBVIOUS
<1>2. TrackTypeOK' /\ Stream'
  BY <1>1, TrackTypeKept, StreamKept DEF Orderly
<1>3. ASSUME NEW pieces \in Frames, SendFrame(pieces) PROVE FirstTime' /\ AllProper'
  <2>1. SUFFICES ASSUME ~repeated', count' <= CacheSize
                 PROVE  Clean(Track, Fresh)' /\ (\A f \in ToSet(delivered) : Proper(f))'
    BY DEF FirstTime, AllProper, FirstRound
  <2>2. ~repeated /\ delivered' = delivered
    BY <1>3, <2>1 DEF SendFrame
  <2>3. count <= CacheSize
    BY <1>1, <1>3, <2>1, SentTyped, Sizes DEF Orderly
  <2>4. Quiet /\ Clean(Track, Fresh) /\ \A f \in ToSet(delivered) : Proper(f)
    BY <1>1, <2>2, <2>3 DEF Orderly, FirstTime, AllProper, FirstRound, Quiet
  <2>5. Clean(Track, Fresh)'
    BY <1>3, <2>4, SendKeepsClean
  <2>6. ASSUME NEW f \in ToSet(delivered) PROVE Proper(f)'
    <3>1. Proper(f)
      BY <2>4
    <3>2. QED
      BY <1>3, <2>4, <3>1, ProperStays
  <2>7. QED
    BY <2>2, <2>5, <2>6
<1>4. ASSUME NEW k \in Latest, OnRtp(k) PROVE FirstTime' /\ AllProper'
  <2>1. SUFFICES ASSUME ~repeated', count' <= CacheSize
                 PROVE  Clean(Track, Fresh)' /\ (\A f \in ToSet(delivered) : Proper(f))'
    BY DEF FirstTime, AllProper, FirstRound
  <2>2. repeated' = (repeated \/ k \in came) /\ count' = count
    BY <1>4 DEF OnRtp
  <2>3. ~repeated /\ k \notin came /\ count <= CacheSize
    BY <2>1, <2>2
  <2>4. Quiet /\ Clean(Track, Fresh)
    BY <1>1, <2>3 DEF Orderly, FirstTime, FirstRound, Quiet
  <2>5. QED
    BY <1>4, <2>3, <2>4, RtpKeepsClean
<1>5. CASE UNCHANGED trackVars
  <2>1. /\ sent' = sent /\ count' = count /\ cache' = cache /\ header_sn' = header_sn
        /\ lost_sn' = lost_sn /\ key_frame_ts' = key_frame_ts /\ delivered' = delivered
        /\ came' = came /\ repeated' = repeated
    BY <1>5 DEF trackVars, track, history
  <2>2. FirstTime'
    BY <1>1, <2>1 DEF Orderly, FirstTime, FirstRound, Clean, InPlace, Settled, KeyAhead,
                      Track, Fresh, Latest
  <2>3. AllProper'
    BY <1>1, <2>1 DEF Orderly, AllProper, FirstRound, Proper, FrameOfOne, Whole
  <2>4. QED
    BY <1>2, <2>2, <2>3 DEF Orderly
<1>6. QED
  BY <1>1, <1>2, <1>3, <1>4, <1>5 DEF TrackNext, Orderly

LEMMA OrderlyAtFirst == TrackInit => Orderly
<1>1. SUFFICES ASSUME TrackInit PROVE Orderly
  OBVIOUS
<1>2. TrackTypeOK
  BY <1>1, TrackInitTyped
<1>3. Stream
  BY <1>1 DEF TrackInit, Stream
<1>4. AllProper
  BY <1>1 DEF TrackInit, AllProper, ToSet
<1>5. PICK t \in Tracks : t = Track /\ t.cache = cache /\ t.header = header_sn
                          /\ t.lost = lost_sn /\ t.keyTs = key_frame_ts
  BY <1>2, TrackTyped
<1>6. t.cache = EmptyCache /\ t.header = 0 /\ t.lost = 0 /\ t.keyTs = -1
  BY <1>1, <1>5 DEF TrackInit
<1>7. InPlace(t, Fresh)
  BY <1>6, EmptyTyped DEF InPlace
<1>8. Settled(t, Fresh)
  BY <1>6 DEF Settled
<1>9. KeyAhead(t, Fresh)
  BY <1>6 DEF KeyAhead
<1>10. QED
  BY <1>2, <1>3, <1>4, <1>5, <1>7, <1>8, <1>9 DEF Orderly, FirstTime, Clean

(* A frame delivered is made of packets of one frame of the sender, in      *)
(* order and without a gap, whatever is lost, late or overtaken, as long as *)
(* no packet came twice and no slot was due for a second packet             *)
(* (yang_playtrackH264_find_next_lost_sn, yang_playtrackH264_packet_video). *)
THEOREM FramesUnmixed == TrackSpec => []OneFrameAtATime
<1>1. Orderly => OneFrameAtATime
  BY DEF Orderly, AllProper, Proper, OneFrameAtATime, NeverMixed
<1>2. QED
  BY <1>1, OrderlyAtFirst, OrderlyKept, PTL DEF TrackSpec

(* No fragment is handed to the decoder without all the others the sender   *)
(* made of its NAL unit, under the same conditions: that as many packets    *)
(* are first as last fragments (yang_playtrackH264_check_frame_complete) is *)
(* enough, as between two packets of a time stamp none is left out and a    *)
(* frame ends at a marker.                                                  *)
THEOREM UnitsWhole == TrackSpec => []WholeNalUnits
<1>1. Orderly => WholeNalUnits
  BY DEF Orderly, AllProper, Proper, WholeNalUnits
<1>2. QED
  BY <1>1, OrderlyAtFirst, OrderlyKept, PTL DEF TrackSpec

-----------------------------------------------------------------------------
(* Packets that come in order after a key frame started. *)

(* The cache holds the packets from b on and before n, and no other.        *)
HoldsOnly(t, b, n) ==
  /\ \A s \in Slots : t.cache[s].inUse <=> \E m \in b .. n - 1 : s = m % CacheSize
  /\ \A m \in b .. n - 1 : t.cache[m % CacheSize].pkt = sent[m]

(* They are one frame from its first packet on, of which n is the next.     *)
BeginsFrame(b, n) ==
  ~Continues(sent[b]) /\ \A m \in b .. n - 1 : ~sent[m].marker

Awaits(t, b, n) ==
  /\ t.header = Plus(0, b) /\ t.lost = Plus(0, n) /\ HoldsOnly(t, b, n)
  /\ b = n => sent[n - 1].marker
  /\ b < n => BeginsFrame(b, n) /\ (sent[b].key => t.keyTs = sent[b].ts)

Flowing ==
  expect # -1 =>
    /\ expect > 0 /\ newest = sent[expect - 1].ts
    /\ \E b \in 0 .. expect : Awaits(Track, b, expect)

KeyReceived == key_frame_ts <= newest

LEMMA Apart ==
  ASSUME NEW d \in Nat \ {0}, NEW m \in Nat, NEW n \in Nat, m < n, n < m + d
  PROVE  m % d # n % d
<1>1. SUFFICES ASSUME m % d = n % d PROVE FALSE
  OBVIOUS
<1>2. PICK p \in Int, r \in 0 .. d - 1 : n = d * p + r /\ r = n % d
  BY DivMod
<1>3. PICK q \in Int, s \in 0 .. d - 1 : m = d * q + s /\ s = m % d
  BY DivMod
<1>4. d * p - d * q = d * (p - q) /\ p - q \in Int
  OBVIOUS
<1>5. d * (p - q) = n - m
  BY <1>1, <1>2, <1>3, <1>4
<1>6. ASSUME NEW k \in Int, d * k < d, d * k > -d PROVE d * k = 0
  BY <1>6
<1>7. d * (p - q) = 0
  BY <1>4, <1>5, <1>6
<1>8. QED
  BY <1>5, <1>7

LEMMA AheadOnRing ==
  ASSUME NEW b \in Nat, NEW d \in 0 .. SeqSpace - 1
  PROVE  AheadOf(Plus(0, b), Plus(0, b + d)) = d
<1>1. PICK x \in 0 .. SeqSpace - 1 : x = b % SeqSpace
  BY Sizes, DivMod
<1>2. SeqSpace \in Nat \ {0} /\ d \in Nat /\ x \in Nat /\ d < SeqSpace /\ x < SeqSpace
  BY <1>1, Sizes
<1> DEFINE S == SeqSpace
<1> HIDE DEF S
<1>3. Plus(0, b) = x /\ Plus(0, b + d) = (x + d) % S
  <2>1. ((b % S) + d) % S = (b + d) % S
    BY <1>2, RemainderOfSum DEF S
  <2>2. 0 + b = b /\ 0 + (b + d) = b + d
    BY <1>2
  <2>3. QED
    BY <1>1, <2>1, <2>2 DEF Plus, S
<1>4. CASE x + d < S
  <2>1. x + d = S * 0 + (x + d) /\ x + d \in 0 .. S - 1 /\ x + d \in Nat
    BY <1>2, <1>4 DEF S
  <2>2. (x + d) % S = x + d
    BY <1>2, <2>1, OneRemainder DEF S
  <2>3. QED
    BY <1>2, <1>3, <2>2 DEF AheadOf
<1>5. CASE ~(x + d < S)
  <2>1. x + d = S * 1 + (x + d - S) /\ x + d - S \in 0 .. S - 1 /\ x + d \in Nat
    BY <1>2, <1>5 DEF S
  <2>2. (x + d) % S = x + d - S
    BY <1>2, <2>1, OneRemainder DEF S
  <2>3. QED
    BY <1>2, <1>3, <2>2 DEF AheadOf, S
<1>6. QED
  BY <1>4, <1>5

(* A frame has four packets at most, of one time stamp and one kind.        *)
LEMMA FrameSoFar ==
  ASSUME TrackTypeOK, Stream, NEW b \in Nat, NEW k \in 0 .. count - 1, b <= k,
         \A m \in b .. k - 1 : ~sent[m].marker
  PROVE  /\ k \in {b, b + 1, b + 2, b + 3}
         /\ \A j \in b .. k : /\ InStream(sent, count, j) /\ sent[j] \in Packet
                              /\ sent[j].ts = sent[b].ts /\ sent[j].key = sent[b].key
<1>1. count \in Nat /\ k \in Nat /\ k < count
  BY Sizes DEF TrackTypeOK
<1>2. \A j \in b .. k : InStream(sent, count, j) /\ sent[j] \in Packet
  BY <1>1 DEF Stream, TrackTypeOK
<1>3. \A j \in b .. k - 1 : /\ ~sent[j].marker /\ Linked(sent[j], sent[j + 1])
                           /\ Kind(sent[j]) /\ Kind(sent[j + 1])
                           /\ sent[j + 1].ts = sent[j].ts /\ sent[j + 1].key = sent[j].key
  BY <1>1, <1>2, Inside
(* A packet inside of the frame that goes on is followed by the last one,   *)
(* or by one more.                                                          *)
<1>4. ASSUME NEW j \in b .. k - 1, j + 1 \in b .. k - 1, GoesOn(sent[j])
      PROVE  "middle" \in sent[j + 1].fu /\ j + 2 = k
  <2>1. Continues(sent[j + 1]) /\ ~sent[j + 1].marker /\ Kind(sent[j + 1])
    BY <1>3, <1>4 DEF Linked
  <2>2. "middle" \in sent[j + 1].fu
    BY <2>1 DEF Kind, Continues
  <2>3. j + 1 + 1 = j + 2 /\ Linked(sent[j + 1], sent[j + 2]) /\ Kind(sent[j + 2])
    <3>1. j + 1 + 1 = j + 2
      OBVIOUS
    <3>2. QED
      BY <1>3, <1>4, <3>1
  <2>4. sent[j + 2].marker
    BY <2>2, <2>3 DEF Linked, Kind
  <2>5. j + 2 \notin b .. k - 1
    BY <1>3, <2>4
  <2>6. QED
    BY <1>1, <1>4, <2>2, <2>5
<1>5. k \in {b, b + 1, b + 2, b + 3}
  <2>1. SUFFICES ASSUME b + 4 <= k PROVE FALSE
    BY <1>1
  <2>2. /\ b \in b .. k - 1 /\ b + 1 \in b .. k - 1 /\ b + 2 \in b .. k - 1
        /\ b + 1 + 1 = b + 2 /\ b + 2 # k /\ b + 1 + 2 # k
    BY <1>1, <2>1
  <2>3. ~GoesOn(sent[b]) /\ ~GoesOn(sent[b + 1])
    BY <1>4, <2>2
  <2>4. "start" \in sent[b + 1].fu
    BY <1>3, <2>2, <2>3 DEF Linked
  <2>5. QED
    BY <2>3, <2>4 DEF GoesOn
<1>6. ASSUME NEW j \in b .. k
      PROVE  sent[j].ts = sent[b].ts /\ sent[j].key = sent[b].key
  <2>1. b + 1 <= k => sent[b + 1].ts = sent[b].ts /\ sent[b + 1].key = sent[b].key
    <3>1. b + 1 <= k => b \in b .. k - 1
      BY <1>1
    <3>2. QED
      BY <1>3, <3>1
  <2>2. b + 2 <= k => sent[b + 2].ts = sent[b + 1].ts /\ sent[b + 2].key = sent[b + 1].key
    <3>1. b + 2 <= k => b + 1 \in b .. k - 1 /\ b + 1 + 1 = b + 2
      BY <1>1
    <3>2. QED
      BY <1>3, <3>1
  <2>3. b + 3 <= k => sent[b + 3].ts = sent[b + 2].ts /\ sent[b + 3].key = sent[b + 2].key
    <3>1. b + 3 <= k => b + 2 \in b .. k - 1 /\ b + 2 + 1 = b + 3
      BY <1>1
    <3>2. QED
      BY <1>3, <3>1
  <2>4. \/ j = b \/ (j = b + 1 /\ b + 1 <= k) \/ (j = b + 2 /\ b + 1 <= k /\ b + 2 <= k)
        \/ (j = b + 3 /\ b + 1 <= k /\ b + 2 <= k /\ b + 3 <= k)
    BY <1>1, <1>5
  <2>5. QED
    BY <2>1, <2>2, <2>3, <2>4
<1>7. QED
  BY <1>2, <1>5, <1>6

(* A number by its place in the stream.                                     *)
LEMMA Numbering ==
  ASSUME NEW n \in Nat
  PROVE  /\ Plus(0, n) \in SeqNo /\ Plus(0, n) % CacheSize = n % CacheSize
         /\ Plus(Plus(0, n), 0) = Plus(0, n) /\ Plus(Plus(0, n), 1) = Plus(0, n + 1)
         /\ n % CacheSize \in Slots
<1>1. 0 + n = n /\ n + 0 = n
  OBVIOUS
<1>2. Plus(0, n) \in SeqNo /\ Plus(0, n) % CacheSize = n % CacheSize
  BY <1>1, PlusFacts
<1>3. Plus(0, n) = n % SeqSpace
  BY <1>1 DEF Plus
<1>4. Plus(n % SeqSpace, 0) = Plus(0, n + 0) /\ Plus(n % SeqSpace, 1) = Plus(0, n + 1)
  BY PlusFacts
<1>5. QED
  BY <1>1, <1>2, <1>3, <1>4, SlotRange DEF Slots

(* What the code finds in the slot of a packet of the frame, and after.     *)
LEMMA SlotsSeen ==
  ASSUME TrackTypeOK, Stream, NEW b \in Nat, NEW k \in 0 .. count - 1, b <= k,
         BeginsFrame(b, k), NEW t \in Tracks, t.header = Plus(0, b), HoldsOnly(t, b, k + 1)
  PROVE  /\ \A j \in b .. k :
              LET sn == Plus(0, j)
              IN  /\ ~Missing(t, sn) /\ ~NewTime(t, sn) /\ Slot(t.cache, sn).pkt = sent[j]
         /\ Missing(t, Plus(0, k + 1))
<1>1. count \in Nat /\ k \in Nat
  BY Sizes DEF TrackTypeOK
<1>2. /\ k \in {b, b + 1, b + 2, b + 3}
      /\ \A j \in b .. k : sent[j].ts = sent[b].ts
  BY FrameSoFar DEF BeginsFrame
<1>3. b .. (k + 1) - 1 = b .. k
  BY <1>1
<1>4. ASSUME NEW j \in b .. k
      PROVE  Slot(t.cache, Plus(0, j)).inUse /\ Slot(t.cache, Plus(0, j)).pkt = sent[j]
  <2>1. j \in Nat
    BY <1>1
  <2>2. Slot(t.cache, Plus(0, j)) = t.cache[j % CacheSize] /\ j % CacheSize \in Slots
    BY <2>1, Numbering DEF Slot
  <2>3. QED
    BY <1>3, <2>2 DEF HoldsOnly
<1>5. b \in b .. k
  BY <1>1
<1>6. Slot(t.cache, t.header).pkt = sent[b]
  BY <1>4, <1>5
<1>7. ASSUME NEW j \in b .. k
      PROVE  ~Missing(t, Plus(0, j)) /\ ~NewTime(t, Plus(0, j))
  BY <1>2, <1>4, <1>6 DEF Missing, NewTime, OtherTime
<1>8. Missing(t, Plus(0, k + 1))
  <2>1. k + 1 \in Nat
    BY <1>1
  <2>2. Slot(t.cache, Plus(0, k + 1)) = t.cache[(k + 1) % CacheSize]
        /\ (k + 1) % CacheSize \in Slots
    BY <2>1, Numbering DEF Slot
  <2>3. ASSUME NEW m \in b .. k PROVE (k + 1) % CacheSize # m % CacheSize
    <3>1. m \in Nat /\ m < k + 1 /\ k + 1 < m + CacheSize
      BY <1>1, <1>2, Sizes
    <3>2. QED
      BY <2>1, <3>1, Sizes, Apart
  <2>4. QED
    BY <1>3, <2>2, <2>3 DEF HoldsOnly, Missing
<1>9. QED
  BY <1>4, <1>7, <1>8

LEMMA FlowingSearch ==
  ASSUME TrackTypeOK, Stream, NEW b \in Nat, NEW k \in 0 .. count - 1, b <= k,
         BeginsFrame(b, k), NEW t \in Tracks, t.header = Plus(0, b), HoldsOnly(t, b, k + 1)
  PROVE  FindNextLost(t, Plus(0, k)) =
           IF sent[k].marker THEN [kind |-> "frame", sn |-> Plus(0, k)]
           ELSE [kind |-> "lost", sn |-> Plus(0, k + 1)]
<1> DEFINE current == Plus(0, k)
           found == FindNextLost(t, current)
<1>1. k \in Nat /\ k \in b .. k
  BY Sizes DEF TrackTypeOK
<1>2. Plus(current, 0) = Plus(0, k) /\ Plus(current, 1) = Plus(0, k + 1)
  BY <1>1, Numbering
<1>3. /\ ~Missing(t, Plus(0, k)) /\ ~NewTime(t, Plus(0, k))
      /\ Slot(t.cache, Plus(0, k)).pkt = sent[k]
      /\ Missing(t, Plus(0, k + 1))
  BY <1>1, SlotsSeen
<1>4. /\ Stops(t, Plus(current, 0)) <=> sent[k].marker
      /\ Stops(t, Plus(current, 1))
  BY <1>2, <1>3 DEF Stops
<1>5. 0 \in Slots /\ 1 \in Slots
  BY Sizes DEF Slots
<1> HIDE DEF current, found
<1>6. PICK i \in Slots : EndsAt(t, current, i, found)
  BY <1>4, <1>5, SearchEnds DEF NeverEnds, found
<1>7. i \in Nat
  BY Sizes DEF Slots
<1>8. Stops(t, Plus(current, i)) /\ \A j \in 0 .. i - 1 : ~Stops(t, Plus(current, j))
  BY <1>6 DEF EndsAt, LostAt, TimeAt, MarkerAt, Stops
<1>9. CASE sent[k].marker
  <2>1. i = 0
    <3>1. i # 0 => 0 \in 0 .. i - 1
      BY <1>7
    <3>2. QED
      BY <1>4, <1>8, <1>9, <3>1
  <2>2. found = [kind |-> "frame", sn |-> Plus(0, k)]
    BY <1>2, <1>3, <1>6, <2>1 DEF EndsAt, LostAt, TimeAt, MarkerAt
  <2>3. QED
    BY <1>9, <2>2 DEF found, current
<1>10. CASE ~sent[k].marker
  <2>1. i # 0
    BY <1>4, <1>8, <1>10
  <2>2. i = 1
    <3>1. i > 1 => 1 \in 0 .. i - 1
      BY <1>7
    <3>2. QED
      BY <1>4, <1>7, <1>8, <2>1, <3>1
  <2>3. found = [kind |-> "lost", sn |-> Plus(0, k + 1)]
    BY <1>2, <1>3, <1>6, <2>2 DEF EndsAt, LostAt, TimeAt, MarkerAt
  <2>4. QED
    BY <1>10, <2>3 DEF found, current
<1>11. QED
  BY <1>9, <1>10

(* A search from a slot that is empty.                                      *)
LEMMA EmptySearch ==
  ASSUME NEW t \in Tracks, NEW n \in Nat, Missing(t, Plus(0, n))
  PROVE  FindNextLost(t, Plus(0, n)) = [kind |-> "lost", sn |-> Plus(0, n)]
<1> DEFINE current == Plus(0, n)
           found == FindNextLost(t, current)
<1>1. Plus(current, 0) = current
  BY Numbering
<1>2. Stops(t, Plus(current, 0)) /\ Missing(t, current)
  BY <1>1 DEF Stops
<1>3. 0 \in Slots
  BY Sizes DEF Slots
<1> HIDE DEF current, found
<1>4. PICK i \in Slots : EndsAt(t, current, i, found)
  BY <1>2, <1>3, SearchEnds DEF NeverEnds, found
<1>5. i = 0
  <2>1. i \in Nat
    BY Sizes DEF Slots
  <2>2. i # 0 => 0 \in 0 .. i - 1
    BY <2>1
  <2>3. QED
    BY <1>2, <1>4, <2>2 DEF EndsAt
<1>6. found = [kind |-> "lost", sn |-> current]
  BY <1>1, <1>2, <1>4, <1>5 DEF EndsAt, LostAt, TimeAt, MarkerAt
<1>7. QED
  BY <1>6 DEF found, current

(* The last packet of the frame completes it, and the cache is empty.       *)
LEMMA FlowingFrame ==
  ASSUME TrackTypeOK, Stream, NEW b \in Nat, NEW k \in 0 .. count - 1, b <= k,
         BeginsFrame(b, k), sent[k].marker,
         NEW t \in Tracks, t.header = Plus(0, b), HoldsOnly(t, b, k + 1)
  PROVE  LET u == PacketVideo(t, Plus(0, k))
         IN  /\ FrameComplete(t, Plus(0, k))
             /\ u \in Tracks /\ u.header = Plus(0, k + 1) /\ Len(u.out) = Len(t.out) + 1
             /\ \A s \in Slots : ~u.cache[s].inUse
<1> DEFINE end == Plus(0, k)
           numbers == FrameNumbers(t, end)
           n == k - b + 1
           u == PacketVideo(t, end)
           starts == {i \in 1 .. n : "start" \in sent[b + i - 1].fu}
           ends == {i \in 1 .. n : "end" \in sent[b + i - 1].fu}
<1>1. /\ count \in Nat /\ k \in Nat /\ k \in {b, b + 1, b + 2, b + 3}
      /\ \A j \in b .. k : InStream(sent, count, j)
  <2>1. \A m \in b .. k - 1 : ~sent[m].marker
    BY DEF BeginsFrame
  <2>2. k \in {b, b + 1, b + 2, b + 3} /\ \A j \in b .. k : InStream(sent, count, j)
    BY <2>1, FrameSoFar
  <2>3. count \in Nat /\ k \in Nat
    BY Sizes DEF TrackTypeOK
  <2>4. QED
    BY <2>2, <2>3
<1>2. k - b \in 0 .. SeqSpace - 1 /\ b + (k - b) = k /\ n \in Nat \ {0}
  BY <1>1, Sizes
<1>3. end \in SeqNo /\ Plus(end, 1) = Plus(0, k + 1)
  BY <1>1, Numbering
<1>4. AheadOf(t.header, end) + 1 = n
  <2>1. AheadOf(Plus(0, b), Plus(0, b + (k - b))) = k - b
    BY <1>2, AheadOnRing
  <2>2. QED
    BY <1>2, <2>1
<1>5. DOMAIN numbers = 1 .. n /\ \A i \in 1 .. n : numbers[i] = Plus(t.header, i - 1)
  BY <1>3, <1>4, NumbersTyped
<1> HIDE DEF end, numbers, n, u
<1>6. \A i \in 1 .. n : numbers[i] = Plus(0, b + i - 1)
  <2>1. ASSUME NEW i \in 1 .. n PROVE Plus(Plus(0, b), i - 1) = Plus(0, b + i - 1)
    <3>1. i - 1 \in Nat /\ b + (i - 1) = b + i - 1 /\ 0 + b = b
      BY <1>2
    <3>2. Plus(b % SeqSpace, i - 1) = Plus(0, b + (i - 1))
      BY <3>1, PlusFacts
    <3>3. QED
      BY <3>1, <3>2 DEF Plus
  <2>2. QED
    BY <1>5, <2>1
<1>7. ASSUME NEW i \in 1 .. n PROVE Slot(t.cache, numbers[i]).pkt = sent[b + i - 1]
  <2>1. b + i - 1 \in b .. k
    BY <1>1 DEF n
  <2>2. QED
    BY <1>6, <2>1, SlotsSeen
<1>8. Cardinality(starts) = Cardinality(ends)
  <2>1. \A j \in b .. k - 1 : ~sent[j].marker
    BY DEF BeginsFrame
  <2>2. ~Continues(sent[b]) /\ b <= k /\ k < count
    BY <1>1 DEF BeginsFrame
  <2>3. QED
    BY <1>1, <2>1, <2>2, EndsMeet DEF n
<1>9. FrameComplete(t, end)
  <2>1. {i \in DOMAIN numbers : "start" \in Slot(t.cache, numbers[i]).pkt.fu} = starts
    BY <1>5, <1>7
  <2>2. {i \in DOMAIN numbers : "end" \in Slot(t.cache, numbers[i]).pkt.fu} = ends
    BY <1>5, <1>7
  <2> HIDE DEF starts, ends
  <2>3. QED
    BY <1>8, <2>1, <2>2 DEF FrameComplete, numbers
<1>10. /\ u \in Tracks /\ u.header = Plus(0, k + 1)
       /\ \A s \in Slots : IF s \in Leaving(t, end) THEN ~u.cache[s].inUse
                           ELSE u.cache[s] = t.cache[s]
  BY <1>3, PacketVideoFacts DEF u
<1>11. Len(u.out) = Len(t.out) + 1
  BY <1>3, OneMoreFrame DEF u
<1>12. ASSUME NEW s \in Slots PROVE ~u.cache[s].inUse
  <2>1. CASE s \in Leaving(t, end)
    BY <1>10, <2>1
  <2>2. CASE s \notin Leaving(t, end)
    <3>1. SUFFICES ASSUME t.cache[s].inUse PROVE s \in Leaving(t, end)
      BY <1>10, <2>2
    <3>2. PICK m \in b .. (k + 1) - 1 : s = m % CacheSize
      BY <3>1 DEF HoldsOnly
    <3>3. m - b + 1 \in 1 .. n /\ b + (m - b + 1) - 1 = m /\ m \in Nat
      BY <1>1 DEF n
    <3>4. numbers[m - b + 1] = Plus(0, m)
      BY <1>6, <3>3
    <3>5. numbers[m - b + 1] % CacheSize = s
      BY <3>2, <3>3, <3>4, Numbering
    <3>6. QED
      BY <1>5, <3>3, <3>5 DEF Leaving, numbers
  <2>3. QED
    BY <2>1, <2>2
<1>13. QED
  BY <1>9, <1>10, <1>11, <1>12 DEF u, end

(* The search from the packet that just came, and the loop after it.        *)
LEMMA FlowingOn ==
  ASSUME TrackTypeOK, Stream, NEW b \in Nat, NEW k \in 0 .. count - 1, b <= k,
         BeginsFrame(b, k), NEW t \in Tracks, t.header = Plus(0, b), HoldsOnly(t, b, k + 1),
         t.out = <<>>, sent[b].key => t.keyTs = sent[b].ts
  PROVE  LET u == Drain(t, FindNextLost(t, Plus(0, k)))
         IN  u \in Tracks /\ \E c \in 0 .. k + 1 : Awaits(u, c, k + 1)
<1> DEFINE found == FindNextLost(t, Plus(0, k))
           waiting == {u \in Tracks : ~sent[k].marker /\ Awaits(u, b, k + 1) /\ Len(u.out) = 0}
           done == {u \in Tracks : /\ sent[k].marker /\ u.header = Plus(0, k + 1)
                                   /\ Len(u.out) = 1 /\ \A s \in Slots : ~u.cache[s].inUse}
           ended == {u \in done : u.lost = Plus(0, k + 1)}
           Inv == [n \in 0 .. CacheSize |-> IF n = 0 THEN waiting \cup done
                                            ELSE waiting \cup ended]
<1>1. k \in Nat /\ k + 1 \in Nat /\ Plus(0, k) \in SeqNo /\ Plus(0, k + 1) \in SeqNo
  <2>1. k \in Nat /\ k + 1 \in Nat
    BY Sizes DEF TrackTypeOK
  <2>2. QED
    BY <2>1, Numbering
<1>2. found \in Results
  BY <1>1, SearchTyped
<1>3. found = IF sent[k].marker THEN [kind |-> "frame", sn |-> Plus(0, k)]
              ELSE [kind |-> "lost", sn |-> Plus(0, k + 1)]
  BY FlowingSearch
<1>4. Len(t.out) = 0
  BY EmptySeq
<1> HIDE DEF found
<1>5. ASSUME sent[k].marker PROVE After(t, found) \in done
  <2>1. found.kind = "frame" /\ found.sn = Plus(0, k)
    BY <1>3, <1>5
  <2>2. FrameComplete(t, Plus(0, k))
    BY <1>5, FlowingFrame
  <2>3. After(t, found) = PacketVideo(t, Plus(0, k))
    BY <2>1, <2>2 DEF After
  <2> DEFINE u == PacketVideo(t, Plus(0, k))
  <2>4. /\ u \in Tracks /\ u.header = Plus(0, k + 1) /\ Len(u.out) = Len(t.out) + 1
        /\ \A s \in Slots : ~u.cache[s].inUse
    BY <1>5, FlowingFrame
  <2> HIDE DEF u
  <2>5. QED
    BY <1>4, <1>5, <2>3, <2>4 DEF u
<1>6. ASSUME ~sent[k].marker PROVE After(t, found) \in waiting
  <2> DEFINE u == After(t, found)
  <2>1. u = [t EXCEPT !.lost = Plus(0, k + 1)]
    BY <1>3, <1>6 DEF After
  <2>2. u \in Tracks
    BY <1>2, AfterCases
  <2>3. /\ u.header = t.header /\ u.lost = Plus(0, k + 1) /\ u.cache = t.cache
        /\ u.keyTs = t.keyTs /\ u.out = t.out
    BY <2>1 DEF Tracks
  <2> HIDE DEF u
  <2>4. BeginsFrame(b, k + 1)
    <3>1. ASSUME NEW m \in b .. (k + 1) - 1 PROVE ~sent[m].marker
      <4>1. CASE m = k
        BY <1>6, <4>1
      <4>2. CASE m # k
        <5>1. m \in b .. k - 1
          BY <1>1, <4>2
        <5>2. QED
          BY <5>1 DEF BeginsFrame
      <4>3. QED
        BY <4>1, <4>2
    <3>2. QED
      BY <3>1 DEF BeginsFrame
  <2>5. HoldsOnly(u, b, k + 1)
    BY <2>3 DEF HoldsOnly
  <2>6. b < k + 1
    BY <1>1
  <2>7. Awaits(u, b, k + 1)
    BY <2>3, <2>4, <2>5, <2>6 DEF Awaits
  <2>8. QED
    BY <1>4, <1>6, <2>2, <2>3, <2>7 DEF u
<1> HIDE DEF waiting, done
<1>7. After(t, found) \in waiting \cup done
  BY <1>5, <1>6
<1>8. ASSUME NEW u \in done PROVE After(u, FindNextLost(u, u.header)) \in ended
  <2> DEFINE sn == Plus(0, k + 1)
             v == After(u, FindNextLost(u, u.header))
  <2>1. /\ u \in Tracks /\ u.header = sn /\ Len(u.out) = 1 /\ sent[k].marker
        /\ \A s \in Slots : ~u.cache[s].inUse
    BY DEF done
  <2>2. FindNextLost(u, sn) = [kind |-> "lost", sn |-> sn]
    <3>1. sn % CacheSize \in Slots
      BY <1>1, Numbering
    <3>2. Missing(u, sn)
      BY <2>1, <3>1 DEF Missing, Slot
    <3>3. QED
      BY <1>1, <2>1, <3>2, EmptySearch
  <2> HIDE DEF sn
  <2>3. v = [u EXCEPT !.lost = sn]
    BY <2>1, <2>2 DEF After
  <2>4. v \in Tracks
    BY <1>1, <2>1, <2>3 DEF Tracks, sn
  <2>5. v.header = u.header /\ v.lost = sn /\ v.out = u.out /\ v.cache = u.cache
    BY <2>1, <2>3 DEF Tracks
  <2> HIDE DEF v
  <2>6. v \in ended
    BY <2>1, <2>4, <2>5 DEF done, sn
  <2>7. QED
    BY <2>6 DEF v
<1>9. \A u \in waiting : Len(u.out) = 0
  BY DEF waiting
<1>10. \A u \in ended : Len(u.out) = 1
  BY DEF done
<1> HIDE DEF ended
<1>11. ASSUME NEW n \in 1 .. CacheSize, NEW u \in Tracks, u \in Inv[n - 1]
       PROVE  Turn(u, n) \in Inv[n]
  <2>1. n \in Nat /\ n # 0 /\ n - 1 \in 0 .. CacheSize /\ n \in 0 .. CacheSize
    BY Sizes
  <2>2. Inv[n] = waiting \cup ended
    BY <2>1
  <2>3. CASE u \in waiting
    <3>1. Len(u.out) < n
      BY <1>9, <2>1, <2>3
    <3>2. QED
      BY <2>2, <2>3, <3>1 DEF Turn
  <2>4. CASE n = 1 /\ u \in done
    <3>1. Len(u.out) = 1 /\ u \in done
      BY <2>4 DEF done
    <3>2. ~(Len(u.out) < n)
      BY <2>4, <3>1
    <3>3. QED
      BY <1>8, <2>2, <3>1, <3>2 DEF Turn
  <2>5. CASE n # 1 /\ u \in ended
    <3>1. Len(u.out) = 1 /\ 1 < n
      <4>1. Len(u.out) = 1
        BY <1>10, <2>5
      <4>2. 1 < n
        BY <2>1, <2>5
      <4>3. QED
        BY <4>1, <4>2
    <3>2. QED
      BY <2>2, <2>5, <3>1 DEF Turn
  <2>6. u \in waiting \/ (n = 1 /\ u \in done) \/ (n # 1 /\ u \in ended)
    <3>1. CASE n = 1
      <4>1. Inv[n - 1] = waiting \cup done
        BY <2>1, <3>1
      <4>2. QED
        BY <1>11, <3>1, <4>1
    <3>2. CASE n # 1
      <4>1. Inv[n - 1] = waiting \cup ended
        BY <2>1, <3>2
      <4>2. QED
        BY <1>11, <3>2, <4>1
    <3>3. QED
      BY <3>1, <3>2
  <2>7. QED
    BY <2>3, <2>4, <2>5, <2>6
<1>12. After(t, found) \in Inv[0]
  <2>1. 0 \in 0 .. CacheSize
    BY Sizes
  <2>2. QED
    BY <1>7, <2>1
<1>13. CacheSize \in 0 .. CacheSize /\ CacheSize # 0
  BY Sizes
<1> DEFINE u == Drain(t, found)
<1> HIDE DEF Inv
<1>14. u \in Tracks /\ u \in Inv[CacheSize]
  BY <1>2, <1>11, <1>12, DrainKeeps
<1> HIDE DEF u
<1>15. u \in waiting \/ u \in ended
  BY <1>13, <1>14 DEF Inv
<1>16. \E c \in 0 .. k + 1 : Awaits(u, c, k + 1)
  <2>1. CASE u \in waiting
    <3>1. b \in 0 .. k + 1 /\ Awaits(u, b, k + 1)
      BY <1>1, <2>1 DEF waiting
    <3>2. QED
      BY <3>1
  <2>2. CASE u \in ended
    <3>1. /\ u.header = Plus(0, k + 1) /\ u.lost = Plus(0, k + 1) /\ sent[k].marker
          /\ \A s \in Slots : ~u.cache[s].inUse
      BY <2>2 DEF ended, done
    <3>2. k + 1 - 1 = k /\ k + 1 \in 0 .. k + 1 /\ ~(k + 1 < k + 1) /\ (k + 1) .. k = {}
      BY <1>1
    <3>3. HoldsOnly(u, k + 1, k + 1)
      BY <3>1, <3>2 DEF HoldsOnly
    <3>4. Awaits(u, k + 1, k + 1)
      BY <3>1, <3>2, <3>3 DEF Awaits
    <3>5. QED
      BY <3>2, <3>4
  <2>3. QED
    BY <1>15, <2>1, <2>2
<1>17. QED
  BY <1>14, <1>16 DEF u, found

(* The first packet of a new key frame: nothing is left of what was before. *)
LEMMA KeyFrameStarts ==
  ASSUME TrackTypeOK, Stream, KeyReceived, NEW k \in Latest, StartsKeyFrame(sent[k])
  PROVE  LET t == Coming(sent[k])
         IN  t \in Tracks /\ \E c \in 0 .. k + 1 : Awaits(t, c, k + 1)
<1> DEFINE pkt == sent[k]
           b == Begun(pkt)
<1>1. /\ k \in 0 .. count - 1 /\ k \in Nat /\ pkt \in Packet /\ InStream(sent, count, k)
      /\ newest \in Nat /\ key_frame_ts \in Nat \cup {-1}
  BY Sizes DEF Latest, TrackTypeOK, Stream
<1>2. pkt.sn = Plus(0, k) /\ pkt.sn \in SeqNo /\ pkt.ts \in Nat
  BY <1>1 DEF InStream, Packet
<1>3. pkt.key /\ pkt.ts > newest /\ pkt.fu = {} /\ ~pkt.marker
  BY DEF StartsKeyFrame
<1>4. pkt.ts # key_frame_ts
  BY <1>1, <1>2, <1>3 DEF KeyReceived
<1>5. pkt.sn % CacheSize = k % CacheSize /\ k % CacheSize \in Slots
  BY <1>1, <1>2, Numbering
<1>6. /\ b \in Tracks /\ b.cache[k % CacheSize] = [inUse |-> TRUE, pkt |-> pkt]
      /\ b.header = pkt.sn /\ b.lost = Succ(pkt.sn) /\ b.keyTs = pkt.ts
      /\ \A s \in Slots : s # k % CacheSize => ~b.cache[s].inUse
  BY <1>1, <1>3, <1>4, <1>5, BegunCases
<1>7. Succ(pkt.sn) # pkt.sn /\ SeqDistance(pkt.sn, pkt.sn) = 0
  BY <1>2, Sizes DEF Succ, SeqDistance, AheadOf, SeqNo
<1>8. Coming(pkt) = b
  <2>1. ~Earlier(pkt)
    BY <1>6, <1>7 DEF Earlier
  <2>2. b.lost # pkt.sn
    BY <1>6, <1>7
  <2>3. QED
    BY <2>1, <2>2 DEF Coming
<1>9. Succ(pkt.sn) = Plus(0, k + 1)
  <2>1. Plus(pkt.sn, 1) = Plus(0, k + 1)
    BY <1>1, <1>2, Numbering
  <2>2. CASE pkt.sn = SeqSpace - 1
    <3>1. SeqSpace = SeqSpace * 1 + 0 /\ 0 \in 0 .. SeqSpace - 1 /\ SeqSpace \in Nat \ {0}
      BY Sizes
    <3>2. SeqSpace % SeqSpace = 0
      BY <3>1, OneRemainder
    <3>3. pkt.sn + 1 = SeqSpace
      BY <2>2, <3>1
    <3>4. QED
      BY <2>1, <2>2, <3>2, <3>3 DEF Plus, Succ
  <2>3. CASE pkt.sn # SeqSpace - 1
    <3>1. pkt.sn \in Nat /\ 1 \in Nat /\ pkt.sn + 1 < SeqSpace
      BY <1>2, <2>3, Sizes DEF SeqNo
    <3>2. Plus(pkt.sn, 1) = pkt.sn + 1
      BY <3>1, SmallPlus
    <3>3. QED
      BY <2>1, <2>3, <3>2 DEF Succ
  <2>4. QED
    BY <2>2, <2>3
<1> HIDE DEF b, pkt
<1>10. k .. (k + 1) - 1 = {k}
  BY <1>1
<1>11. HoldsOnly(b, k, k + 1)
  <2>1. ASSUME NEW s \in Slots
        PROVE  b.cache[s].inUse <=> \E m \in k .. (k + 1) - 1 : s = m % CacheSize
    <3>1. CASE s = k % CacheSize
      BY <1>6, <1>10, <3>1
    <3>2. CASE s # k % CacheSize
      BY <1>6, <1>10, <3>2
    <3>3. QED
      BY <3>1, <3>2
  <2>2. ASSUME NEW m \in k .. (k + 1) - 1 PROVE b.cache[m % CacheSize].pkt = sent[m]
    <3>1. m = k
      BY <1>10
    <3>2. QED
      BY <1>6, <3>1 DEF pkt
  <2>3. QED
    BY <2>1, <2>2 DEF HoldsOnly
<1>12. BeginsFrame(k, k + 1)
  BY <1>3, <1>10 DEF BeginsFrame, Continues, pkt
<1>13. k < k + 1 /\ k \in 0 .. k + 1 /\ k # k + 1
  BY <1>1
<1>14. Awaits(b, k, k + 1)
  <2>1. b.header = Plus(0, k) /\ b.lost = Plus(0, k + 1) /\ b.keyTs = sent[k].ts
    BY <1>2, <1>6, <1>9 DEF pkt
  <2>2. QED
    BY <1>11, <1>12, <1>13, <2>1 DEF Awaits
<1>15. QED
  BY <1>6, <1>8, <1>13, <1>14 DEF pkt

(* The next packet comes.                                                   *)
LEMMA NextComes ==
  ASSUME TrackTypeOK, Stream, KeyReceived, Flowing, expect # -1, NEW k \in Latest,
         k = expect, ~StartsKeyFrame(sent[k])
  PROVE  LET t == Coming(sent[k])
         IN  t \in Tracks /\ \E c \in 0 .. k + 1 : Awaits(t, c, k + 1)
<1> DEFINE pkt == sent[k]
           t == Begun(pkt)
<1>1. /\ k \in 0 .. count - 1 /\ k \in Nat /\ pkt \in Packet /\ InStream(sent, count, k)
      /\ newest \in Nat /\ key_frame_ts \in Nat \cup {-1} /\ count \in Nat
  BY Sizes DEF Latest, TrackTypeOK, Stream
<1>2. pkt.sn = Plus(0, k) /\ pkt.sn \in SeqNo /\ pkt.ts \in Nat /\ pkt.key \in BOOLEAN
  BY <1>1 DEF InStream, Packet
<1>3. k > 0 /\ newest = sent[k - 1].ts
  BY DEF Flowing
<1>4. PICK b \in 0 .. k : Awaits(Track, b, k)
  BY DEF Flowing
<1>5. b \in Nat /\ k \in Nat /\ b <= k /\ (b = k \/ b < k)
  BY <1>1
<1>6. /\ Track.cache = cache /\ Track.header = header_sn /\ Track.lost = lost_sn
      /\ Track.keyTs = key_frame_ts
  BY TrackTyped
<1>7. /\ header_sn = Plus(0, b) /\ lost_sn = Plus(0, k)
      /\ \A s \in Slots : cache[s].inUse <=> \E m \in b .. k - 1 : s = m % CacheSize
      /\ \A m \in b .. k - 1 : cache[m % CacheSize].pkt = sent[m]
  BY <1>4, <1>6 DEF Awaits, HoldsOnly
<1>8. b = k => sent[k - 1].marker
  BY <1>4 DEF Awaits
<1>9. b < k => /\ ~Continues(sent[b])
               /\ \A m \in b .. k - 1 : ~sent[m].marker
               /\ sent[b].key => key_frame_ts = sent[b].ts
  BY <1>4, <1>6 DEF Awaits, BeginsFrame
<1>10. k - 1 \in 0 .. count - 1 /\ InStream(sent, count, k - 1) /\ k - 1 + 1 = k /\ k < count
       /\ sent[k - 1] \in Packet
  <2>1. k - 1 \in 0 .. count - 1 /\ k - 1 + 1 = k /\ k < count
    BY <1>1, <1>3
  <2>2. QED
    BY <2>1 DEF Stream, TrackTypeOK
<1>11. BeginsFrame(b, k)
  <2>1. CASE b = k
    <3>1. sent[k - 1].marker
      BY <1>8, <2>1
    <3>2. Continued(sent[k - 1], sent[k])
      BY <1>10 DEF InStream
    <3>3. ~Continues(sent[k])
      BY <3>1, <3>2 DEF Continued
    <3>4. k .. k - 1 = {}
      BY <1>1
    <3>5. QED
      BY <2>1, <3>3, <3>4 DEF BeginsFrame
  <2>2. CASE b < k
    BY <1>9, <2>2 DEF BeginsFrame
  <2>3. QED
    BY <1>5, <2>1, <2>2
<1>12. k \in {b, b + 1, b + 2, b + 3} /\ sent[k].ts = sent[b].ts /\ sent[k].key = sent[b].key
  <2>1. \A m \in b .. k - 1 : ~sent[m].marker
    BY <1>11 DEF BeginsFrame
  <2>2. k \in b .. k
    BY <1>1, <1>5
  <2>3. QED
    BY <1>1, <1>5, <2>1, <2>2, FrameSoFar
<1> HIDE DEF pkt
(* A new key frame would have started.                                      *)
<1>13. sent[b].key => b < k /\ key_frame_ts = sent[b].ts
  <2>1. SUFFICES ASSUME sent[b].key, b = k PROVE FALSE
    BY <1>5, <1>9
  <2>2. sent[k].fu = {} /\ ~sent[k].marker
    BY <1>1, <1>8, <2>1 DEF InStream
  <2>3. sent[k].ts > sent[k - 1].ts
    <3>1. sent[k - 1].marker /\ Continued(sent[k - 1], sent[k - 1 + 1])
      BY <1>8, <1>10, <2>1 DEF InStream
    <3>2. sent[k - 1].ts < sent[k].ts
      BY <1>10, <3>1 DEF Continued
    <3>3. sent[k - 1].ts \in Nat /\ sent[k].ts \in Nat
      BY <1>1, <1>2, <1>10 DEF Packet, pkt
    <3>4. QED
      BY <3>2, <3>3
  <2>4. QED
    BY <1>3, <2>1, <2>2, <2>3 DEF StartsKeyFrame
<1>14. ~(pkt.key /\ pkt.ts # key_frame_ts)
  BY <1>12, <1>13 DEF pkt
<1>15. pkt.sn % CacheSize = k % CacheSize /\ k % CacheSize \in Slots
  BY <1>1, <1>2, Numbering
<1>16. /\ t \in Tracks /\ t.out = <<>>
       /\ t.cache[k % CacheSize] = [inUse |-> TRUE, pkt |-> pkt]
       /\ t.header = header_sn /\ t.lost = lost_sn /\ t.keyTs = key_frame_ts
       /\ \A s \in Slots : s # k % CacheSize => t.cache[s] = cache[s]
  BY <1>1, <1>14, <1>15, BegunCases
<1> HIDE DEF t
<1>17. b .. (k + 1) - 1 = (b .. k - 1) \cup {k}
  BY <1>1, <1>5
<1>18. HoldsOnly(t, b, k + 1)
  <2>1. ASSUME NEW s \in Slots
        PROVE  t.cache[s].inUse <=> \E m \in b .. (k + 1) - 1 : s = m % CacheSize
    <3>1. CASE s = k % CacheSize
      BY <1>16, <1>17, <3>1
    <3>2. CASE s # k % CacheSize
      BY <1>7, <1>16, <1>17, <3>2
    <3>3. QED
      BY <3>1, <3>2
  <2>2. ASSUME NEW m \in b .. (k + 1) - 1 PROVE t.cache[m % CacheSize].pkt = sent[m]
    <3>1. CASE m = k
      BY <1>16, <3>1 DEF pkt
    <3>2. CASE m # k
      <4>1. m \in b .. k - 1 /\ m \in Nat /\ m < k /\ k < m + CacheSize
        BY <1>5, <1>12, <3>2, Sizes
      <4>2. m % CacheSize # k % CacheSize
        BY <1>1, <4>1, Sizes, Apart
      <4>3. m % CacheSize \in Slots
        BY <4>1, Numbering
      <4>4. QED
        BY <1>7, <1>16, <4>1, <4>2, <4>3
    <3>3. QED
      BY <3>1, <3>2
  <2>3. QED
    BY <2>1, <2>2 DEF HoldsOnly
<1>19. ~Earlier(pkt)
  <2>1. AheadOf(Plus(0, b), Plus(0, b + (k - b))) = k - b
    <3>1. k - b \in 0 .. SeqSpace - 1
      BY <1>5, <1>12, Sizes
    <3>2. QED
      BY <1>5, <3>1, AheadOnRing
  <2>2. AheadOf(t.header, pkt.sn) = k - b
    <3>1. b + (k - b) = k
      BY <1>1, <1>5
    <3>2. QED
      BY <1>2, <1>7, <1>16, <2>1, <3>1
  <2>3. k - b < Half /\ k - b \in Nat
    BY <1>5, <1>12, Sizes
  <2>4. SeqDistance(t.header, pkt.sn) = k - b
    BY <2>2, <2>3 DEF SeqDistance
  <2>5. QED
    BY <2>3, <2>4 DEF Earlier, t
<1>20. Coming(pkt) = Drain(t, FindNextLost(t, Plus(0, k)))
  BY <1>2, <1>7, <1>16, <1>19 DEF Coming, Searched, t
<1>21. t.header = Plus(0, b) /\ (sent[b].key => t.keyTs = sent[b].ts)
  BY <1>7, <1>13, <1>16
<1>22. QED
  BY <1>1, <1>5, <1>11, <1>16, <1>18, <1>20, <1>21, FlowingOn DEF pkt

(* The time stamp of the key frame awaited has been received.               *)
LEMMA KeyReceivedKept ==
  ASSUME TrackTypeOK, KeyReceived, NEW k \in Latest, OnRtp(k)
  PROVE  KeyReceived'
<1> DEFINE pkt == sent[k]
           N == newest'
           Inv == {u \in Tracks : u.keyTs <= N}
<1>1. pkt \in Packet /\ Apply(Coming(pkt))
  BY ComingIsNext
<1>2. pkt.ts \in Nat /\ newest \in Nat /\ key_frame_ts \in Nat \cup {-1}
  BY <1>1 DEF Packet, TrackTypeOK
<1>3. N = IF pkt.ts > newest THEN pkt.ts ELSE newest
  BY DEF OnRtp
<1> HIDE DEF N, pkt
<1>4. N \in Nat /\ newest <= N /\ pkt.ts <= N /\ key_frame_ts <= N
  BY <1>2, <1>3 DEF KeyReceived
<1>5. Begun(pkt) \in Tracks /\ Begun(pkt).keyTs \in {key_frame_ts, pkt.ts}
  BY <1>1, BegunCases
<1>6. Begun(pkt) \in Inv
  BY <1>4, <1>5
<1>7. FromHere(Begun(pkt), pkt) \in Inv
  <2>1. FromHere(Begun(pkt), pkt) \in Tracks
        /\ FromHere(Begun(pkt), pkt).keyTs = Begun(pkt).keyTs
    BY <1>1, BegunTyped
  <2>2. QED
    BY <1>6, <2>1
<1>8. ASSUME NEW u \in Tracks, NEW found \in Results, u \in Inv
      PROVE  After(u, found) \in Inv
  <2>1. After(u, found) \in Tracks
    BY AfterCases
  <2>2. After(u, found).keyTs \in {u.keyTs, -1}
    <3>1. CASE After(u, found) = [u EXCEPT !.lost = found.sn]
      BY <3>1 DEF Tracks
    <3>2. CASE After(u, found) = PacketVideo(u, found.sn)
      <4>1. found.sn \in SeqNo
        BY DEF Results
      <4>2. QED
        BY <3>2, <4>1, PacketVideoFacts
    <3>3. CASE After(u, found) = u
      BY <3>3
    <3>4. QED
      BY <3>1, <3>2, <3>3, AfterCases
  <2>3. QED
    BY <1>4, <1>8, <2>1, <2>2
<1> HIDE DEF Inv
<1>9. Coming(pkt) \in Inv
  BY <1>1, <1>6, <1>7, <1>8, ComingKeeps
<1>10. key_frame_ts' = Coming(pkt).keyTs
  BY <1>1 DEF Apply
<1>11. QED
  BY <1>9, <1>10 DEF Inv, N, KeyReceived

LEMMA FlowingKept ==
  ASSUME TrackTypeOK, Stream, KeyReceived, Flowing, NEW k \in Latest, OnRtp(k)
  PROVE  Flowing'
<1>1. /\ expect' = IF StartsKeyFrame(sent[k]) \/ k = expect THEN k + 1 ELSE -1
      /\ newest' = IF sent[k].ts > newest THEN sent[k].ts ELSE newest
      /\ sent' = sent /\ count' = count
  BY DEF OnRtp
<1>2. SUFFICES ASSUME StartsKeyFrame(sent[k]) \/ k = expect PROVE Flowing'
  BY <1>1 DEF Flowing
<1>3. k \in 0 .. count - 1 /\ k \in Nat /\ expect' = k + 1 /\ k + 1 > 0 /\ k + 1 - 1 = k
      /\ k # -1
  BY <1>1, <1>2, Sizes DEF Latest, TrackTypeOK
<1>4. PICK t \in Tracks : t = Coming(sent[k]) /\ \E c \in 0 .. k + 1 : Awaits(t, c, k + 1)
  <2>1. CASE StartsKeyFrame(sent[k])
    <3>1. /\ Coming(sent[k]) \in Tracks
          /\ \E c \in 0 .. k + 1 : Awaits(Coming(sent[k]), c, k + 1)
      BY <2>1, KeyFrameStarts
    <3>2. QED
      BY <3>1
  <2>2. CASE ~StartsKeyFrame(sent[k])
    <3>1. k = expect /\ expect # -1
      BY <1>2, <1>3, <2>2
    <3>2. /\ Coming(sent[k]) \in Tracks
          /\ \E c \in 0 .. k + 1 : Awaits(Coming(sent[k]), c, k + 1)
      BY <2>2, <3>1, NextComes
    <3>3. QED
      BY <3>2
  <2>3. QED
    BY <2>1, <2>2
<1>5. newest' = sent[k].ts
  <2>1. sent[k].ts \in Nat /\ newest \in Nat
    BY <1>3 DEF TrackTypeOK, Packet
  <2>2. CASE StartsKeyFrame(sent[k])
    BY <1>1, <2>2 DEF StartsKeyFrame
  <2>3. CASE ~StartsKeyFrame(sent[k])
    <3>1. k = expect /\ k > 0 /\ newest = sent[k - 1].ts
      BY <1>2, <1>3, <2>3 DEF Flowing
    <3>2. k - 1 \in 0 .. count - 1 /\ k - 1 + 1 = k /\ k < count
      <4>1. count \in Nat
        BY Sizes DEF TrackTypeOK
      <4>2. QED
        BY <1>3, <3>1, <4>1
    <3>3. InStream(sent, count, k - 1)
      BY <3>2 DEF Stream
    <3>4. Continued(sent[k - 1], sent[k])
      BY <3>2, <3>3 DEF InStream
    <3>5. newest < sent[k].ts \/ newest = sent[k].ts
      BY <3>1, <3>4 DEF Continued
    <3>6. QED
      BY <1>1, <2>1, <3>5
  <2>4. QED
    BY <2>2, <2>3
<1>6. Apply(t)
  BY <1>4, ComingIsNext
<1>7. PICK c \in 0 .. k + 1 : Awaits(t, c, k + 1)
  BY <1>4
<1>8. /\ Track'.cache = t.cache /\ Track'.header = t.header /\ Track'.lost = t.lost
      /\ Track'.keyTs = t.keyTs
  BY <1>6 DEF Apply, Track
<1>9. Awaits(Track', c, k + 1)
  BY <1>7, <1>8 DEF Awaits, HoldsOnly
<1>10. expect' > 0 /\ newest' = sent'[expect' - 1].ts
  BY <1>1, <1>3, <1>5
<1>11. (\E b \in 0 .. expect : Awaits(Track, b, expect))'
  BY <1>1, <1>3, <1>9 DEF Awaits, HoldsOnly, BeginsFrame
<1>12. QED
  BY <1>10, <1>11 DEF Flowing

LEMMA SendKeepsFlowing ==
  ASSUME TrackTypeOK, KeyReceived, Flowing, NEW pieces \in Frames, SendFrame(pieces)
  PROVE  Flowing' /\ KeyReceived'
<1>1. /\ count \in Nat /\ \A k \in 0 .. count - 1 : sent'[k] = sent[k]
  BY SentTyped
<1>2. /\ cache' = cache /\ header_sn' = header_sn /\ lost_sn' = lost_sn
      /\ key_frame_ts' = key_frame_ts /\ expect' = expect /\ newest' = newest
  BY DEF SendFrame, track
<1>3. KeyReceived'
  BY <1>2 DEF KeyReceived
<1>4. SUFFICES ASSUME expect # -1 PROVE Flowing'
  BY <1>2, <1>3 DEF Flowing
<1>5. PICK t \in Tracks : t = Track
  BY TrackTyped
<1>6. Track' = Track
  BY <1>2 DEF Track
<1>7. expect \in 1 .. count /\ newest = sent[expect - 1].ts
  <2>1. expect \in 0 .. count \cup {-1} /\ expect > 0 /\ newest = sent[expect - 1].ts
    BY <1>4 DEF TrackTypeOK, Flowing
  <2>2. QED
    BY <1>1, <1>4, <2>1
<1>8. PICK b \in 0 .. expect : Awaits(t, b, expect)
  BY <1>4, <1>5 DEF Flowing
<1>9. \A m \in b .. expect - 1 : sent'[m] = sent[m]
  BY <1>1, <1>7
<1>10. sent'[expect - 1] = sent[expect - 1]
  BY <1>1, <1>7
<1>11. b < expect => sent'[b] = sent[b]
  BY <1>1, <1>7
<1>12. /\ t.header = Plus(0, b) /\ t.lost = Plus(0, expect)
       /\ \A s \in Slots : t.cache[s].inUse <=> \E m \in b .. expect - 1 : s = m % CacheSize
       /\ \A m \in b .. expect - 1 : t.cache[m % CacheSize].pkt = sent'[m]
  BY <1>8, <1>9 DEF Awaits, HoldsOnly
<1>13. /\ b = expect => sent'[expect - 1].marker
       /\ b < expect => /\ ~Continues(sent'[b])
                        /\ \A m \in b .. expect - 1 : ~sent'[m].marker
                        /\ sent'[b].key => t.keyTs = sent'[b].ts
  BY <1>8, <1>9, <1>10, <1>11 DEF Awaits, BeginsFrame, Continues
<1>14. (\E c \in 0 .. expect : Awaits(Track, c, expect))'
  BY <1>2, <1>5, <1>6, <1>12, <1>13 DEF Awaits, HoldsOnly, BeginsFrame
<1>15. QED
  BY <1>2, <1>7, <1>10, <1>14 DEF Flowing

InOrder == TrackTypeOK /\ Stream /\ KeyReceived /\ Flowing

LEMMA InOrderKept == InOrder /\ [TrackNext]_trackVars => InOrder'
<1>1. SUFFICES ASSUME InOrder, [TrackNext]_trackVars PROVE InOrder'
  OBVIOUS
<1>2. TrackTypeOK' /\ Stream'
  BY <1>1, TrackTypeKept, StreamKept DEF InOrder
<1>3. ASSUME NEW pieces \in Frames, SendFrame(pieces) PROVE KeyReceived' /\ Flowing'
  BY <1>1, <1>3, SendKeepsFlowing DEF InOrder
<1>4. ASSUME NEW k \in Latest, OnRtp(k) PROVE KeyReceived' /\ Flowing'
  BY <1>1, <1>4, KeyReceivedKept, FlowingKept DEF InOrder
<1>5. ASSUME UNCHANGED trackVars PROVE KeyReceived' /\ Flowing'
  <2>1. /\ sent' = sent /\ cache' = cache /\ header_sn' = header_sn /\ lost_sn' = lost_sn
        /\ key_frame_ts' = key_frame_ts /\ newest' = newest /\ expect' = expect
    BY <1>5 DEF trackVars, track, history
  <2>2. QED
    BY <1>1, <2>1 DEF InOrder, KeyReceived, Flowing, Awaits, HoldsOnly, BeginsFrame, Track
<1>6. QED
  BY <1>1, <1>2, <1>3, <1>4, <1>5 DEF TrackNext, InOrder

LEMMA InOrderAtFirst == TrackInit => InOrder
<1>1. SUFFICES ASSUME TrackInit PROVE InOrder
  OBVIOUS
<1>2. TrackTypeOK /\ Stream
  BY <1>1, OrderlyAtFirst DEF Orderly
<1>3. key_frame_ts = -1 /\ newest = 0 /\ expect = -1
  BY <1>1 DEF TrackInit
<1>4. QED
  BY <1>2, <1>3 DEF InOrder, KeyReceived, Flowing

LEMMA InOrderFlowing ==
  ASSUME InOrder
  PROVE  InOrderFlows
<1>1. SUFFICES ASSUME expect # -1, sent[expect - 1].marker
               PROVE  header_sn = Plus(0, expect)
  BY DEF InOrderFlows
<1>2. expect > 0 /\ expect \in Nat
  BY <1>1, Sizes DEF InOrder, TrackTypeOK, Flowing
<1>3. PICK b \in 0 .. expect : Awaits(Track, b, expect)
  BY <1>1 DEF InOrder, Flowing
<1>4. ~(b < expect)
  <2>1. SUFFICES ASSUME b < expect PROVE FALSE
    OBVIOUS
  <2>2. expect - 1 \in b .. expect - 1
    BY <1>2, <2>1
  <2>3. QED
    BY <1>1, <1>3, <2>1, <2>2 DEF Awaits, BeginsFrame
<1>5. b = expect
  BY <1>2, <1>4
<1>6. Track.header = header_sn
  BY TrackTyped DEF InOrder
<1>7. QED
  BY <1>3, <1>5, <1>6 DEF Awaits

(* As long as packets come in order since a new key frame started, its last *)
(* packet delivers each frame, whatever losses, late and repeated packets   *)
(* left behind before (yang_playtrackH264_packet_video_key_frame).          *)
THEOREM KeyFrameRecovers == TrackSpec => []InOrderFlows
<1>1. QED
  BY InOrderAtFirst, InOrderKept, InOrderFlowing, PTL DEF TrackSpec

=============================================================================
