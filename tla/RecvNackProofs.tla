--------------------------- MODULE RecvNackProofs ---------------------------
(***************************************************************************)
(* The safety properties of the loss tracker, for every size of the list,  *)
(* every interval, every sequence space and every bound on the stream.     *)
(***************************************************************************)
EXTENDS RecvNack, FiniteSetTheorems, WellFoundedInduction, TLAPS

IInv == TypeOK /\ NoLossForgotten /\ QueueBounded

-----------------------------------------------------------------------------
(* The list. *)

LEMMA InsertFacts ==
  ASSUME NEW D, NEW S, NEW list \in [D -> NackInfo]
  PROVE  Insert(list, S) \in [D \cup S -> NackInfo]
<1>1. NewNackInfo \in NackInfo
  BY NackAssumption DEF NewNackInfo, NackInfo, AgeCap, SinceCap, Larger
<1>2. QED
  BY <1>1 DEF Insert

LEMMA RemoveFacts ==
  ASSUME NEW D, NEW S, NEW list \in [D -> NackInfo]
  PROVE  Remove(list, S) \in [D \ S -> NackInfo]
BY DEF Remove

(* Whatever the loop visits, it gives up only expired packets of the list. *)
LEMMA GivenUpFacts ==
  ASSUME NEW list
  PROVE  /\ GivenUp(list) \subseteq DOMAIN list
         /\ \A s \in GivenUp(list) : Expired(list[s])
<1>1. Visited(list) \subseteq DOMAIN list
  BY Zenon DEF Visited
<1>2. QED
  BY <1>1 DEF GivenUp

(* A packet is asked for only while it has not expired, so that its count  *)
(* ends at most one beyond the bound.                                      *)
LEMMA MarkRequestedFacts ==
  ASSUME NEW D, NEW list \in [D -> NackInfo],
         NEW S, \A s \in S \cap D : ~Expired(list[s])
  PROVE  MarkRequested(list, S) \in [D -> NackInfo]
<1>1. ASSUME NEW s \in D, s \in S
      PROVE  [age |-> list[s].age, since |-> 0, count |-> list[s].count + 1]
               \in NackInfo
  <2>1. list[s] \in NackInfo /\ list[s].count \in 0 .. MaxReqCount
    BY <1>1, NackAssumption DEF Expired, NackInfo
  <2>2. 0 \in 0 .. SinceCap
    BY NackAssumption DEF SinceCap, Larger
  <2>3. QED
    BY <2>1, <2>2, NackAssumption DEF NackInfo
<1>2. QED
  BY <1>1 DEF MarkRequested

(* One run of yang_check_send_nacks on a well-typed list. *)
LEMMA SendNacksFacts ==
  ASSUME NEW D, NEW list \in [D -> NackInfo], NEW first,
         sinceCheck \in 0 .. CheckCap, SendNacks(list, first)
  PROVE  /\ nacks' \in [D \ Dropped(list) -> NackInfo]
         /\ Dropped(list) \subseteq D
         /\ \A s \in Dropped(list) : Expired(list[s])
         /\ sinceCheck' \in 0 .. CheckCap
<1>1. GivenUp(list) \subseteq D /\ \A s \in GivenUp(list) : Expired(list[s])
  BY GivenUpFacts
<1>2. CASE CheckDue(list)
  <2>1. Remove(list, GivenUp(list)) \in [D \ GivenUp(list) -> NackInfo]
    BY RemoveFacts
  <2>2. \A s \in Requested(list) \cap (D \ GivenUp(list)) :
          ~Expired(Remove(list, GivenUp(list))[s])
    BY DEF Requested, Remove
  <2>3. nacks' \in [D \ GivenUp(list) -> NackInfo]
    BY <1>2, <2>1, <2>2, MarkRequestedFacts DEF SendNacks
  <2>4. sinceCheck' \in 0 .. CheckCap
    BY <1>2, NackAssumption DEF SendNacks, CheckCap, Larger
  <2>5. QED
    BY <1>1, <1>2, <2>3, <2>4 DEF Dropped
<1>3. CASE ~CheckDue(list)
  BY <1>3 DEF SendNacks, Dropped
<1>4. QED
  BY <1>2, <1>3

(* Every nonempty set of numbers has a least one: strict inclusion of the  *)
(* sets 0 .. n - 1 is well founded.                                        *)
LEMMA LeastNatural ==
  ASSUME NEW A \in SUBSET Nat, A # {}
  PROVE  \E m \in A : \A n \in A : m <= n
<1> DEFINE Below == {0 .. n - 1 : n \in A}
<1>1. Below \subseteq FiniteSubsetsOf(Nat) /\ Below # {}
  <2>1. ASSUME NEW n \in A PROVE 0 .. n - 1 \in FiniteSubsetsOf(Nat)
    <3>1. IsFiniteSet(0 .. n - 1) /\ 0 .. n - 1 \subseteq Nat
      BY FS_Interval
    <3>2. QED
      BY <3>1 DEF FiniteSubsetsOf
  <2>2. QED
    BY <2>1
<1>2. PICK b \in Below :
        \A c \in Below : ~(<<c, b>> \in StrictSubsetOrdering(Nat))
  BY <1>1, FS_StrictSubsetOrderingWellFounded, WFMin
<1>3. PICK m \in A : b = 0 .. m - 1
  OBVIOUS
<1>4. ASSUME NEW n \in A, n < m PROVE FALSE
  <2>1. 0 .. n - 1 \subseteq 0 .. m - 1 /\ n \in 0 .. m - 1 /\ n \notin 0 .. n - 1
    BY <1>4
  <2>2. <<0 .. n - 1, b>> \in StrictSubsetOrdering(Nat)
    BY <1>3, <2>1 DEF StrictSubsetOrdering
  <2>3. QED
    BY <1>2, <2>2
<1>5. QED
  BY <1>4

(* Of some elements of a list there is one that comes last.                *)
LEMMA NewestFacts ==
  ASSUME NEW list, IsFiniteSet(DOMAIN list), NEW S \in SUBSET DOMAIN list, S # {}
  PROVE  Newest(list, S) \in S
<1> DEFINE n == Cardinality(DOMAIN list)
           A == {n + 1 - Position(list, s) : s \in S}
<1>1. n \in Nat
  BY FS_CardinalityType
<1>2. ASSUME NEW s \in S PROVE Position(list, s) \in 1 .. n + 1
  <2> DEFINE before == {t \in DOMAIN list : Older(t, s)}
  <2>1. before \in SUBSET DOMAIN list
    OBVIOUS
  <2> HIDE DEF before
  <2>2. IsFiniteSet(before) /\ Cardinality(before) <= n
    BY <2>1, FS_Subset
  <2>3. Cardinality(before) \in Nat
    BY <2>2, FS_CardinalityType
  <2>4. Position(list, s) = Cardinality(before) + 1
    BY DEF Position, before
  <2>5. QED
    BY <1>1, <2>2, <2>3, <2>4
<1>3. A \in SUBSET Nat /\ A # {}
  BY <1>1, <1>2
<1>4. PICK m \in A : \A k \in A : m <= k
  BY <1>3, LeastNatural
<1>5. PICK s \in S : m = n + 1 - Position(list, s)
  OBVIOUS
<1>6. ASSUME NEW t \in S PROVE Position(list, t) <= Position(list, s)
  <2>1. n + 1 - Position(list, s) <= n + 1 - Position(list, t)
    BY <1>4, <1>5
  <2>2. QED
    BY <1>1, <1>2, <2>1
<1>7. QED
  BY <1>6 DEF Newest

LEMMA SeqNoFinite == IsFiniteSet(SeqNo)
<1>1. SeqSpace - 1 \in Int
  BY HalfAssumption DEF SeqSpace
<1>2. QED
  BY <1>1, FS_Interval DEF SeqNo

-----------------------------------------------------------------------------
(* The part every packet shares: what Track does to a good state.           *)

TrackPost(seq) ==
  /\ begin' \in SeqNo /\ end' \in SeqNo /\ contexttialized' \in BOOLEAN
  /\ Listed' \subseteq SeqNo /\ nacks' \in [Listed' -> NackInfo]
  /\ sinceCheck' \in 0 .. CheckCap
  /\ missing' \subseteq SeqNo /\ settled' \subseteq SeqNo /\ lag' \in 0 .. SeqSpace
  /\ NoLossForgotten' /\ QueueBounded'
  /\ \A s \in missing \ missing' : ~contexttialized' \/ Expired(nacks[s])

LEMMA ResetFacts ==
  ASSUME IInv, NEW seq, Reset
  PROVE  TrackPost(seq)
<1>1. Listed' = {} /\ nacks' \in [{} -> NackInfo]
  BY DEF Reset, EmptyList, Listed
<1>2. Cardinality({}) < MaxQueueSize
  BY FS_EmptySet, NackAssumption
<1>3. 0 \in SeqNo /\ 0 \in 0 .. SeqSpace
  BY HalfAssumption DEF SeqNo, SeqSpace
<1>4. QED
  BY <1>1, <1>2, <1>3
  DEF TrackPost, IInv, TypeOK, Reset, NoLossForgotten, QueueBounded

LEMMA TrackFacts ==
  ASSUME IInv,
         NEW seq \in SeqNo, seq \notin Listed,
         NEW first \in SeqNo, NEW last \in SeqNo, NEW distance,
         NEW range \in SUBSET SeqNo, NEW gap \in SUBSET range,
         Track(seq, first, last, range, gap, distance),
         distance \in 0 .. SeqSpace
  PROVE  TrackPost(seq)
<1> DEFINE list == Insert(nacks, range)
           D == Listed \cup range
<1>1. list \in [D -> NackInfo] /\ \A s \in Listed : list[s] = nacks[s]
  <2>1. nacks \in [Listed -> NackInfo]
    BY DEF IInv, TypeOK
  <2>2. /\ Insert(nacks, range) \in [Listed \cup range -> NackInfo]
        /\ \A s \in Listed : Insert(nacks, range)[s] = nacks[s]
    <3> DEFINE L == Listed
    <3>1. nacks \in [L -> NackInfo]
      BY <2>1
    <3> HIDE DEF L
    <3>2. Insert(nacks, range) \in [L \cup range -> NackInfo]
      BY <3>1, InsertFacts
    <3>3. \A s \in L : Insert(nacks, range)[s] = nacks[s]
      BY <3>1 DEF Insert
    <3>4. QED
      BY <3>2, <3>3 DEF L
  <2>3. QED
    BY <2>2
<1>2. DOMAIN list = D
  BY <1>1
<1>3. D \subseteq SeqNo
  BY DEF IInv, TypeOK
<1>4. CASE range # {} /\ Full(list)
  BY <1>4, ResetFacts DEF Track
<1>5. CASE ~(range # {} /\ Full(list))
  <2>1. /\ end' = last /\ contexttialized' = TRUE
        /\ SendNacks(list, first)
        /\ Recorded(seq, gap, Dropped(list))
        /\ lag' = IF Dropped(list) = {} THEN distance ELSE AheadOf(begin', last)
    BY <1>5 DEF Track
  <2>2. /\ nacks' \in [D \ Dropped(list) -> NackInfo]
        /\ Dropped(list) \subseteq D
        /\ \A s \in Dropped(list) : Expired(list[s])
        /\ sinceCheck' \in 0 .. CheckCap
    <3>1. sinceCheck \in 0 .. CheckCap
      BY DEF IInv, TypeOK
    <3> HIDE DEF list, D
    <3>2. QED
      BY <1>1, <2>1, <3>1, SendNacksFacts
  <2>3. Listed' = D \ Dropped(list)
    BY <2>2 DEF Listed
  <2>4. begin' \in SeqNo /\ lag' \in 0 .. SeqSpace
    <3>1. CASE Dropped(list) = {}
      BY <2>1, <3>1 DEF SendNacks
    <3>2. CASE Dropped(list) # {}
      <4> DEFINE n == Newest(list, Dropped(list))
      <4>1. n \in Dropped(list)
        <5>1. IsFiniteSet(DOMAIN list)
          BY <1>2, <1>3, SeqNoFinite, FS_Subset
        <5>2. Dropped(list) \in SUBSET DOMAIN list
          BY <1>2, <2>2
        <5> HIDE DEF list
        <5>3. QED
          BY <3>2, <5>1, <5>2, NewestFacts
      <4>2. n \in SeqNo
        BY <1>3, <2>2, <4>1
      <4>3. begin' = Succ(n) /\ lag' = AheadOf(begin', last)
        BY <2>1, <3>2 DEF SendNacks
      <4> HIDE DEF n
      <4>4. Succ(n) \in SeqNo /\ AheadOf(Succ(n), last) \in 0 .. SeqSpace
        BY <4>2, HalfAssumption DEF Succ, AheadOf, SeqNo, SeqSpace
      <4>5. QED
        BY <4>3, <4>4
    <3>3. QED
      BY <3>1, <3>2
  <2>5. /\ settled' = {s \in settled \cup Dropped(list) \cup {seq} : AheadOf(s, end') <= LateBy}
        /\ missing' = (missing \cup (gap \ settled)) \ (Dropped(list) \cup {seq})
    BY <2>1 DEF Recorded
  <2>6. missing \subseteq Listed /\ settled \subseteq SeqNo
    BY DEF IInv, TypeOK, NoLossForgotten
  <2>7. missing' \subseteq Listed' /\ settled' \subseteq SeqNo
    BY <1>3, <2>2, <2>3, <2>5, <2>6
  <2>8. \A s \in missing \ missing' : Expired(nacks[s])
    BY <1>1, <2>2, <2>5, <2>6
  <2>9. Cardinality(Listed') < MaxQueueSize
    <3>1. IsFiniteSet(D)
      BY <1>3, SeqNoFinite, FS_Subset
    <3>2. Cardinality(D) < MaxQueueSize
      <4>1. CASE range = {}
        BY <4>1 DEF IInv, QueueBounded
      <4>2. CASE ~Full(list)
        <5>1. Cardinality(D) \in Nat
          BY <3>1, FS_CardinalityType
        <5>2. QED
          BY <1>2, <4>2, <5>1, NackAssumption DEF Full
      <4>3. QED
        BY <1>5, <4>1, <4>2
    <3>3. Cardinality(Listed') \in Nat /\ Cardinality(Listed') <= Cardinality(D)
      <4>1. Listed' \in SUBSET D
        BY <2>3
      <4> HIDE DEF D
      <4>2. IsFiniteSet(Listed') /\ Cardinality(Listed') <= Cardinality(D)
        BY <3>1, <4>1, FS_Subset
      <4>3. QED
        BY <4>2, FS_CardinalityType
    <3>4. Cardinality(D) \in Nat
      BY <3>1, FS_CardinalityType
    <3>5. QED
      BY <3>2, <3>3, <3>4, NackAssumption
  <2>10. Listed' \subseteq SeqNo /\ nacks' \in [Listed' -> NackInfo]
    BY <1>3, <2>2, <2>3
  <2> HIDE DEF list, D
  <2>11. QED
    BY <2>1, <2>2, <2>4, <2>7, <2>8, <2>9, <2>10
    DEF TrackPost, NoLossForgotten, QueueBounded
<1>6. QED
  BY <1>4, <1>5

-----------------------------------------------------------------------------
(* Each action. *)

LEMMA InitOK ==
  ASSUME Init
  PROVE  IInv
<1>1. Listed = {} /\ nacks \in [Listed -> NackInfo]
  BY DEF Init, EmptyList, Listed
<1>2. 0 \in SeqNo /\ 0 \in 0 .. SeqSpace
  BY HalfAssumption DEF SeqNo, SeqSpace
<1>3. CheckCap \in Nat /\ 0 \in 0 .. FlipMod - 1
      /\ NackInterval0 \in 0 .. Larger(NackInterval0, MaxNackInterval)
  BY NackAssumption DEF CheckCap, Larger
<1>4. Cardinality({}) < MaxQueueSize
  BY FS_EmptySet, NackAssumption
<1>5. TypeOK
  <2>1. contexttialized \in BOOLEAN
    BY DEF Init
  <2>2. sinceCheck \in 0 .. CheckCap
    BY <1>3 DEF Init
  <2>3. /\ begin \in SeqNo /\ end \in SeqNo /\ flips \in 0 .. FlipMod - 1
        /\ nackInterval \in 0 .. Larger(NackInterval0, MaxNackInterval)
        /\ lag \in 0 .. SeqSpace /\ advance \in 0 .. MaxAdvance
    BY <1>2, <1>3, NackAssumption DEF Init
  <2>4. Listed \subseteq SeqNo /\ missing \subseteq SeqNo /\ settled \subseteq SeqNo
    BY <1>1 DEF Init
  <2>5. QED
    BY <1>1, <2>1, <2>2, <2>3, <2>4 DEF TypeOK
<1>6. NoLossForgotten /\ QueueBounded
  BY <1>1, <1>4 DEF Init, NoLossForgotten, QueueBounded
<1>7. QED
  BY <1>5, <1>6 DEF IInv

LEMMA OnListedOK ==
  ASSUME IInv, NEW seq \in SeqNo, OnListed(seq)
  PROVE  IInv'
<1>1. Listed' = Listed \ {seq} /\ nacks' \in [Listed' -> NackInfo]
  BY RemoveFacts DEF OnListed, Listed, IInv, TypeOK
<1>2. Cardinality(Listed') < MaxQueueSize
  <2>1. IsFiniteSet(Listed)
    BY SeqNoFinite, FS_Subset DEF IInv, TypeOK
  <2>2. IsFiniteSet(Listed') /\ Cardinality(Listed') <= Cardinality(Listed)
    BY <1>1, <2>1, FS_Subset
  <2>3. Cardinality(Listed') \in Nat /\ Cardinality(Listed) \in Nat
    BY <2>1, <2>2, FS_CardinalityType
  <2>4. QED
    BY <2>2, <2>3, NackAssumption DEF IInv, QueueBounded
<1>3. TypeOK'
  BY <1>1 DEF OnListed, IInv, TypeOK
<1>4. QED
  BY <1>1, <1>2, <1>3
  DEF OnListed, IInv, NoLossForgotten, QueueBounded, TypeOK

(* The four branches that run Track, and what each leaves on the list.     *)
LEMMA OnFirstFacts ==
  ASSUME IInv, NEW seq \in SeqNo, OnFirst(seq)
  PROVE  TrackPost(seq)
<1>1. Succ(seq) \in SeqNo /\ 1 \in 0 .. SeqSpace
  BY HalfAssumption DEF Succ, SeqNo, SeqSpace
<1>2. Track(seq, seq, Succ(seq), {}, {}, 1) /\ seq \notin Listed
  BY DEF OnFirst
<1>3. QED
  BY <1>1, <1>2, TrackFacts

LEMMA OnForwardFacts ==
  ASSUME IInv, NEW seq \in SeqNo, OnForward(seq)
  PROVE  TrackPost(seq)
<1> DEFINE range == SeqRange(end, seq)
           gap == Between(Pred(end), seq)
           distance == lag + AheadOf(end, seq) + 1
<1>1. begin \in SeqNo /\ end \in SeqNo /\ lag \in 0 .. SeqSpace
  BY DEF IInv, TypeOK
<1>2. AheadOf(end, seq) \in 0 .. Half - 1 /\ distance <= MaxLag
  BY <1>1, HalfAssumption, NackAssumption
  DEF OnForward, Reachable, SeqDistance, AheadOf, SeqNo, SeqSpace
<1>3. Succ(seq) \in SeqNo
  BY HalfAssumption DEF Succ, SeqNo, SeqSpace
<1>4. distance \in 0 .. SeqSpace
  <2>1. MaxLag \in 0 .. SeqSpace /\ SeqSpace \in Nat
    BY NackAssumption, HalfAssumption DEF SeqSpace
  <2>2. QED
    BY <1>1, <1>2, <2>1, HalfAssumption
<1>5. range \in SUBSET SeqNo /\ gap \in SUBSET range
  BY <1>1, <1>2, HalfAssumption DEF SeqRange, Between, Pred, AheadOf, SeqNo, SeqSpace
<1>6. Track(seq, begin, Succ(seq), range, gap, distance) /\ seq \notin Listed
  BY DEF OnForward
<1> HIDE DEF range, gap, distance
<1>7. QED
  BY <1>1, <1>3, <1>4, <1>5, <1>6, TrackFacts

LEMMA OnLateFacts ==
  ASSUME IInv, NEW seq \in SeqNo, OnLate(seq)
  PROVE  TrackPost(seq)
<1> DEFINE range == SeqRange(seq, begin)
           gap == Between(seq, begin)
           distance == AheadOf(seq, end)
<1>1. begin \in SeqNo /\ end \in SeqNo
  BY DEF IInv, TypeOK
<1>2. distance \in 0 .. SeqSpace
  BY <1>1, HalfAssumption DEF AheadOf, SeqNo, SeqSpace
<1>3. range \in SUBSET SeqNo /\ gap \in SUBSET range
  BY <1>1, HalfAssumption DEF SeqRange, Between, AheadOf, SeqNo, SeqSpace
<1>4. Track(seq, seq, end, range, gap, distance) /\ seq \notin Listed
  BY DEF OnLate
<1> HIDE DEF range, gap, distance
<1>5. QED
  BY <1>1, <1>2, <1>3, <1>4, TrackFacts

LEMMA OnOldFacts ==
  ASSUME IInv, NEW seq \in SeqNo, OnOld(seq)
  PROVE  TrackPost(seq)
<1>1. begin \in SeqNo /\ end \in SeqNo /\ lag \in 0 .. SeqSpace
  BY DEF IInv, TypeOK
<1>2. Track(seq, begin, end, {}, {}, lag) /\ seq \notin Listed
  BY DEF OnOld
<1>3. QED
  BY <1>1, <1>2, TrackFacts

LEMMA UpdateRttOK ==
  ASSUME IInv, NEW rtt \in Rtts, UpdateRtt(rtt)
  PROVE  IInv'
<1>1. nackInterval' \in 0 .. Larger(NackInterval0, MaxNackInterval)
  <2>1. nackInterval \in Nat /\ rtt \in Nat
    BY NackAssumption DEF IInv, TypeOK, Larger
  <2>2. (8 * nackInterval + 2 * rtt) \div 10 \in Nat
    BY <2>1
  <2>3. QED
    BY <2>1, <2>2, NackAssumption DEF UpdateRtt, Smaller, Larger
<1>2. Listed' = Listed
  BY DEF UpdateRtt, Listed
<1>3. TypeOK'
  BY <1>1, <1>2 DEF UpdateRtt, IInv, TypeOK, history
<1>4. QED
  BY <1>2, <1>3
  DEF UpdateRtt, history, IInv, NoLossForgotten, QueueBounded

LEMMA TickOK ==
  ASSUME IInv, Tick
  PROVE  IInv'
<1>1. Listed' = Listed
  BY DEF Tick, Listed
<1>2. nacks' \in [Listed -> NackInfo]
  <2>1. ASSUME NEW s \in Listed
        PROVE  [age |-> Smaller(nacks[s].age + 1, AgeCap),
                since |-> Smaller(nacks[s].since + 1, SinceCap),
                count |-> nacks[s].count] \in NackInfo
    <3>1. nacks[s] \in NackInfo
      BY <2>1 DEF IInv, TypeOK
    <3>2. AgeCap \in Nat /\ SinceCap \in Nat
      BY NackAssumption DEF AgeCap, SinceCap, Larger
    <3>3. QED
      BY <3>1, <3>2, NackAssumption DEF NackInfo, Smaller
  <2>2. QED
    BY <2>1 DEF Tick
<1>3. sinceCheck' \in 0 .. CheckCap
  BY NackAssumption DEF Tick, IInv, TypeOK, CheckCap, Larger, Smaller
<1>4. TypeOK'
  BY <1>1, <1>2, <1>3, NackAssumption DEF Tick, IInv, TypeOK, history
<1>5. QED
  BY <1>1, <1>4
  DEF Tick, history, IInv, NoLossForgotten, QueueBounded

(* A packet that runs Track keeps the invariant.                            *)
LEMMA TrackOK ==
  ASSUME IInv, NEW seq, TrackPost(seq), flips' \in 0 .. FlipMod - 1,
         nackInterval' = nackInterval, advance' \in 0 .. MaxAdvance
  PROVE  IInv'
<1>1. nackInterval' \in 0 .. Larger(NackInterval0, MaxNackInterval)
  BY DEF IInv, TypeOK
<1>2. TypeOK'
  BY <1>1 DEF TrackPost, TypeOK
<1>3. QED
  BY <1>2 DEF TrackPost, IInv

LEMMA OnRtpOK ==
  ASSUME IInv, NEW seq \in SeqNo, OnRtp(seq)
  PROVE  /\ IInv'
         /\ \A s \in missing \ missing' :
              OnListed(s) \/ ~contexttialized' \/ Expired(nacks[s])
<1>1. CASE OnListed(seq)
  BY <1>1, OnListedOK DEF OnListed
<1>2. ASSUME flips' = flips, nackInterval' = nackInterval, advance' = advance,
             TrackPost(seq)
      PROVE  IInv'
  <2>1. flips' \in 0 .. FlipMod - 1 /\ advance' \in 0 .. MaxAdvance
    BY <1>2 DEF IInv, TypeOK
  <2>2. QED
    BY <1>2, <2>1, TrackOK
<1>3. CASE OnFirst(seq)
  <2>1. TrackPost(seq)
    BY <1>3, OnFirstFacts
  <2>2. QED
    BY <1>2, <1>3, <2>1 DEF OnFirst, TrackPost
<1>4. CASE OnForward(seq)
  <2>1. TrackPost(seq)
    BY <1>4, OnForwardFacts
  <2>2. flips' \in 0 .. FlipMod - 1 /\ advance' \in 0 .. MaxAdvance
    <3>1. AheadOf(end, seq) \in Nat
      BY HalfAssumption DEF IInv, TypeOK, AheadOf, SeqNo, SeqSpace
    <3>2. QED
      BY <1>4, <3>1, NackAssumption DEF OnForward, Reachable, IInv, TypeOK
  <2>3. IInv'
    BY <1>4, <2>1, <2>2, TrackOK DEF OnForward
  <2>4. QED
    BY <2>1, <2>3 DEF TrackPost
<1>5. CASE OnLate(seq)
  <2>1. TrackPost(seq)
    BY <1>5, OnLateFacts
  <2>2. QED
    BY <1>2, <1>5, <2>1 DEF OnLate, TrackPost
<1>6. CASE OnOld(seq)
  <2>1. TrackPost(seq)
    BY <1>6, OnOldFacts
  <2>2. QED
    BY <1>2, <1>6, <2>1 DEF OnOld, TrackPost
<1>7. QED
  BY <1>1, <1>3, <1>4, <1>5, <1>6 DEF OnRtp

LEMMA NextOK ==
  ASSUME IInv, [Next]_vars
  PROVE  /\ IInv'
         /\ \A s \in missing \ missing' :
              OnListed(s) \/ ~contexttialized' \/ Expired(nacks[s])
<1>1. ASSUME NEW seq \in SeqNo, OnRtp(seq)
      PROVE  /\ IInv'
             /\ \A s \in missing \ missing' :
                  OnListed(s) \/ ~contexttialized' \/ Expired(nacks[s])
  BY <1>1, OnRtpOK
<1>2. ASSUME NEW rtt \in Rtts, UpdateRtt(rtt)
      PROVE  IInv' /\ missing' = missing
  BY <1>2, UpdateRttOK DEF UpdateRtt, history
<1>3. CASE Tick
  BY <1>3, TickOK DEF Tick, history
<1>4. CASE UNCHANGED vars
  BY <1>4 DEF vars, history, IInv, TypeOK, Listed, NoLossForgotten, QueueBounded
<1>5. QED
  BY <1>1, <1>2, <1>3, <1>4 DEF Next

-----------------------------------------------------------------------------
(* The theorems. *)

(* The inductive invariant.                                                 *)
THEOREM Inductive ==
  Spec => []IInv
<1>1. Init => IInv
  BY InitOK
<1>2. IInv /\ [Next]_vars => IInv'
  BY NextOK
<1>3. QED
  BY <1>1, <1>2, PTL DEF Spec

(* The tracker's state keeps its types: no packet is asked for more than    *)
(* maxReqCount + 1 times (YangRtpRecvNack.c).                               *)
THEOREM TypeCorrect ==
  Spec => []TypeOK
<1>1. IInv => TypeOK
  BY DEF IInv
<1>2. QED
  BY <1>1, Inductive, PTL

(* Every packet passed over, and neither received nor given up since, is on *)
(* the list (yang_playtrack_on_nack).                                       *)
THEOREM LossesTracked ==
  Spec => []NoLossForgotten
<1>1. IInv => NoLossForgotten
  BY DEF IInv
<1>2. QED
  BY <1>1, Inductive, PTL

(* The list stays short of maxQueueSize between two packets                 *)
(* (yang_recvnack_check_queue_size).                                        *)
THEOREM ListBounded ==
  Spec => []QueueBounded
<1>1. IInv => QueueBounded
  BY DEF IInv
<1>2. QED
  BY <1>1, Inductive, PTL

(* A missing packet is given up only when it arrives, when it has expired,  *)
(* or with the whole list (yang_recvnack_get_nack_seqs).                    *)
THEOREM GivenUpWhenExpired ==
  Spec => GiveUpOnlyExpired
<1>1. IInv /\ [Next]_vars =>
        [\A s \in missing \ missing' :
           OnListed(s) \/ ~contexttialized' \/ Expired(nacks[s])]_vars
  BY NextOK
<1>2. QED
  BY <1>1, Inductive, PTL DEF Spec, GiveUpOnlyExpired

=============================================================================
