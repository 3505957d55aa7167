--------------------------- MODULE RtcpNackProofs ---------------------------
(***************************************************************************)
(* The loops of the NACK codec, for every list and every packet: what the  *)
(* binary search finds, what reading a packet collects, what packing a     *)
(* list leaves out.                                                        *)
(***************************************************************************)
EXTENDS RtcpNack, SequenceTheorems, FiniteSetTheorems, WellFoundedInduction, TLAPS

-----------------------------------------------------------------------------
(* Induction, over sets of numbers; and loops. *)

LEMMA Least ==
  ASSUME NEW T \in SUBSET Nat, T # {}
  PROVE  \E m \in T : \A k \in T : m <= k
<1> DEFINE R == {p \in Nat \X Nat : p[1] < p[2]}
<1>1. IsWellFoundedOn(R, Nat)
  BY NatLessThanWellFounded DEF OpToRel
<1>2. \A x, y \in T : ~(<<y, x>> \in R) => x <= y
  OBVIOUS
<1>3. \E x \in T : \A y \in T : ~(<<y, x>> \in R)
  <2> HIDE DEF R
  <2>1. QED
    BY <1>1, WFMin
<1>4. QED
  <2> HIDE DEF R
  <2>1. QED
    BY <1>2, <1>3, Zenon

LEMMA Induction ==
  ASSUME NEW T \in SUBSET Nat, 0 \in T, \A n \in T : n + 1 \in T
  PROVE  T = Nat
<1>1. SUFFICES ASSUME Nat \ T # {} PROVE FALSE
  OBVIOUS
<1>2. PICK m \in Nat \ T : \A k \in Nat \ T : m <= k
  BY <1>1, Least
<1>3. m # 0 /\ m - 1 \in Nat
  BY <1>2
<1>4. m - 1 \in T
  BY <1>2, <1>3
<1>5. (m - 1) + 1 = m
  BY <1>2
<1>6. QED
  BY <1>2, <1>4, <1>5

(* A loop of N turns over a state of S runs.                                *)
LEMMA Runs ==
  ASSUME NEW S, NEW base \in S, NEW N \in Nat, NEW step \in [1 .. N -> [S -> S]]
  PROVE  \E g \in [0 .. N -> S] :
           g[0] = base /\ \A i \in 1 .. N : g[i] = step[i][g[i - 1]]
<1> DEFINE Run(n, g) ==
             /\ g \in [0 .. n -> S] /\ g[0] = base
             /\ \A i \in 1 .. n : g[i] = step[i][g[i - 1]]
           T == {n \in Nat : n <= N => \E g : Run(n, g)}
<1>1. 0 \in T
  <2>1. Run(0, [i \in 0 .. 0 |-> base])
    OBVIOUS
  <2>2. QED
    BY <2>1
<1>2. ASSUME NEW n \in T PROVE n + 1 \in T
  <2>1. SUFFICES ASSUME n + 1 <= N PROVE \E g : Run(n + 1, g)
    OBVIOUS
  <2>2. n \in Nat
    OBVIOUS
  <2>3. PICK g : Run(n, g)
    BY <1>2, <2>1, <2>2
  <2> DEFINE h == [i \in 0 .. n + 1 |->
                     IF i = n + 1 THEN step[n + 1][g[n]] ELSE g[i]]
  <2>4. g[n] \in S /\ n + 1 \in 1 .. N
    BY <2>1, <2>2, <2>3
  <2>5. step[n + 1][g[n]] \in S
    BY <2>4
  <2>6. h \in [0 .. n + 1 -> S] /\ h[0] = base
    BY <2>2, <2>3, <2>5
  <2>7. ASSUME NEW i \in 1 .. n + 1 PROVE h[i] = step[i][h[i - 1]]
    <3>1. CASE i = n + 1
      <4>1. h[n + 1] = step[n + 1][g[n]] /\ h[n] = g[n]
        BY <2>2
      <4>2. i - 1 = n
        BY <2>2, <3>1
      <4>3. QED
        BY <3>1, <4>1, <4>2
    <3>2. CASE i # n + 1
      BY <2>2, <2>3, <3>2
    <3>3. QED
      BY <3>1, <3>2
  <2>8. QED
    BY <2>6, <2>7
<1>3. T = Nat
  <2> HIDE DEF T
  <2>1. T \in SUBSET Nat
    BY DEF T
  <2>2. QED
    BY <1>1, <1>2, <2>1, Induction
<1>4. PICK g : Run(N, g)
  <2>1. N \in T
    <3> HIDE DEF T
    <3>1. QED
      BY <1>3
  <2>2. QED
    BY <2>1
<1>5. QED
  BY <1>4

(* What every turn of a loop keeps holds after all of them.                 *)
LEMMA LoopInvariant ==
  ASSUME NEW N \in Nat, NEW f, NEW Inv, f[0] \in Inv[0],
         \A n \in 1 .. N : f[n - 1] \in Inv[n - 1] => f[n] \in Inv[n]
  PROVE  \A n \in 0 .. N : f[n] \in Inv[n]
<1> DEFINE T == {n \in Nat : n <= N => f[n] \in Inv[n]}
<1>1. 0 \in T
  OBVIOUS
<1>2. ASSUME NEW n \in T PROVE n + 1 \in T
  <2>1. SUFFICES ASSUME n + 1 <= N PROVE f[n + 1] \in Inv[n + 1]
    OBVIOUS
  <2>2. n \in Nat /\ n + 1 \in 1 .. N /\ (n + 1) - 1 = n
    BY <2>1
  <2>3. f[n] \in Inv[n]
    BY <1>2, <2>1
  <2>4. QED
    BY <2>2, <2>3
<1>3. T = Nat
  <2> HIDE DEF T
  <2>1. T \in SUBSET Nat
    BY DEF T
  <2>2. QED
    BY <1>1, <1>2, <2>1, Induction
<1>4. QED
  BY <1>3

-----------------------------------------------------------------------------
(* Sequence numbers. *)

LEMMA Space == /\ Half \in Nat \ {0} /\ SeqSpace \in Nat \ {0} /\ SeqSpace = 2 * Half
               /\ \A s : s \in SeqNo <=> s \in Nat /\ s < SeqSpace
BY HalfAssumption DEF SeqSpace, SeqNo

(* Seen from a number that is at most half the space behind, the order of   *)
(* the numbers is the order of how far they are ahead of it.                *)
LEMMA OrderedFrom ==
  ASSUME NEW o \in SeqNo, NEW x \in SeqNo, NEW y \in SeqNo,
         AheadOf(o, x) < Half, AheadOf(o, y) < Half
  PROVE  /\ AheadOf(o, x) \in Nat /\ AheadOf(o, y) \in Nat
         /\ AheadOf(o, x) < AheadOf(o, y) => SeqDistance(x, y) > 0
         /\ SeqDistance(x, y) > 0 => AheadOf(o, x) < AheadOf(o, y)
         /\ AheadOf(o, x) = AheadOf(o, y) => x = y
BY Space DEF AheadOf, SeqDistance

(* A newer number is above by less than half the space, or below by more.   *)
LEMMA NewerAbove ==
  ASSUME NEW x \in SeqNo, NEW y \in SeqNo, SeqDistance(x, y) > 0
  PROVE  y - x \in 1 .. Half - 1 \/ y - x < -Half
BY Space DEF AheadOf, SeqDistance

-----------------------------------------------------------------------------
(* Sorted lists. *)

Ordered(list) ==
  \A i, j \in 1 .. Len(list) : i < j => SeqDistance(list[i], list[j]) > 0

Near(o, list) == \A i \in 1 .. Len(list) : AheadOf(o, list[i]) < Half

Sorted(o) == {list \in Seq(SeqNo) : Ordered(list) /\ Near(o, list)}

LEMMA MiddleIndex ==
  ASSUME NEW low \in Nat, NEW high \in Int, low <= high
  PROVE  Mid(low, high) \in low .. high
BY DEF Mid

(* The binary search ends, on any list: the equation of the recursion has a *)
(* solution, over all bounds.                                               *)
LEMMA SearchEquation ==
  ASSUME NEW a \in Seq(SeqNo), NEW value \in SeqNo,
         NEW low \in 0 .. Len(a) + 1, NEW high \in -1 .. Len(a)
  PROVE  Search(a, value)[<<low, high>>]
           = Halve(a, value, Search(a, value), low, high)
<1> DEFINE H(g, b) == Halve(a, value, g, b[1], b[2])
           Width(b) == b[2] - b[1] + 1
           Solves(n, g) == \A b \in Bounds(a) : Width(b) <= n => g[b] = H(g, b)
           T == {n \in Nat : \E g : g = [b \in Bounds(a) |-> g[b]] /\ Solves(n, g)}
<1>1. Len(a) \in Nat
  BY LenProperties
<1>2. ASSUME NEW n \in Int, NEW g, NEW h, NEW b \in Bounds(a), Width(b) <= n + 1,
             \A c \in Bounds(a) : Width(c) <= n => h[c] = g[c]
      PROVE  H(h, b) = H(g, b)
  <2>1. PICK l \in 0 .. Len(a) + 1, r \in -1 .. Len(a) : b = <<l, r>>
    BY DEF Bounds
  <2>2. CASE l > r
    BY <2>1, <2>2 DEF Halve
  <2>3. CASE ~(l > r)
    <3> DEFINE m == Mid(l, r)
    <3>1. m \in l .. r
      BY <1>1, <2>3, MiddleIndex
    <3>2. <<l, m - 1>> \in Bounds(a) /\ <<m + 1, r>> \in Bounds(a)
      BY <1>1, <3>1 DEF Bounds
    <3>3. Width(<<l, m - 1>>) <= n /\ Width(<<m + 1, r>>) <= n
      BY <1>1, <1>2, <2>1, <3>1
    <3>4. h[<<l, m - 1>>] = g[<<l, m - 1>>] /\ h[<<m + 1, r>>] = g[<<m + 1, r>>]
      BY <1>2, <3>2, <3>3
    <3>5. QED
      BY <2>1, <3>4 DEF Halve
  <2>4. QED
    BY <2>2, <2>3
<1>3. 0 \in T
  <2> DEFINE g == [b \in Bounds(a) |-> b[1]]
  <2>1. Solves(0, g)
    BY <1>1 DEF Bounds, Halve
  <2>2. QED
    BY <2>1
<1>4. ASSUME NEW n \in T PROVE n + 1 \in T
  <2>1. n \in Nat /\ n + 1 \in Nat
    OBVIOUS
  <2>2. PICK g : Solves(n, g)
    BY <1>4
  <2> DEFINE h == [b \in Bounds(a) |-> H(g, b)]
  <2> HIDE DEF H, Width
  <2>3. \A c \in Bounds(a) : Width(c) <= n => h[c] = g[c]
    BY <2>2
  <2>4. Solves(n + 1, h)
    BY <1>2, <2>1, <2>3
  <2>5. h = [b \in Bounds(a) |-> h[b]]
    OBVIOUS
  <2>6. QED
    <3> HIDE DEF h, Solves
    <3>1. QED
      BY <2>1, <2>4, <2>5
<1>5. T = Nat
  <2> HIDE DEF T
  <2>1. T \in SUBSET Nat
    BY DEF T
  <2>2. QED
    BY <1>3, <1>4, <2>1, Induction
<1>6. PICK g : g = [b \in Bounds(a) |-> g[b]] /\ Solves(Len(a) + 1, g)
  <2>1. Len(a) + 1 \in T
    BY <1>1, <1>5
  <2>2. QED
    BY <2>1
<1>7. \A b \in Bounds(a) : g[b] = H(g, b)
  <2>1. \A b \in Bounds(a) : Width(b) <= Len(a) + 1
    BY <1>1 DEF Bounds
  <2> HIDE DEF H, Width
  <2>2. QED
    BY <1>6, <2>1
<1>8. g = [b \in Bounds(a) |-> H(g, b)]
  <2> HIDE DEF H
  <2>1. QED
    BY <1>6, <1>7
<1>9. Search(a, value) = [b \in Bounds(a) |-> H(Search(a, value), b)]
  <2>1. Search(a, value) = CHOOSE f : f = [b \in Bounds(a) |-> H(f, b)]
    BY DEF Search
  <2> HIDE DEF H
  <2>2. QED
    BY <1>8, <2>1, Zenon
<1>10. QED
  BY <1>9 DEF Bounds

(* Where the search ends: before the first newer number.                    *)
Place(a, value, r) ==
  IF r = -1 THEN \E i \in 1 .. Len(a) : a[i] = value
  ELSE /\ r \in 0 .. Len(a) - 1
       /\ \A i \in 1 .. Len(a) : IF i <= r THEN SeqDistance(a[i], value) > 0
                                 ELSE SeqDistance(value, a[i]) > 0

LEMMA IndexOfFinds ==
  ASSUME NEW o \in SeqNo, NEW a \in Sorted(o), a # <<>>,
         NEW value \in SeqNo, AheadOf(o, value) < Half,
         ~(SeqDistance(a[Len(a)], value) > 0)
  PROVE  Place(a, value, IndexOf(a, value))
<1>1. /\ a \in Seq(SeqNo) /\ Ordered(a) /\ Near(o, a) /\ Len(a) \in Nat \ {0}
      /\ \A i \in 1 .. Len(a) : a[i] \in SeqNo /\ AheadOf(o, a[i]) < Half
  <2>1. a \in Seq(SeqNo) /\ Ordered(a) /\ Near(o, a)
    BY DEF Sorted
  <2>2. Len(a) \in Nat \ {0} /\ \A i \in 1 .. Len(a) : a[i] \in SeqNo
    BY <2>1, LenProperties, EmptySeq, ElementOfSeq
  <2>3. QED
    BY <2>1, <2>2 DEF Near
<1> DEFINE n == Len(a)
           key(i) == AheadOf(o, a[i])
           v == AheadOf(o, value)
           (* What the loop knows of the bounds.                            *)
           Around(low, high) ==
             /\ low <= high + 1
             /\ \A i \in 1 .. n : (i <= low => key(i) < v) /\ (i > high + 1 => v < key(i))
           Done(low, high) ==
             LET r == Search(a, value)[<<low, high>>]
             IN  IF r = -1 THEN \E i \in 1 .. n : key(i) = v
                 ELSE r \in 0 .. n - 1
                      /\ \A i \in 1 .. n : (i <= r => key(i) < v) /\ (i > r => v < key(i))
           T == {w \in Nat : \A low \in 0 .. n, high \in -1 .. n :
                   Around(low, high) /\ high - low + 1 <= w => Done(low, high)}
<1>2. n \in Nat \ {0} /\ v \in Nat /\ \A i \in 1 .. n : key(i) \in Nat
  BY <1>1, OrderedFrom
<1>3. \A i, j \in 1 .. n : i < j => key(i) < key(j)
  BY <1>1, OrderedFrom DEF Ordered
<1>4. v <= key(n)
  BY <1>1, <1>2, OrderedFrom
<1>5. \A i \in 1 .. n : /\ key(i) < v <=> SeqDistance(a[i], value) > 0
                        /\ v < key(i) <=> SeqDistance(value, a[i]) > 0
                        /\ v = key(i) <=> value = a[i]
  BY <1>1, OrderedFrom
<1>6. ASSUME NEW low \in 0 .. n, NEW high \in -1 .. n, Around(low, high)
      PROVE  low \in 0 .. n - 1
  <2>1. low # n
    BY <1>2, <1>4, <1>6
  <2>2. QED
    BY <1>2, <2>1
<1>7. 0 \in T
  <2>1. SUFFICES ASSUME NEW low \in 0 .. n, NEW high \in -1 .. n,
                        Around(low, high), high - low + 1 <= 0
                 PROVE  Done(low, high)
    OBVIOUS
  <2>2. low = high + 1
    BY <2>1, <1>2
  <2>3. Search(a, value)[<<low, high>>] = low
    <3>1. low \in 0 .. Len(a) + 1 /\ high \in -1 .. Len(a) /\ low > high
      BY <1>1, <2>2
    <3>2. Search(a, value)[<<low, high>>]
            = Halve(a, value, Search(a, value), low, high)
      BY <1>1, <3>1, SearchEquation
    <3>3. QED
      BY <3>1, <3>2 DEF Halve
  <2>4. low \in 0 .. n - 1
    BY <1>6, <2>1
  <2> HIDE DEF key, v, n
  <2>5. QED
    BY <1>2, <2>1, <2>2, <2>3, <2>4
<1>8. ASSUME NEW w \in T PROVE w + 1 \in T
  <2>1. SUFFICES ASSUME NEW low \in 0 .. n, NEW high \in -1 .. n,
                        Around(low, high), high - low + 1 <= w + 1
                 PROVE  Done(low, high)
    OBVIOUS
  <2>2. w \in Nat /\ low \in 0 .. n - 1
    BY <1>6, <2>1
  <2>3. CASE low > high
    <3>1. Around(low, high) /\ high - low + 1 <= w
      BY <2>1, <2>2, <2>3
    <3>2. QED
      BY <1>8, <2>1, <3>1
  <2>4. CASE ~(low > high)
    <3> DEFINE m == Mid(low, high)
    <3>1. m \in low .. high /\ m \in 0 .. n - 1
      <4>1. 2 * m <= low + high /\ m \in low .. high
        BY <2>2, <2>4, MiddleIndex DEF Mid
      <4>2. QED
        BY <1>2, <2>2, <4>1
    <3>2. m + 1 \in 1 .. n /\ n \in Nat
      BY <1>2, <3>1
    <3> DEFINE at == a[m + 1]
               s == Search(a, value)
    <3>3. s[<<low, high>>] = IF value = at THEN -1
                             ELSE IF SeqDistance(value, at) > 0 THEN s[<<low, m - 1>>]
                             ELSE IF SeqDistance(at, value) > 0 THEN s[<<m + 1, high>>]
                             ELSE m
      BY <1>1, <1>2, <2>1, <2>4, SearchEquation DEF Halve
    <3>4. CASE v = key(m + 1)
      <4>1. s[<<low, high>>] = -1
        BY <1>5, <3>2, <3>3, <3>4
      <4>2. QED
        BY <3>2, <3>4, <4>1
    <3>5. CASE v < key(m + 1)
      <4>1. s[<<low, high>>] = s[<<low, m - 1>>]
        BY <1>2, <1>5, <3>2, <3>3, <3>5
      <4>2. m - 1 \in -1 .. n /\ (m - 1) - low + 1 <= w
        BY <1>2, <2>1, <2>2, <3>1
      <4>3. Around(low, m - 1)
        <5>1. low <= (m - 1) + 1
          BY <3>1, <2>2
        <5>2. ASSUME NEW i \in 1 .. n, i > (m - 1) + 1 PROVE v < key(i)
          <6>1. i = m + 1 \/ m + 1 < i
            BY <3>1, <5>2, <1>2
          <6>2. CASE i = m + 1
            BY <3>5, <6>2
          <6>3. CASE m + 1 < i
            <7>1. key(m + 1) < key(i)
              BY <1>3, <3>2, <6>3
            <7>2. key(i) \in Nat /\ key(m + 1) \in Nat /\ v \in Nat
              BY <1>2, <3>2
            <7> HIDE DEF key, v
            <7>3. QED
              BY <3>5, <7>1, <7>2
          <6>4. QED
            BY <6>1, <6>2, <6>3
        <5>3. QED
          BY <2>1, <5>1, <5>2
      <4>4. Done(low, m - 1)
        BY <1>8, <4>2, <4>3, <2>1
      <4>5. QED
        BY <4>1, <4>4
    <3>6. CASE key(m + 1) < v
      <4>1. s[<<low, high>>] = s[<<m + 1, high>>]
        BY <1>2, <1>5, <3>2, <3>3, <3>6
      <4>2. m + 1 \in 0 .. n /\ high - (m + 1) + 1 <= w
        BY <1>2, <2>1, <2>2, <3>1
      <4>3. Around(m + 1, high)
        <5>1. m + 1 <= high + 1
          BY <3>1, <2>2
        <5>2. ASSUME NEW i \in 1 .. n, i <= m + 1 PROVE key(i) < v
          <6>1. i = m + 1 \/ i < m + 1
            BY <3>1, <5>2, <1>2
          <6>2. CASE i = m + 1
            BY <3>6, <6>2
          <6>3. CASE i < m + 1
            <7>1. key(i) < key(m + 1)
              BY <1>3, <3>2, <6>3
            <7>2. key(i) \in Nat /\ key(m + 1) \in Nat /\ v \in Nat
              BY <1>2, <3>2
            <7> HIDE DEF key, v
            <7>3. QED
              BY <3>6, <7>1, <7>2
          <6>4. QED
            BY <6>1, <6>2, <6>3
        <5>3. QED
          BY <2>1, <5>1, <5>2
      <4>4. Done(m + 1, high)
        BY <1>8, <4>2, <4>3, <2>1
      <4>5. QED
        BY <4>1, <4>4
    <3>7. key(m + 1) < v \/ v < key(m + 1) \/ v = key(m + 1)
      BY <1>2, <3>2
    <3>8. QED
      BY <3>4, <3>5, <3>6, <3>7
  <2>5. QED
    BY <2>3, <2>4
<1>9. T = Nat
  <2> HIDE DEF T
  <2>1. T \in SUBSET Nat
    BY DEF T
  <2>2. QED
    BY <1>7, <1>8, <2>1, Induction
<1>10. Done(0, n)
  <2>1. Around(0, n)
    BY <1>2
  <2>2. n + 1 \in T
    <3> HIDE DEF T
    <3>1. QED
      BY <1>2, <1>9
  <2>3. 0 \in 0 .. n /\ n \in -1 .. n
    BY <1>2
  <2>4. QED
    BY <2>1, <2>2, <2>3
<1>11. QED
  BY <1>5, <1>10 DEF Place, IndexOf

LEMMA InsertAtProperties ==
  ASSUME NEW S, NEW list \in Seq(S), NEW k \in 1 .. Len(list) + 1, NEW x \in S
  PROVE  /\ InsertAt(list, k, x) \in Seq(S)
         /\ Len(InsertAt(list, k, x)) = Len(list) + 1
         /\ \A i \in 1 .. Len(list) + 1 :
              InsertAt(list, k, x)[i] = IF i < k THEN list[i]
                                        ELSE IF i = k THEN x ELSE list[i - 1]
<1> DEFINE n == Len(list)
           before == SubSeq(list, 1, k - 1)
           after == SubSeq(list, k, n)
<1>1. n \in Nat /\ \A i \in 1 .. n : list[i] \in S
  BY LenProperties, ElementOfSeq
<1>2. /\ before \in Seq(S) /\ Len(before) = k - 1
      /\ \A i \in 1 .. k - 1 : before[i] = list[i]
  <2>1. \A i \in 1 .. k - 1 : list[i] \in S
    BY <1>1
  <2>2. 1 \in Int /\ k - 1 \in Int
    BY <1>1
  <2>3. /\ before \in Seq(S)
        /\ Len(before) = IF 1 <= k - 1 THEN (k - 1) - 1 + 1 ELSE 0
        /\ \A i \in 1 .. (k - 1) - 1 + 1 : before[i] = list[1 + i - 1]
    BY <2>1, <2>2, SubSeqProperties
  <2> HIDE DEF before
  <2>4. QED
    BY <1>1, <2>3
<1>3. /\ after \in Seq(S) /\ Len(after) = n - k + 1
      /\ \A i \in 1 .. n - k + 1 : after[i] = list[k + i - 1]
  <2>1. \A i \in k .. n : list[i] \in S
    BY <1>1
  <2>2. n \in Int /\ k \in Int
    BY <1>1
  <2>3. /\ after \in Seq(S)
        /\ Len(after) = IF k <= n THEN n - k + 1 ELSE 0
        /\ \A i \in 1 .. n - k + 1 : after[i] = list[k + i - 1]
    BY <2>1, <2>2, SubSeqProperties
  <2> HIDE DEF after
  <2>4. QED
    BY <1>1, <2>3
<1>4. <<x>> \in Seq(S) /\ Len(<<x>>) = 1 /\ <<x>>[1] = x
  OBVIOUS
<1> DEFINE left == before \o <<x>>
<1> HIDE DEF before, after
<1>5. /\ left \in Seq(S) /\ Len(left) = k
      /\ \A i \in 1 .. k : left[i] = IF i < k THEN list[i] ELSE x
  <2>1. /\ left \in Seq(S) /\ Len(left) = Len(before) + 1
        /\ \A i \in 1 .. Len(before) + 1 :
             left[i] = IF i <= Len(before) THEN before[i] ELSE <<x>>[i - Len(before)]
    BY <1>2, <1>4, ConcatProperties
  <2> HIDE DEF left
  <2>2. QED
    BY <1>1, <1>2, <1>4, <2>1
<1>6. InsertAt(list, k, x) = left \o after
  BY DEF InsertAt, left, before, after
<1> HIDE DEF left
<1>7. /\ left \o after \in Seq(S) /\ Len(left \o after) = Len(left) + Len(after)
      /\ \A i \in 1 .. Len(left) + Len(after) :
           (left \o after)[i] = IF i <= Len(left) THEN left[i] ELSE after[i - Len(left)]
  BY <1>3, <1>5, ConcatProperties
<1>8. QED
  <2>1. Len(left) + Len(after) = n + 1
    BY <1>1, <1>3, <1>5
  <2>2. ASSUME NEW i \in 1 .. n + 1
        PROVE  (left \o after)[i] = IF i < k THEN list[i]
                                    ELSE IF i = k THEN x ELSE list[i - 1]
    <3>1. CASE i <= k
      BY <1>1, <1>5, <1>7, <2>1, <3>1
    <3>2. CASE i > k
      <4>1. i - k \in 1 .. n - k + 1 /\ k + (i - k) - 1 = i - 1
        BY <1>1, <3>2
      <4>2. after[i - k] = list[i - 1]
        BY <1>3, <4>1
      <4>3. QED
        BY <1>1, <1>5, <1>7, <2>1, <3>2, <4>2
    <3>3. i <= k \/ i > k
      BY <1>1
    <3>4. QED
      BY <3>1, <3>2, <3>3
  <2>3. QED
    BY <1>6, <1>7, <2>1, <2>2

(* A list with a number put in its place.                                   *)
LEMMA PutInPlace ==
  ASSUME NEW o \in SeqNo, NEW list \in Sorted(o), NEW longer \in Seq(SeqNo),
         NEW x \in SeqNo, AheadOf(o, x) < Half, NEW k \in 1 .. Len(list) + 1,
         Len(longer) = Len(list) + 1,
         \A i \in 1 .. Len(list) + 1 :
           longer[i] = IF i < k THEN list[i] ELSE IF i = k THEN x ELSE list[i - 1],
         \A i \in 1 .. Len(list) : IF i < k THEN SeqDistance(list[i], x) > 0
                                   ELSE SeqDistance(x, list[i]) > 0
  PROVE  longer \in Sorted(o) /\ ToSet(longer) = ToSet(list) \cup {x}
<1> DEFINE n == Len(list)
<1>1. /\ list \in Seq(SeqNo) /\ Ordered(list) /\ Near(o, list) /\ n \in Nat
      /\ DOMAIN list = 1 .. n /\ DOMAIN longer = 1 .. n + 1
  <2>1. list \in Seq(SeqNo) /\ Ordered(list) /\ Near(o, list)
    BY DEF Sorted
  <2>2. QED
    BY <2>1, LenProperties
<1>2. Ordered(longer)
  <2>1. SUFFICES ASSUME NEW i \in 1 .. n + 1, NEW j \in 1 .. n + 1, i < j
                 PROVE  SeqDistance(longer[i], longer[j]) > 0
    BY DEF Ordered
  <2>2. CASE j < k
    <3>1. longer[i] = list[i] /\ longer[j] = list[j] /\ i \in 1 .. n /\ j \in 1 .. n
      BY <1>1, <2>1, <2>2
    <3>2. QED
      BY <1>1, <2>1, <3>1 DEF Ordered
  <2>3. CASE j = k
    <3>1. longer[i] = list[i] /\ longer[j] = x /\ i \in 1 .. n /\ i < k
      BY <1>1, <2>1, <2>3
    <3>2. QED
      BY <3>1
  <2>4. CASE j > k /\ i < k
    <3>1. /\ longer[i] = list[i] /\ longer[j] = list[j - 1]
          /\ i \in 1 .. n /\ j - 1 \in 1 .. n /\ i < j - 1
      BY <1>1, <2>1, <2>4
    <3>2. QED
      BY <1>1, <3>1 DEF Ordered
  <2>5. CASE i = k
    <3>1. longer[i] = x /\ longer[j] = list[j - 1] /\ j - 1 \in 1 .. n /\ ~(j - 1 < k)
      BY <1>1, <2>1, <2>5
    <3>2. QED
      BY <3>1
  <2>6. CASE i > k
    <3>1. /\ longer[i] = list[i - 1] /\ longer[j] = list[j - 1]
          /\ i - 1 \in 1 .. n /\ j - 1 \in 1 .. n /\ i - 1 < j - 1
      BY <1>1, <2>1, <2>6
    <3>2. QED
      BY <1>1, <3>1 DEF Ordered
  <2>7. QED
    BY <1>1, <2>1, <2>2, <2>3, <2>4, <2>5, <2>6
<1>3. ASSUME NEW i \in 1 .. n + 1
      PROVE  longer[i] = x \/ \E j \in 1 .. n : longer[i] = list[j]
  <2>1. CASE i < k
    <3>1. i \in 1 .. n
      BY <1>1, <2>1
    <3>2. QED
      BY <2>1, <3>1
  <2>2. CASE i = k
    BY <2>2
  <2>3. CASE i > k
    <3>1. i - 1 \in 1 .. n
      BY <1>1, <2>3
    <3>2. QED
      BY <1>1, <2>3, <3>1
  <2>4. QED
    BY <1>1, <2>1, <2>2, <2>3
<1>4. Near(o, longer)
  BY <1>1, <1>3 DEF Near
<1>5. ASSUME NEW j \in 1 .. n PROVE \E i \in 1 .. n + 1 : longer[i] = list[j]
  <2>1. CASE j < k
    <3>1. j \in 1 .. n + 1 /\ longer[j] = list[j]
      BY <1>1, <2>1
    <3>2. QED
      BY <3>1
  <2>2. CASE ~(j < k)
    <3>1. j + 1 \in 1 .. n + 1 /\ longer[j + 1] = list[j]
      BY <1>1, <2>2
    <3>2. QED
      BY <3>1
  <2>3. QED
    BY <2>1, <2>2
<1>6. longer[k] = x /\ k \in 1 .. n + 1
  BY <1>1
<1>7. ToSet(longer) = ToSet(list) \cup {x}
  <2>1. /\ \A y : y \in ToSet(longer) <=> \E i \in 1 .. n + 1 : y = longer[i]
        /\ \A y : y \in ToSet(list) <=> \E j \in 1 .. n : y = list[j]
    BY <1>1 DEF ToSet
  <2>2. \A y : y \in ToSet(longer) => y \in ToSet(list) \cup {x}
    BY <1>3, <2>1
  <2>3. \A y : y \in ToSet(list) => y \in ToSet(longer)
    BY <1>5, <2>1
  <2>4. x \in ToSet(longer)
    BY <1>6, <2>1
  <2>5. QED
    BY <2>2, <2>3, <2>4
<1>8. QED
  BY <1>2, <1>4, <1>7 DEF Sorted

(* yang_rtcpNack_addSn keeps the list sorted and adds the number, unless it *)
(* is there.                                                                *)
LEMMA AddSnSorts ==
  ASSUME NEW o \in SeqNo, NEW list \in Sorted(o),
         NEW sn \in SeqNo, AheadOf(o, sn) < Half
  PROVE  AddSn(list, sn) \in Sorted(o) /\ ToSet(AddSn(list, sn)) = ToSet(list) \cup {sn}
<1> DEFINE n == Len(list)
<1>1. /\ list \in Seq(SeqNo) /\ Ordered(list) /\ Near(o, list) /\ n \in Nat
      /\ DOMAIN list = 1 .. n /\ \A i \in 1 .. n : list[i] \in SeqNo /\ AheadOf(o, list[i]) < Half
  <2>1. list \in Seq(SeqNo) /\ Ordered(list) /\ Near(o, list)
    BY DEF Sorted
  <2>2. n \in Nat /\ DOMAIN list = 1 .. n /\ \A i \in 1 .. n : list[i] \in SeqNo
    BY <2>1, LenProperties, ElementOfSeq
  <2>3. QED
    BY <2>1, <2>2 DEF Near
<1>2. CASE list = <<>> \/ SeqDistance(list[n], sn) > 0
  <2>1. AddSn(list, sn) = Append(list, sn)
    BY <1>2 DEF AddSn, Last
  <2> DEFINE longer == Append(list, sn)
  <2>2. /\ longer \in Seq(SeqNo) /\ Len(longer) = n + 1
        /\ \A i \in 1 .. n : longer[i] = list[i]
        /\ longer[n + 1] = sn
    BY <1>1, AppendProperties
  <2>3. n + 1 \in 1 .. n + 1
    BY <1>1
  <2>4. ASSUME NEW i \in 1 .. n PROVE SeqDistance(list[i], sn) > 0
    <3>1. n # 0 /\ n \in 1 .. n /\ list # <<>>
      BY <1>1, <2>4, EmptySeq
    <3>2. SeqDistance(list[n], sn) > 0
      BY <1>2, <3>1
    <3>3. CASE i = n
      BY <3>2, <3>3
    <3>4. CASE i < n
      <4>1. SeqDistance(list[i], list[n]) > 0
        BY <1>1, <3>1, <3>4 DEF Ordered
      <4>2. /\ AheadOf(o, list[i]) < AheadOf(o, list[n])
            /\ AheadOf(o, list[n]) < AheadOf(o, sn)
        BY <1>1, <3>1, <3>2, <4>1, OrderedFrom
      <4>3. /\ AheadOf(o, list[i]) \in Nat /\ AheadOf(o, list[n]) \in Nat
            /\ AheadOf(o, sn) \in Nat
        BY <1>1, <3>1, OrderedFrom
      <4>4. AheadOf(o, list[i]) < AheadOf(o, sn)
        BY <4>2, <4>3
      <4>5. QED
        BY <1>1, <4>4, OrderedFrom
    <3>5. i = n \/ i < n
      <4>1. n \in Nat
        BY <1>1
      <4>2. QED
        BY <4>1
    <3>6. QED
      BY <3>3, <3>4, <3>5
  <2> HIDE DEF longer
  <2>5. /\ \A i \in 1 .. n + 1 : longer[i] = IF i < n + 1 THEN list[i]
                                             ELSE IF i = n + 1 THEN sn ELSE list[i - 1]
        /\ \A i \in 1 .. n : IF i < n + 1 THEN SeqDistance(list[i], sn) > 0
                             ELSE SeqDistance(sn, list[i]) > 0
    BY <1>1, <2>2, <2>4
  <2>6. longer \in Sorted(o) /\ ToSet(longer) = ToSet(list) \cup {sn}
    BY <2>2, <2>3, <2>5, PutInPlace
  <2>7. QED
    BY <2>1, <2>6 DEF longer
<1>3. CASE ~(list = <<>> \/ SeqDistance(list[n], sn) > 0)
  <2> DEFINE r == IndexOf(list, sn)
  <2>1. Place(list, sn, r)
    BY <1>3, IndexOfFinds
  <2>2. AddSn(list, sn) = IF r = -1 THEN list ELSE InsertAt(list, r + 1, sn)
    BY <1>3 DEF AddSn, Last
  <2> HIDE DEF r
  <2>3. CASE r = -1
    <3>1. \E i \in 1 .. n : list[i] = sn
      BY <2>1, <2>3 DEF Place
    <3>2. sn \in ToSet(list)
      BY <1>1, <3>1 DEF ToSet
    <3>3. QED
      BY <2>2, <2>3, <3>2
  <2>4. CASE r # -1
    <3>1. /\ r \in 0 .. n - 1
          /\ \A i \in 1 .. n : IF i <= r THEN SeqDistance(list[i], sn) > 0
                               ELSE SeqDistance(sn, list[i]) > 0
      BY <2>1, <2>4 DEF Place
    <3>2. PICK k \in 1 .. n + 1 : k = r + 1
      BY <1>1, <3>1
    <3> DEFINE longer == InsertAt(list, k, sn)
    <3>3. \A i \in 1 .. n : IF i < k THEN SeqDistance(list[i], sn) > 0
                            ELSE SeqDistance(sn, list[i]) > 0
      BY <1>1, <3>1, <3>2
    <3>4. /\ longer \in Seq(SeqNo) /\ Len(longer) = n + 1
          /\ \A i \in 1 .. n + 1 : longer[i] = IF i < k THEN list[i]
                                               ELSE IF i = k THEN sn ELSE list[i - 1]
      BY <1>1, InsertAtProperties
    <3> HIDE DEF longer
    <3>5. longer \in Sorted(o) /\ ToSet(longer) = ToSet(list) \cup {sn}
      BY <1>1, <3>3, <3>4, PutInPlace
    <3>6. QED
      BY <2>2, <2>4, <3>2, <3>5 DEF longer
  <2>5. QED
    BY <2>3, <2>4
<1>4. QED
  BY <1>2, <1>3

-----------------------------------------------------------------------------
(* Reading a packet. *)

LEMMA Remainder ==
  ASSUME NEW n \in Nat
  PROVE  n % SeqSpace \in SeqNo
BY Space DEF SeqNo

(* The turns over the bits of a chunk.                                      *)
ReadBit(list, c, j) ==
  IF j - 1 \in c.blp THEN AddSn(list, (c.pid + j) % SeqSpace) ELSE list

LEMMA ReadBitSorts ==
  ASSUME NEW o \in SeqNo, NEW list \in Sorted(o), NEW c \in Chunk, NEW j \in 1 .. BlpBits,
         \A s \in Contents(c) : AheadOf(o, s) < Half
  PROVE  /\ ReadBit(list, c, j) \in Sorted(o)
         /\ ToSet(ReadBit(list, c, j))
              = ToSet(list) \cup {(c.pid + k + 1) % SeqSpace : k \in c.blp \cap {j - 1}}
<1>1. c.pid \in SeqNo /\ c.pid \in Nat /\ j \in Nat /\ (j - 1) + 1 = j
  BY CodecAssumption, Space DEF Chunk
<1>2. CASE j - 1 \in c.blp
  <2> DEFINE sn == (c.pid + j) % SeqSpace
  <2>1. sn \in SeqNo
    BY <1>1, Remainder
  <2>2. sn = (c.pid + (j - 1) + 1) % SeqSpace
    <3>1. c.pid + j = c.pid + (j - 1) + 1
      BY <1>1
    <3>2. QED
      BY <3>1
  <2>3. AheadOf(o, sn) < Half
    BY <1>2, <2>2 DEF Contents
  <2>4. {(c.pid + k + 1) % SeqSpace : k \in c.blp \cap {j - 1}} = {sn}
    <3>1. c.blp \cap {j - 1} = {j - 1}
      BY <1>2
    <3> HIDE DEF sn
    <3>2. QED
      BY <2>2, <3>1
  <2>5. ReadBit(list, c, j) = AddSn(list, sn)
    BY <1>2 DEF ReadBit
  <2> HIDE DEF sn
  <2>6. QED
    BY <2>1, <2>3, <2>4, <2>5, AddSnSorts
<1>3. CASE j - 1 \notin c.blp
  <2>1. {(c.pid + k + 1) % SeqSpace : k \in c.blp \cap {j - 1}} = {}
    BY <1>3
  <2>2. QED
    BY <1>3, <2>1 DEF ReadBit
<1>4. QED
  BY <1>2, <1>3

LEMMA UnpackedEquation ==
  ASSUME NEW o \in SeqNo, NEW list \in Sorted(o), NEW c \in Chunk,
         \A s \in Contents(c) : AheadOf(o, s) < Half
  PROVE  /\ Unpacked(list, c)[0] = AddSn(list, c.pid)
         /\ \A j \in 1 .. BlpBits : Unpacked(list, c)[j] = ReadBit(Unpacked(list, c)[j - 1], c, j)
<1> DEFINE base == AddSn(list, c.pid)
           step == [j \in 1 .. BlpBits |-> [l \in Sorted(o) |-> ReadBit(l, c, j)]]
           Turn(g, j) == IF j = 0 THEN base ELSE ReadBit(g[j - 1], c, j)
<1>1. BlpBits \in Nat /\ c.pid \in SeqNo /\ AheadOf(o, c.pid) < Half
  BY CodecAssumption DEF Chunk, Contents
<1>2. base \in Sorted(o)
  BY <1>1, AddSnSorts
<1>3. step \in [1 .. BlpBits -> [Sorted(o) -> Sorted(o)]]
  <2>1. \A l \in Sorted(o), j \in 1 .. BlpBits : ReadBit(l, c, j) \in Sorted(o)
    BY ReadBitSorts
  <2>2. QED
    BY <2>1
<1> HIDE DEF base, step
<1>4. PICK g \in [0 .. BlpBits -> Sorted(o)] :
             g[0] = base /\ \A j \in 1 .. BlpBits : g[j] = step[j][g[j - 1]]
  <2>1. \E g \in [0 .. BlpBits -> Sorted(o)] :
          g[0] = base /\ \A j \in 1 .. BlpBits : g[j] = step[j][g[j - 1]]
    BY <1>1, <1>2, <1>3, Runs
  <2>2. QED
    BY <2>1
<1>5. ASSUME NEW j \in 1 .. BlpBits PROVE g[j] = ReadBit(g[j - 1], c, j)
  <2>1. g[j - 1] \in Sorted(o)
    BY <1>1, <1>4
  <2>2. step[j][g[j - 1]] = ReadBit(g[j - 1], c, j)
    BY <2>1 DEF step
  <2>3. QED
    BY <1>4, <2>2
<1>6. g = [j \in 0 .. BlpBits |-> Turn(g, j)]
  BY <1>1, <1>4, <1>5
<1>7. Unpacked(list, c) = CHOOSE f : f = [j \in 0 .. BlpBits |-> Turn(f, j)]
  BY DEF Unpacked, base, ReadBit
<1> HIDE DEF Turn
<1>8. Unpacked(list, c) = [j \in 0 .. BlpBits |-> Turn(Unpacked(list, c), j)]
  BY <1>6, <1>7, Zenon
<1> DEFINE u == Unpacked(list, c)
<1> HIDE DEF u
<1>9. u = [j \in 0 .. BlpBits |-> Turn(u, j)]
  BY <1>8 DEF u
<1>10. u[0] = base /\ \A j \in 1 .. BlpBits : u[j] = ReadBit(u[j - 1], c, j)
  BY <1>1, <1>9 DEF Turn
<1>11. QED
  BY <1>10 DEF u, base

(* Reading a chunk adds what it stands for.                                 *)
LEMMA UnpackedSorts ==
  ASSUME NEW o \in SeqNo, NEW list \in Sorted(o), NEW c \in Chunk,
         \A s \in Contents(c) : AheadOf(o, s) < Half
  PROVE  /\ Unpacked(list, c)[BlpBits] \in Sorted(o)
         /\ ToSet(Unpacked(list, c)[BlpBits]) = ToSet(list) \cup Contents(c)
<1> DEFINE u == Unpacked(list, c)
           Read(j) == {(c.pid + k + 1) % SeqSpace : k \in c.blp \cap 0 .. j - 1}
           Inv == [j \in 0 .. BlpBits |->
                     {l \in Sorted(o) : ToSet(l) = ToSet(list) \cup {c.pid} \cup Read(j)}]
<1>1. BlpBits \in Nat /\ c.pid \in SeqNo /\ AheadOf(o, c.pid) < Half
  BY CodecAssumption DEF Chunk, Contents
<1>2. c.blp \subseteq 0 .. BlpBits - 1
  BY DEF Chunk
<1>3. u[0] \in Inv[0]
  <2>1. u[0] = AddSn(list, c.pid)
    BY UnpackedEquation
  <2>2. AddSn(list, c.pid) \in Sorted(o) /\ ToSet(AddSn(list, c.pid)) = ToSet(list) \cup {c.pid}
    BY <1>1, AddSnSorts
  <2>3. Read(0) = {}
    BY <1>2
  <2> HIDE DEF u, Read
  <2>4. QED
    BY <1>1, <2>1, <2>2, <2>3
<1>4. ASSUME NEW j \in 1 .. BlpBits, u[j - 1] \in Inv[j - 1]
      PROVE  u[j] \in Inv[j]
  <2>1. u[j - 1] \in Sorted(o) /\ ToSet(u[j - 1]) = ToSet(list) \cup {c.pid} \cup Read(j - 1)
    <3> HIDE DEF u, Read
    <3>1. QED
      BY <1>1, <1>4
  <2>2. u[j] = ReadBit(u[j - 1], c, j)
    BY UnpackedEquation
  <2> DEFINE new == {(c.pid + k + 1) % SeqSpace : k \in c.blp \cap {j - 1}}
  <2>3. ReadBit(u[j - 1], c, j) \in Sorted(o)
        /\ ToSet(ReadBit(u[j - 1], c, j)) = ToSet(u[j - 1]) \cup new
    <3> HIDE DEF u
    <3>1. QED
      BY <2>1, ReadBitSorts
  <2>4. Read(j) = Read(j - 1) \cup new
    <3>1. c.blp \cap 0 .. j - 1 = (c.blp \cap 0 .. (j - 1) - 1) \cup (c.blp \cap {j - 1})
      BY <1>1, <1>2
    <3>2. QED
      BY <3>1
  <2> HIDE DEF u, Read, new
  <2>5. QED
    BY <1>1, <2>1, <2>2, <2>3, <2>4
<1>5. u[BlpBits] \in Inv[BlpBits]
  <2>1. \A j \in 0 .. BlpBits : u[j] \in Inv[j]
    <3> HIDE DEF u, Inv
    <3>1. QED
      BY <1>1, <1>3, <1>4, LoopInvariant
  <2> HIDE DEF u, Inv
  <2>2. QED
    BY <1>1, <2>1
<1>6. c.blp \cap 0 .. BlpBits - 1 = c.blp
  BY <1>2
<1>7. {c.pid} \cup Read(BlpBits) = Contents(c)
  BY <1>6 DEF Contents
<1>8. QED
  <2> HIDE DEF u, Read
  <2>1. u[BlpBits] \in Sorted(o)
        /\ ToSet(u[BlpBits]) = ToSet(list) \cup {c.pid} \cup Read(BlpBits)
    BY <1>1, <1>5
  <2>2. QED
    BY <1>7, <2>1 DEF u

(* The numbers of a packet, seen from the oldest of them.                   *)
From(o, cs) == \A i \in 1 .. Len(cs) : \A s \in Contents(cs[i]) : AheadOf(o, s) < Half

Packets(o) == {cs \in Seq(Chunk) : From(o, cs)}

LEMMA DecodedEquation ==
  ASSUME NEW o \in SeqNo, NEW cs \in Packets(o)
  PROVE  /\ Decoded(cs)[0] = <<>>
         /\ \A n \in 1 .. Len(cs) : Decoded(cs)[n] = Unpacked(Decoded(cs)[n - 1], cs[n])[BlpBits]
<1> DEFINE N == Len(cs)
           empty == <<>>
           step == [n \in 1 .. N |-> [l \in Sorted(o) |-> Unpacked(l, cs[n])[BlpBits]]]
           Turn(g, n) == IF n = 0 THEN empty ELSE Unpacked(g[n - 1], cs[n])[BlpBits]
<1>1. N \in Nat
  BY LenProperties DEF Packets
<1>2. empty \in Sorted(o)
  BY EmptySeq DEF Sorted, Ordered, Near
<1>3. step \in [1 .. N -> [Sorted(o) -> Sorted(o)]]
  <2>1. ASSUME NEW l \in Sorted(o), NEW n \in 1 .. N
        PROVE  Unpacked(l, cs[n])[BlpBits] \in Sorted(o)
    <3>1. \A s \in Contents(cs[n]) : AheadOf(o, s) < Half
      BY DEF Packets, From
    <3>2. cs[n] \in Chunk
      BY ElementOfSeq DEF Packets
    <3>3. QED
      BY <3>1, <3>2, UnpackedSorts
  <2>2. QED
    BY <2>1
<1> HIDE DEF step, N, empty
<1>4. PICK g \in [0 .. N -> Sorted(o)] :
             g[0] = empty /\ \A n \in 1 .. N : g[n] = step[n][g[n - 1]]
  <2>1. \E g \in [0 .. N -> Sorted(o)] :
          g[0] = empty /\ \A n \in 1 .. N : g[n] = step[n][g[n - 1]]
    BY <1>1, <1>2, <1>3, Runs
  <2>2. QED
    BY <2>1
<1>5. ASSUME NEW n \in 1 .. N PROVE g[n] = Unpacked(g[n - 1], cs[n])[BlpBits]
  <2>1. g[n - 1] \in Sorted(o)
    BY <1>1, <1>4
  <2>2. step[n][g[n - 1]] = Unpacked(g[n - 1], cs[n])[BlpBits]
    BY <2>1 DEF step
  <2>3. QED
    BY <1>4, <2>2
<1>6. g = [n \in 0 .. N |-> Turn(g, n)]
  BY <1>1, <1>4, <1>5
<1>7. Decoded(cs) = CHOOSE f : f = [n \in 0 .. N |-> Turn(f, n)]
  BY DEF Decoded, N, empty
<1> HIDE DEF Turn
<1>8. Decoded(cs) = [n \in 0 .. N |-> Turn(Decoded(cs), n)]
  BY <1>6, <1>7, Zenon
<1> DEFINE d == Decoded(cs)
<1> HIDE DEF d
<1>9. d = [n \in 0 .. N |-> Turn(d, n)]
  BY <1>8 DEF d
<1>10. d[0] = empty /\ \A n \in 1 .. N : d[n] = Unpacked(d[n - 1], cs[n])[BlpBits]
  BY <1>1, <1>9 DEF Turn
<1>11. QED
  BY <1>10 DEF d, N, empty

(* Reading a packet collects what its chunks stand for, sorted.             *)
LEMMA DecodeSorts ==
  ASSUME NEW o \in SeqNo, NEW cs \in Packets(o)
  PROVE  /\ Decode(cs) \in Sorted(o)
         /\ ToSet(Decode(cs)) = UNION {Contents(cs[i]) : i \in 1 .. Len(cs)}
<1> DEFINE N == Len(cs)
           d == Decoded(cs)
           Read(n) == UNION {Contents(cs[i]) : i \in 1 .. n}
           Inv == [n \in 0 .. N |-> {l \in Sorted(o) : ToSet(l) = Read(n)}]
<1>1. N \in Nat
  BY LenProperties DEF Packets
<1>2. d[0] \in Inv[0]
  <2>1. d[0] = <<>>
    BY DecodedEquation
  <2>2. <<>> \in Sorted(o) /\ ToSet(<<>>) = {}
    BY EmptySeq DEF Sorted, Ordered, Near, ToSet
  <2>3. Read(0) = {}
    OBVIOUS
  <2>4. d[0] \in Sorted(o) /\ ToSet(d[0]) = Read(0)
    BY <2>1, <2>2, <2>3, Zenon
  <2>5. 0 \in 0 .. N
    BY <1>1
  <2> HIDE DEF d, Read, N
  <2>6. QED
    BY <2>4, <2>5
<1>3. ASSUME NEW n \in 1 .. N, d[n - 1] \in Inv[n - 1] PROVE d[n] \in Inv[n]
  <2>1. d[n - 1] \in Sorted(o) /\ ToSet(d[n - 1]) = Read(n - 1)
    <3> HIDE DEF d, Read, N
    <3>1. QED
      BY <1>1, <1>3
  <2>2. d[n] = Unpacked(d[n - 1], cs[n])[BlpBits]
    BY DecodedEquation
  <2>3. \A s \in Contents(cs[n]) : AheadOf(o, s) < Half
    BY DEF Packets, From
  <2>4. d[n] \in Sorted(o) /\ ToSet(d[n]) = ToSet(d[n - 1]) \cup Contents(cs[n])
    <3>1. cs[n] \in Chunk
      BY ElementOfSeq DEF Packets
    <3> HIDE DEF d
    <3>2. QED
      BY <2>1, <2>2, <2>3, <3>1, UnpackedSorts
  <2>5. Read(n) = Read(n - 1) \cup Contents(cs[n])
    <3>1. 1 .. n = (1 .. n - 1) \cup {n}
      BY <1>1
    <3>2. QED
      BY <3>1
  <2>6. d[n] \in Sorted(o) /\ ToSet(d[n]) = Read(n)
    BY <2>1, <2>4, <2>5
  <2>7. n \in 0 .. N
    BY <1>1
  <2> HIDE DEF d, Read, N
  <2>8. QED
    BY <2>6, <2>7
<1>4. \A n \in 0 .. N : d[n] \in Inv[n]
  <2> HIDE DEF d, Inv
  <2>1. QED
    BY <1>1, <1>2, <1>3, LoopInvariant
<1>5. d[N] \in Sorted(o) /\ ToSet(d[N]) = Read(N)
  <2> HIDE DEF d, Read, N
  <2>1. QED
    BY <1>1, <1>4
<1>6. QED
  BY <1>5 DEF Decode

-----------------------------------------------------------------------------
(* Packing a list. *)

Lists == {list \in Seq(SeqNo) : Ordered(list)}

LEMMA Listed ==
  ASSUME NEW list \in Lists
  PROVE  /\ Len(list) \in Nat /\ DOMAIN list = 1 .. Len(list)
         /\ \A i \in 1 .. Len(list) : list[i] \in SeqNo
         /\ \A i, j \in 1 .. Len(list) : i < j => SeqDistance(list[i], list[j]) > 0
<1>1. list \in Seq(SeqNo) /\ Ordered(list)
  BY DEF Lists
<1>2. QED
  BY <1>1, LenProperties, ElementOfSeq DEF Ordered

PackState == [inUse : BOOLEAN, done : Seq(Chunk), chunk : Chunk]

LEMMA PackKeepsType ==
  ASSUME NEW st \in PackState, NEW sn \in SeqNo
  PROVE  Pack(st, sn) \in PackState
<1>1. /\ st.inUse \in BOOLEAN /\ st.done \in Seq(Chunk) /\ st.chunk \in Chunk
      /\ st = [inUse |-> st.inUse, done |-> st.done, chunk |-> st.chunk]
  BY DEF PackState
<1>2. st.chunk.pid \in SeqNo /\ st.chunk.blp \subseteq 0 .. BlpBits - 1
  BY <1>1 DEF Chunk
<1>3. sn \in Int /\ st.chunk.pid \in Int /\ BlpBits \in Nat
  BY <1>2, Space, CodecAssumption
<1> DEFINE reach == sn - st.chunk.pid
<1>4. CASE ~st.inUse
  <2>1. [pid |-> sn, blp |-> {}] \in Chunk
    BY DEF Chunk
  <2>2. Pack(st, sn) = [inUse |-> TRUE, done |-> st.done, chunk |-> [pid |-> sn, blp |-> {}]]
    BY <1>1, <1>4 DEF Pack
  <2>3. QED
    BY <1>1, <2>1, <2>2 DEF PackState
<1>5. CASE st.inUse /\ reach < 1
  BY <1>5 DEF Pack
<1>6. CASE st.inUse /\ ~(reach < 1) /\ reach > BlpBits
  <2>1. Pack(st, sn) = [inUse |-> FALSE, done |-> Append(st.done, st.chunk), chunk |-> st.chunk]
    BY <1>1, <1>6 DEF Pack
  <2>2. Append(st.done, st.chunk) \in Seq(Chunk)
    BY <1>1, AppendProperties
  <2>3. QED
    BY <1>1, <2>1, <2>2 DEF PackState
<1>7. CASE st.inUse /\ ~(reach < 1) /\ ~(reach > BlpBits)
  <2> DEFINE marked == [pid |-> st.chunk.pid, blp |-> st.chunk.blp \cup {reach - 1}]
  <2>1. reach - 1 \in 0 .. BlpBits - 1
    BY <1>3, <1>7
  <2>2. marked \in Chunk
    <3> HIDE DEF reach
    <3>1. QED
      BY <1>2, <2>1 DEF Chunk
  <2>3. [st.chunk EXCEPT !.blp = @ \cup {reach - 1}] = marked
    <3>1. ASSUME NEW c \in Chunk, NEW bits
          PROVE  [c EXCEPT !.blp = bits] = [pid |-> c.pid, blp |-> bits]
      BY DEF Chunk
    <3> HIDE DEF reach
    <3>2. QED
      BY <1>1, <3>1
  <2>4. Pack(st, sn) = [inUse |-> st.inUse, done |-> st.done, chunk |-> marked]
    BY <1>1, <1>7, <2>3 DEF Pack
  <2>5. QED
    BY <1>1, <2>2, <2>4 DEF PackState
<1>8. QED
  BY <1>4, <1>5, <1>6, <1>7

LEMMA PackedEquation ==
  ASSUME NEW list \in Lists
  PROVE  /\ Packed(list)[0] = NoChunk
         /\ \A n \in 0 .. Len(list) : Packed(list)[n] \in PackState
         /\ \A n \in 1 .. Len(list) : Packed(list)[n] = Pack(Packed(list)[n - 1], list[n])
<1> DEFINE N == Len(list)
           empty == NoChunk
           step == [n \in 1 .. N |-> [st \in PackState |-> Pack(st, list[n])]]
           Turn(g, n) == IF n = 0 THEN empty ELSE Pack(g[n - 1], list[n])
<1>1. N \in Nat
  BY Listed
<1>2. empty \in PackState
  <2>1. 0 \in SeqNo
    BY Space
  <2>2. QED
    BY <2>1 DEF PackState, NoChunk, Chunk
<1>3. step \in [1 .. N -> [PackState -> PackState]]
  <2>1. \A st \in PackState, n \in 1 .. N : Pack(st, list[n]) \in PackState
    BY Listed, PackKeepsType
  <2>2. QED
    BY <2>1
<1> HIDE DEF step, N, empty
<1>4. PICK g \in [0 .. N -> PackState] :
             g[0] = empty /\ \A n \in 1 .. N : g[n] = step[n][g[n - 1]]
  <2>1. \E g \in [0 .. N -> PackState] :
          g[0] = empty /\ \A n \in 1 .. N : g[n] = step[n][g[n - 1]]
    BY <1>1, <1>2, <1>3, Runs
  <2>2. QED
    BY <2>1
<1>5. ASSUME NEW n \in 1 .. N PROVE g[n] = Pack(g[n - 1], list[n])
  <2>1. g[n - 1] \in PackState
    BY <1>1, <1>4
  <2>2. step[n][g[n - 1]] = Pack(g[n - 1], list[n])
    BY <2>1 DEF step
  <2>3. QED
    BY <1>4, <2>2
<1>6. g = [n \in 0 .. N |-> Turn(g, n)]
  BY <1>1, <1>4, <1>5
<1>7. Packed(list) = CHOOSE f : f = [n \in 0 .. N |-> Turn(f, n)]
  BY DEF Packed, N, empty
<1> HIDE DEF Turn
<1>8. Packed(list) = [n \in 0 .. N |-> Turn(Packed(list), n)]
  BY <1>6, <1>7, Zenon
<1> DEFINE p == Packed(list)
<1> HIDE DEF p
<1>9. p = [n \in 0 .. N |-> Turn(p, n)]
  BY <1>8 DEF p
<1>10. p[0] = empty /\ \A n \in 1 .. N : p[n] = Pack(p[n - 1], list[n])
  BY <1>1, <1>9 DEF Turn
<1> DEFINE Inv == [n \in 0 .. N |-> PackState]
<1>11. \A n \in 0 .. N : p[n] \in Inv[n]
  <2>1. p[0] \in Inv[0]
    BY <1>1, <1>2, <1>10
  <2>2. ASSUME NEW n \in 1 .. N, p[n - 1] \in Inv[n - 1] PROVE p[n] \in Inv[n]
    <3>1. n - 1 \in 0 .. N /\ n \in 0 .. N
      BY <1>1
    <3>2. p[n - 1] \in PackState /\ list[n] \in SeqNo
      BY <2>2, <3>1, Listed DEF N
    <3>3. p[n] \in PackState
      BY <1>10, <3>2, PackKeepsType
    <3>4. QED
      BY <3>1, <3>3
  <2> HIDE DEF Inv
  <2>3. QED
    BY <1>1, <2>1, <2>2, LoopInvariant
<1>12. QED
  BY <1>10, <1>11 DEF p, N, empty

(* After n numbers: a chunk stands for listed numbers only, and for all of  *)
(* them within its reach; a closed one has met a number beyond its reach.   *)
Held(list, n, c) ==
  /\ c \in Chunk
  /\ \E m \in 1 .. n : c.pid = list[m]
  /\ \A s \in Contents(c) : \E i \in 1 .. n : s = list[i]
  /\ \A i \in 1 .. n : list[i] - c.pid \in 0 .. BlpBits => list[i] \in Contents(c)

Passed(list, n, c) ==
  \E m, k \in 1 .. n : m < k /\ c.pid = list[m] /\ list[k] - list[m] > BlpBits

(* A number newer than one beyond the reach of a chunk is not within it.    *)
LEMMA Beyond ==
  ASSUME NEW p \in SeqNo, NEW z \in SeqNo, NEW sn \in SeqNo,
         SeqDistance(p, z) > 0, SeqDistance(z, sn) > 0, z - p > BlpBits
  PROVE  sn - p \notin 0 .. BlpBits
<1>1. p \in Int /\ z \in Int /\ sn \in Int /\ Half \in Nat /\ BlpBits \in Nat /\ BlpBits < Half
  BY Space, CodecAssumption
<1>2. z - p \in 1 .. Half - 1
  <2>1. z - p \in 1 .. Half - 1 \/ z - p < -Half
    BY NewerAbove
  <2>2. QED
    BY <1>1, <2>1
<1>3. sn - z \in 1 .. Half - 1 \/ sn - z < -Half
  BY NewerAbove
<1>4. QED
  BY <1>1, <1>2, <1>3

LEMMA PassedStays ==
  ASSUME NEW list \in Lists, NEW n \in 1 .. Len(list), NEW c,
         Held(list, n - 1, c), Passed(list, n - 1, c)
  PROVE  Held(list, n, c) /\ Passed(list, n, c)
<1>1. /\ Len(list) \in Nat /\ \A i \in 1 .. Len(list) : list[i] \in SeqNo
      /\ \A i, j \in 1 .. Len(list) : i < j => SeqDistance(list[i], list[j]) > 0
  BY Listed
<1>2. \A i : i \in 1 .. n <=> i \in 1 .. n - 1 \/ i = n
  BY <1>1
<1>3. PICK m \in 1 .. n - 1, k \in 1 .. n - 1 :
             m < k /\ c.pid = list[m] /\ list[k] - list[m] > BlpBits
  BY DEF Passed
<1>4. Passed(list, n, c)
  BY <1>2, <1>3 DEF Passed
<1>5. list[n] - c.pid \notin 0 .. BlpBits
  <2>1. m \in 1 .. Len(list) /\ k \in 1 .. Len(list) /\ k < n
    BY <1>1
  <2>2. SeqDistance(list[m], list[k]) > 0 /\ SeqDistance(list[k], list[n]) > 0
    BY <1>1, <1>3, <2>1
  <2>3. list[m] \in SeqNo /\ list[k] \in SeqNo /\ list[n] \in SeqNo
    BY <1>1, <2>1
  <2>4. list[n] - list[m] \notin 0 .. BlpBits
    BY <1>3, <2>2, <2>3, Beyond
  <2>5. QED
    BY <1>3, <2>4
<1>6. Held(list, n, c)
  BY <1>2, <1>5 DEF Held
<1>7. QED
  BY <1>4, <1>6

LEMMA HeldOpens ==
  ASSUME NEW list \in Lists, NEW n \in 1 .. Len(list)
  PROVE  Held(list, n, [pid |-> list[n], blp |-> {}])
<1> DEFINE c == [pid |-> list[n], blp |-> {}]
<1>1. /\ Len(list) \in Nat /\ \A i \in 1 .. Len(list) : list[i] \in SeqNo
      /\ \A i, j \in 1 .. Len(list) : i < j => SeqDistance(list[i], list[j]) > 0
  BY Listed
<1>2. c \in Chunk /\ c.pid = list[n] /\ n \in 1 .. n
  BY <1>1 DEF Chunk
<1>3. Contents(c) = {list[n]}
  BY DEF Contents
<1>4. ASSUME NEW i \in 1 .. n, list[i] - list[n] \in 0 .. BlpBits
      PROVE  list[i] = list[n]
  <2>1. CASE i = n
    BY <2>1
  <2>2. CASE i < n
    <3>1. i \in 1 .. Len(list)
      BY <1>1
    <3>2. SeqDistance(list[i], list[n]) > 0 /\ list[i] \in SeqNo /\ list[n] \in SeqNo
      BY <1>1, <2>2, <3>1
    <3>3. list[n] - list[i] \in 1 .. Half - 1 \/ list[n] - list[i] < -Half
      BY <3>2, NewerAbove
    <3>4. list[i] \in Int /\ list[n] \in Int /\ BlpBits < Half /\ BlpBits \in Nat /\ Half \in Nat
      BY <3>2, Space, CodecAssumption
    <3>5. QED
      BY <1>4, <3>3, <3>4
  <2>3. i = n \/ i < n
    BY <1>1
  <2>4. QED
    BY <2>1, <2>2, <2>3
<1>5. QED
  <2> HIDE DEF c
  <2>1. Held(list, n, c)
    BY <1>2, <1>3, <1>4 DEF Held
  <2>2. QED
    BY <2>1 DEF c

(* A number below the PID is not within reach; one above it is marked, or   *)
(* beyond the reach.                                                        *)
LEMMA HeldSkips ==
  ASSUME NEW list \in Lists, NEW n \in 1 .. Len(list), NEW c, Held(list, n - 1, c),
         list[n] - c.pid < 1 \/ list[n] - c.pid > BlpBits
  PROVE  Held(list, n, c) /\ (list[n] - c.pid > BlpBits => Passed(list, n, c))
<1>1. /\ Len(list) \in Nat /\ \A i \in 1 .. Len(list) : list[i] \in SeqNo
      /\ \A i, j \in 1 .. Len(list) : i < j => SeqDistance(list[i], list[j]) > 0
  BY Listed
<1>2. \A i : i \in 1 .. n <=> i \in 1 .. n - 1 \/ i = n
  BY <1>1
<1>3. PICK m \in 1 .. n - 1 : c.pid = list[m]
  BY DEF Held
<1>4. m \in 1 .. n /\ n \in 1 .. n /\ m < n /\ m \in 1 .. Len(list)
  BY <1>1
<1>5. list[m] \in SeqNo /\ list[n] \in SeqNo /\ SeqDistance(list[m], list[n]) > 0
  BY <1>1, <1>4
<1>6. list[n] - c.pid \notin 0 .. BlpBits
  <2>1. list[n] - list[m] \in 1 .. Half - 1 \/ list[n] - list[m] < -Half
    BY <1>5, NewerAbove
  <2>2. list[m] \in Int /\ list[n] \in Int /\ BlpBits \in Nat /\ Half \in Nat
    BY <1>5, Space, CodecAssumption
  <2>3. QED
    BY <1>3, <2>1, <2>2
<1>7. Held(list, n, c)
  BY <1>2, <1>6 DEF Held
<1>8. QED
  BY <1>3, <1>4, <1>7 DEF Passed

LEMMA HeldMarks ==
  ASSUME NEW list \in Lists, NEW n \in 1 .. Len(list), NEW c \in Chunk, Held(list, n - 1, c),
         list[n] - c.pid \in 1 .. BlpBits
  PROVE  Held(list, n, [pid |-> c.pid, blp |-> c.blp \cup {list[n] - c.pid - 1}])
<1> DEFINE sn == list[n]
           bit == sn - c.pid - 1
           marked == [pid |-> c.pid, blp |-> c.blp \cup {bit}]
<1>1. Len(list) \in Nat /\ sn \in SeqNo
  BY Listed
<1>2. \A i : i \in 1 .. n <=> i \in 1 .. n - 1 \/ i = n
  BY <1>1
<1>3. c.pid \in SeqNo /\ c.blp \subseteq 0 .. BlpBits - 1
  BY DEF Chunk
<1>4. sn \in Int /\ c.pid \in Int /\ BlpBits \in Nat
  BY <1>1, <1>3, Space, CodecAssumption
<1>5. bit \in 0 .. BlpBits - 1 /\ c.pid + bit + 1 = sn
  BY <1>4
<1>6. sn % SeqSpace = sn
  <2>1. sn \in Nat /\ sn < SeqSpace /\ SeqSpace \in Nat
    BY <1>1, Space
  <2> HIDE DEF sn
  <2>2. QED
    BY <2>1
<1>7. marked \in Chunk /\ marked.pid = c.pid
  <2> HIDE DEF bit
  <2>1. QED
    BY <1>3, <1>5 DEF Chunk
<1>8. Contents(marked) = Contents(c) \cup {sn}
  <2>1. (c.pid + bit + 1) % SeqSpace = sn
    BY <1>5, <1>6
  <2> HIDE DEF bit, sn
  <2>2. QED
    BY <2>1 DEF Contents
<1>9. QED
  <2> HIDE DEF marked
  <2>1. Held(list, n, marked)
    BY <1>2, <1>7, <1>8 DEF Held
  <2>2. QED
    BY <2>1 DEF marked

Writes(list, n) ==
  {st \in PackState :
     /\ \A i \in 1 .. Len(st.done) : Held(list, n, st.done[i]) /\ Passed(list, n, st.done[i])
     /\ st.inUse => Held(list, n, st.chunk)
     /\ 2 * Len(st.done) <= n /\ (st.inUse => 2 * Len(st.done) + 1 <= n)}

LEMMA PackWrites ==
  ASSUME NEW list \in Lists, NEW n \in 1 .. Len(list), NEW st \in Writes(list, n - 1)
  PROVE  Pack(st, list[n]) \in Writes(list, n)
<1> DEFINE sn == list[n]
           next == Pack(st, sn)
           size == Len(st.done)
           reach == sn - st.chunk.pid
<1>1. Len(list) \in Nat /\ sn \in SeqNo /\ n \in Nat \ {0}
  BY Listed
<1>2. /\ st \in PackState
      /\ \A i \in 1 .. size : Held(list, n - 1, st.done[i]) /\ Passed(list, n - 1, st.done[i])
      /\ st.inUse => Held(list, n - 1, st.chunk)
      /\ 2 * size <= n - 1 /\ (st.inUse => 2 * size + 1 <= n - 1)
  BY DEF Writes
<1>3. /\ st.inUse \in BOOLEAN /\ st.done \in Seq(Chunk) /\ st.chunk \in Chunk
      /\ st = [inUse |-> st.inUse, done |-> st.done, chunk |-> st.chunk]
  BY <1>2 DEF PackState
<1>4. size \in Nat
  BY <1>3, LenProperties
<1>5. next \in PackState
  BY <1>1, <1>2, PackKeepsType
<1>6. sn \in Int /\ st.chunk.pid \in Int /\ BlpBits \in Nat
  BY <1>1, <1>3, Space, CodecAssumption DEF Chunk
<1>7. \A i \in 1 .. size : Held(list, n, st.done[i]) /\ Passed(list, n, st.done[i])
  BY <1>2, PassedStays
<1>8. CASE ~st.inUse
  <2> DEFINE c == [pid |-> sn, blp |-> {}]
  <2>1. next = [inUse |-> TRUE, done |-> st.done, chunk |-> c]
    BY <1>3, <1>8 DEF Pack
  <2>2. Held(list, n, c)
    BY HeldOpens
  <2> HIDE DEF next, c
  <2>3. next.inUse /\ next.done = st.done /\ next.chunk = c
    BY <2>1
  <2>4. 2 * size <= n /\ 2 * size + 1 <= n
    <3> HIDE DEF size
    <3>1. QED
      BY <1>1, <1>2, <1>4
  <2>5. QED
    BY <1>5, <1>7, <2>2, <2>3, <2>4 DEF Writes, next
<1>9. CASE st.inUse /\ reach < 1
  <2>1. next = st
    BY <1>9 DEF Pack
  <2>2. Held(list, n, st.chunk)
    BY <1>2, <1>9, HeldSkips
  <2>3. 2 * size <= n /\ 2 * size + 1 <= n
    <3> HIDE DEF size, reach
    <3>1. QED
      BY <1>1, <1>2, <1>4, <1>9
  <2> HIDE DEF next
  <2>4. QED
    BY <1>5, <1>7, <2>1, <2>2, <2>3 DEF Writes, next
<1>10. CASE st.inUse /\ ~(reach < 1) /\ reach > BlpBits
  <2>1. next = [inUse |-> FALSE, done |-> Append(st.done, st.chunk), chunk |-> st.chunk]
    BY <1>3, <1>10 DEF Pack
  <2> DEFINE done == Append(st.done, st.chunk)
  <2>2. Held(list, n, st.chunk) /\ Passed(list, n, st.chunk)
    BY <1>2, <1>10, HeldSkips
  <2>3. /\ Len(done) = size + 1 /\ done[size + 1] = st.chunk
        /\ \A i \in 1 .. size : done[i] = st.done[i]
    BY <1>3, AppendProperties
  <2> HIDE DEF next, done
  <2>4. ~next.inUse /\ next.done = done
    BY <2>1 DEF done
  <2>5. 2 * (size + 1) <= n
    <3> HIDE DEF size, reach
    <3>1. QED
      BY <1>1, <1>2, <1>4, <1>10
  <2>6. ASSUME NEW i \in 1 .. Len(next.done)
        PROVE  Held(list, n, next.done[i]) /\ Passed(list, n, next.done[i])
    <3>1. i \in 1 .. size \/ i = size + 1
      <4> HIDE DEF size
      <4>1. QED
        BY <1>4, <2>3, <2>4
    <3>2. CASE i \in 1 .. size
      BY <1>7, <2>3, <2>4, <3>2
    <3>3. CASE i = size + 1
      BY <2>2, <2>3, <2>4, <3>3
    <3>4. QED
      BY <3>1, <3>2, <3>3
  <2>7. QED
    BY <1>5, <2>3, <2>4, <2>5, <2>6 DEF Writes, next
<1>11. CASE st.inUse /\ ~(reach < 1) /\ ~(reach > BlpBits)
  <2> DEFINE marked == [pid |-> st.chunk.pid, blp |-> st.chunk.blp \cup {reach - 1}]
  <2>1. reach \in 1 .. BlpBits
    BY <1>6, <1>11
  <2>2. Held(list, n, marked)
    BY <1>2, <1>3, <1>11, <2>1, HeldMarks
  <2>3. [st.chunk EXCEPT !.blp = @ \cup {reach - 1}] = marked
    <3>1. ASSUME NEW c \in Chunk, NEW bits
          PROVE  [c EXCEPT !.blp = bits] = [pid |-> c.pid, blp |-> bits]
      BY DEF Chunk
    <3> HIDE DEF reach
    <3>2. QED
      BY <1>3, <3>1
  <2>4. next = [inUse |-> st.inUse, done |-> st.done, chunk |-> marked]
    BY <1>3, <1>11, <2>3 DEF Pack
  <2> HIDE DEF next, marked
  <2>5. next.inUse = st.inUse /\ next.done = st.done /\ next.chunk = marked
    BY <2>4
  <2>6. 2 * size <= n /\ 2 * size + 1 <= n
    <3> HIDE DEF size, reach
    <3>1. QED
      BY <1>1, <1>2, <1>4, <1>11
  <2>7. QED
    BY <1>5, <1>7, <2>2, <2>5, <2>6 DEF Writes, next
<1>12. QED
  BY <1>8, <1>9, <1>10, <1>11

(* A chunk in use has met nothing beyond its reach, but numbers older than  *)
(* its PID that the sequence space wraps.                                   *)
Open(list, n, c) ==
  \A i \in 1 .. n : list[i] - c.pid > BlpBits => SeqDistance(list[i], c.pid) > 0

FirstBeyond(list, c, k) ==
  /\ AheadOf(c.pid, list[k]) > BlpBits
  /\ \A i \in 1 .. Len(list) :
       AheadOf(c.pid, list[i]) <= BlpBits \/ AheadOf(c.pid, list[k]) <= AheadOf(c.pid, list[i])

Wrapped(c, s) == SeqDistance(c.pid, s) > 0 /\ s < c.pid

(* What became of the k-th number.                                          *)
Met(list, st, k) ==
  \/ \E i \in 1 .. Len(st.done) :
       list[k] \in Contents(st.done[i]) \/ FirstBeyond(list, st.done[i], k)
  \/ st.inUse /\ (list[k] \in Contents(st.chunk) \/ Wrapped(st.chunk, list[k]))

Accounts(list, n) ==
  {st \in Writes(list, n) :
     /\ (st.inUse => Open(list, n, st.chunk))
     /\ \A k \in 1 .. n : Met(list, st, k)}

(* A number that closes a chunk is the first beyond its reach.              *)
LEMMA ClosesFirst ==
  ASSUME NEW list \in Lists, NEW n \in 1 .. Len(list), NEW m \in 1 .. n - 1,
         NEW c \in Chunk, c.pid = list[m], Open(list, n - 1, c),
         list[n] - c.pid > BlpBits
  PROVE  FirstBeyond(list, c, n)
<1>1. /\ Len(list) \in Nat /\ \A i \in 1 .. Len(list) : list[i] \in SeqNo
      /\ \A i, j \in 1 .. Len(list) : i < j => SeqDistance(list[i], list[j]) > 0
  BY Listed
<1>2. m \in 1 .. Len(list) /\ m < n /\ BlpBits \in Nat /\ BlpBits < Half
  BY <1>1, CodecAssumption
<1> DEFINE p == c.pid
           z == list[n]
<1>3. p \in SeqNo /\ z \in SeqNo /\ SeqDistance(p, z) > 0 /\ z - p > BlpBits
  BY <1>1, <1>2
<1>4. AheadOf(p, z) = z - p /\ z - p < Half
  <2> HIDE DEF p, z
  <2>1. QED
    BY <1>2, <1>3, Space DEF SeqDistance, AheadOf, SeqNo
<1>5. ASSUME NEW i \in 1 .. Len(list)
      PROVE  AheadOf(p, list[i]) <= BlpBits \/ AheadOf(p, z) <= AheadOf(p, list[i])
  <2> DEFINE w == list[i]
  <2>1. w \in SeqNo
    BY <1>1
  <2>2. CASE i = n
    BY <2>2, <1>4, <1>3, Space
  <2>3. CASE i > n
    <3>1. SeqDistance(z, w) > 0 /\ SeqDistance(p, w) > 0
      <4>1. n < i /\ m < i
        BY <1>2, <2>3
      <4>2. QED
        BY <1>1, <1>2, <4>1
    <3> HIDE DEF p, z, w
    <3>2. AheadOf(p, z) <= AheadOf(p, w)
      BY <1>2, <1>3, <1>4, <2>1, <3>1, Space DEF SeqDistance, AheadOf, SeqNo
    <3>3. QED
      BY <3>2 DEF w
  <2>4. CASE i < n
    <3>1. SeqDistance(w, z) > 0 /\ (w - p > BlpBits => SeqDistance(w, p) > 0)
      <4>1. i \in 1 .. n - 1
        BY <2>4
      <4>2. QED
        BY <1>1, <2>4, <4>1 DEF Open
    <3> HIDE DEF p, z, w
    <3>2. AheadOf(p, w) <= BlpBits \/ AheadOf(p, z) <= AheadOf(p, w)
      BY <1>2, <1>3, <1>4, <2>1, <3>1, Space DEF SeqDistance, AheadOf, SeqNo
    <3>3. QED
      BY <3>2 DEF w
  <2>5. i = n \/ i > n \/ i < n
    BY <1>1
  <2>6. QED
    BY <2>2, <2>3, <2>4, <2>5
<1>6. QED
  <2>1. AheadOf(p, z) > BlpBits
    BY <1>3, <1>4
  <2>2. QED
    BY <1>5, <2>1 DEF FirstBeyond

LEMMA PackAccounts ==
  ASSUME NEW list \in Lists, NEW n \in 1 .. Len(list), NEW st \in Accounts(list, n - 1)
  PROVE  Pack(st, list[n]) \in Accounts(list, n)
<1> DEFINE sn == list[n]
           next == Pack(st, sn)
           size == Len(st.done)
           reach == sn - st.chunk.pid
<1>1. /\ Len(list) \in Nat /\ \A i \in 1 .. Len(list) : list[i] \in SeqNo
      /\ \A i, j \in 1 .. Len(list) : i < j => SeqDistance(list[i], list[j]) > 0
  BY Listed
<1>2. /\ st \in Writes(list, n - 1)
      /\ (st.inUse => Open(list, n - 1, st.chunk))
      /\ \A k \in 1 .. n - 1 : Met(list, st, k)
  BY DEF Accounts
<1>3. next \in Writes(list, n)
  BY <1>2, PackWrites
<1>4. /\ st.inUse \in BOOLEAN /\ st.done \in Seq(Chunk) /\ st.chunk \in Chunk
      /\ st = [inUse |-> st.inUse, done |-> st.done, chunk |-> st.chunk]
      /\ size \in Nat
      /\ st.inUse => Held(list, n - 1, st.chunk)
  <2>1. st \in PackState /\ (st.inUse => Held(list, n - 1, st.chunk))
    BY <1>2 DEF Writes
  <2>2. QED
    BY <2>1, LenProperties DEF PackState
<1>5. \A i : i \in 1 .. n <=> i \in 1 .. n - 1 \/ i = n
  BY <1>1
<1>6. sn \in SeqNo /\ st.chunk.pid \in SeqNo /\ BlpBits \in Nat
  BY <1>1, <1>4, CodecAssumption DEF Chunk
<1>7. CASE ~st.inUse
  <2> DEFINE c == [pid |-> sn, blp |-> {}]
  <2>1. next = [inUse |-> TRUE, done |-> st.done, chunk |-> c]
    BY <1>4, <1>7 DEF Pack
  <2>2. Open(list, n, c)
    <3>1. ASSUME NEW i \in 1 .. n, list[i] - sn > BlpBits PROVE SeqDistance(list[i], sn) > 0
      <4>1. i < n
        BY <1>1, <1>6, <3>1, Space DEF SeqNo
      <4>2. i \in 1 .. Len(list)
        BY <1>1
      <4>3. QED
        BY <1>1, <4>1, <4>2
    <3>2. c.pid = sn
      OBVIOUS
    <3> HIDE DEF c, sn
    <3>3. QED
      BY <3>1, <3>2 DEF Open
  <2>3. sn \in Contents(c)
    BY DEF Contents
  <2> HIDE DEF next, c
  <2>4. next.inUse = TRUE /\ next.done = st.done /\ next.chunk = c
    BY <2>1
  <2>5. ASSUME NEW k \in 1 .. n PROVE Met(list, next, k)
    <3>1. CASE k = n
      BY <2>3, <2>4, <3>1 DEF Met
    <3>2. CASE k \in 1 .. n - 1
      BY <1>2, <1>7, <2>4, <3>2 DEF Met
    <3>3. QED
      BY <1>5, <3>1, <3>2
  <2>6. QED
    BY <1>3, <2>2, <2>4, <2>5 DEF Accounts, next
<1>8. ASSUME st.inUse
      PROVE  \E m \in 1 .. n - 1 :
               /\ st.chunk.pid = list[m] /\ m \in 1 .. Len(list)
               /\ SeqDistance(st.chunk.pid, sn) > 0
  <2>1. PICK m \in 1 .. n - 1 : st.chunk.pid = list[m]
    BY <1>4, <1>8 DEF Held
  <2>2. m \in 1 .. Len(list) /\ m < n
    BY <1>1
  <2>3. QED
    BY <1>1, <2>1, <2>2
<1>9. CASE st.inUse /\ reach < 1
  <2>1. next = st
    BY <1>9 DEF Pack
  <2>2. Open(list, n, st.chunk)
    <3>1. ~(sn - st.chunk.pid > BlpBits)
      BY <1>6, <1>9, Space DEF SeqNo
    <3>2. QED
      BY <1>2, <1>5, <1>9, <3>1 DEF Open
  <2>3. Wrapped(st.chunk, sn)
    <3>1. SeqDistance(st.chunk.pid, sn) > 0
      BY <1>8, <1>9
    <3> DEFINE q == st.chunk.pid
    <3> HIDE DEF sn
    <3>2. ASSUME NEW x \in SeqNo, NEW y \in SeqNo, SeqDistance(x, y) > 0, y - x < 1
          PROVE  y < x
      BY <3>2, Space DEF SeqDistance, AheadOf, SeqNo
    <3>3. QED
      BY <1>6, <1>9, <3>1, <3>2 DEF Wrapped
  <2>4. ASSUME NEW k \in 1 .. n PROVE Met(list, st, k)
    <3>1. CASE k = n
      BY <1>9, <2>3, <3>1 DEF Met
    <3>2. CASE k \in 1 .. n - 1
      BY <1>2, <3>2
    <3>3. QED
      BY <1>5, <3>1, <3>2
  <2> HIDE DEF next
  <2>5. QED
    BY <1>3, <2>1, <2>2, <2>4 DEF Accounts, next
<1>10. CASE st.inUse /\ ~(reach < 1) /\ reach > BlpBits
  <2> DEFINE done == Append(st.done, st.chunk)
  <2>1. next = [inUse |-> FALSE, done |-> done, chunk |-> st.chunk]
    BY <1>4, <1>10 DEF Pack
  <2>2. /\ Len(done) = size + 1 /\ done[size + 1] = st.chunk
        /\ \A i \in 1 .. size : done[i] = st.done[i]
    BY <1>4, AppendProperties
  <2>3. PICK m \in 1 .. n - 1 : /\ st.chunk.pid = list[m] /\ m \in 1 .. Len(list)
                              /\ SeqDistance(st.chunk.pid, sn) > 0
    BY <1>8, <1>10
  <2>4. FirstBeyond(list, st.chunk, n)
    BY <1>2, <1>4, <1>10, <2>3, ClosesFirst
  <2>5. ASSUME NEW k \in 1 .. n - 1 PROVE ~Wrapped(st.chunk, list[k])
    <3> DEFINE q == st.chunk.pid
               w == list[k]
    <3>1. k \in 1 .. Len(list) /\ k < n
      BY <1>1
    <3>2. w \in SeqNo /\ SeqDistance(w, sn) > 0
      BY <1>1, <3>1
    <3>3. ASSUME NEW x \in SeqNo, NEW y \in SeqNo, NEW z \in SeqNo,
                 SeqDistance(x, y) > 0, SeqDistance(y, z) > 0, SeqDistance(x, z) > 0, z > x
          PROVE  ~(y < x)
      BY <3>3, Space DEF SeqDistance, AheadOf, SeqNo
    <3>4. sn > q
      BY <1>6, <1>10, Space DEF SeqNo
    <3> HIDE DEF sn, q, w
    <3>5. ~(SeqDistance(q, w) > 0 /\ w < q)
      BY <1>6, <2>3, <3>2, <3>3, <3>4 DEF q
    <3>6. QED
      BY <3>5 DEF Wrapped, q, w
  <2> HIDE DEF next, done
  <2>6. next.inUse = FALSE /\ next.done = done
    BY <2>1
  <2>7. 1 .. size \subseteq 1 .. size + 1 /\ size + 1 \in 1 .. size + 1
    <3> HIDE DEF size
    <3>1. QED
      BY <1>4
  <2>8. ASSUME NEW k \in 1 .. n PROVE Met(list, next, k)
    <3>1. CASE k = n
      BY <2>2, <2>4, <2>6, <2>7, <3>1 DEF Met
    <3>2. CASE k \in 1 .. n - 1
      <4>1. Met(list, st, k) /\ ~Wrapped(st.chunk, list[k])
        BY <1>2, <2>5, <3>2
      <4>2. CASE \E i \in 1 .. size : list[k] \in Contents(st.done[i])
                                     \/ FirstBeyond(list, st.done[i], k)
        BY <2>2, <2>6, <2>7, <4>2 DEF Met
      <4>3. CASE list[k] \in Contents(st.chunk)
        BY <2>2, <2>6, <2>7, <4>3 DEF Met
      <4>4. QED
        BY <4>1, <4>2, <4>3 DEF Met
    <3>3. QED
      BY <1>5, <3>1, <3>2
  <2>9. QED
    BY <1>3, <2>6, <2>8 DEF Accounts, next
<1>11. CASE st.inUse /\ ~(reach < 1) /\ ~(reach > BlpBits)
  <2> DEFINE marked == [pid |-> st.chunk.pid, blp |-> st.chunk.blp \cup {reach - 1}]
  <2>1. [st.chunk EXCEPT !.blp = @ \cup {reach - 1}] = marked
    <3>1. ASSUME NEW c \in Chunk, NEW bits
          PROVE  [c EXCEPT !.blp = bits] = [pid |-> c.pid, blp |-> bits]
      BY DEF Chunk
    <3> HIDE DEF reach
    <3>2. QED
      BY <1>4, <3>1
  <2>2. next = [inUse |-> st.inUse, done |-> st.done, chunk |-> marked]
    BY <1>4, <1>11, <2>1 DEF Pack
  <2>3. marked.pid = st.chunk.pid /\ Contents(st.chunk) \subseteq Contents(marked)
    BY DEF Contents
  <2>4. Open(list, n, marked)
    <3>1. ~(sn - st.chunk.pid > BlpBits)
      BY <1>11
    <3> HIDE DEF marked
    <3>2. QED
      BY <1>2, <1>5, <1>11, <2>3, <3>1 DEF Open
  <2>5. sn \in Contents(marked)
    <3>1. reach \in 1 .. BlpBits
      BY <1>6, <1>11, Space DEF SeqNo
    <3>2. Held(list, n, marked)
      BY <1>4, <1>11, <3>1, HeldMarks
    <3>3. n \in 1 .. n /\ sn - marked.pid \in 0 .. BlpBits
      BY <1>1, <1>6, <2>3, <3>1
    <3> HIDE DEF marked
    <3>4. QED
      BY <3>2, <3>3 DEF Held
  <2> HIDE DEF next, marked
  <2>6. next.inUse = TRUE /\ next.done = st.done /\ next.chunk = marked
    BY <1>11, <2>2
  <2>7. ASSUME NEW k \in 1 .. n PROVE Met(list, next, k)
    <3>1. CASE k = n
      BY <2>5, <2>6, <3>1 DEF Met
    <3>2. CASE k \in 1 .. n - 1
      <4>1. Met(list, st, k)
        BY <1>2, <3>2
      <4>2. Wrapped(st.chunk, list[k]) => Wrapped(marked, list[k])
        BY <2>3 DEF Wrapped
      <4>3. QED
        BY <2>3, <2>6, <4>1, <4>2 DEF Met
    <3>3. QED
      BY <1>5, <3>1, <3>2
  <2>8. QED
    BY <1>3, <2>4, <2>6, <2>7 DEF Accounts, next
<1>12. QED
  BY <1>7, <1>9, <1>10, <1>11

(* What the whole packet says of the k-th number.                           *)
Sent(list, cs, k) ==
  \/ \E i \in 1 .. Len(cs) : list[k] \in Contents(cs[i]) \/ FirstBeyond(list, cs[i], k)
  \/ Len(cs) # 0 /\ Wrapped(cs[Len(cs)], list[k])

(* What is sent for a list.                                                 *)
LEMMA EncodeReaches ==
  ASSUME NEW list \in Lists
  PROVE  /\ Encode(list) \in Seq(Chunk)
         /\ \A i \in 1 .. Len(Encode(list)) : Held(list, Len(list), Encode(list)[i])
         /\ \A i \in 1 .. Len(Encode(list)) :
              i # Len(Encode(list)) => Passed(list, Len(list), Encode(list)[i])
         /\ \A k \in 1 .. Len(list) : Sent(list, Encode(list), k)
         /\ 2 * Len(Encode(list)) <= Len(list) + 1
<1> DEFINE N == Len(list)
           p == Packed(list)
           st == p[N]
           Inv == [n \in 0 .. N |-> Accounts(list, n)]
<1>1. N \in Nat
  BY Listed
<1>2. /\ p[0] = NoChunk /\ p[0] \in PackState
      /\ \A n \in 1 .. N : p[n] = Pack(p[n - 1], list[n])
  <2>1. 0 \in 0 .. N
    BY <1>1
  <2>2. QED
    BY <2>1, PackedEquation
<1> HIDE DEF p, N
<1>3. p[0] \in Inv[0]
  <2>1. p[0].done = <<>> /\ ~p[0].inUse
    BY <1>2 DEF NoChunk
  <2>2. Len(p[0].done) = 0
    BY <2>1
  <2>3. p[0] \in Writes(list, 0)
    BY <1>2, <2>1, <2>2 DEF Writes
  <2>4. p[0] \in Accounts(list, 0)
    BY <2>1, <2>3 DEF Accounts
  <2>5. QED
    BY <1>1, <2>4
<1>4. ASSUME NEW n \in 1 .. N, p[n - 1] \in Inv[n - 1] PROVE p[n] \in Inv[n]
  <2>1. n - 1 \in 0 .. N /\ n \in 0 .. N
    BY <1>1
  <2>2. p[n - 1] \in Accounts(list, n - 1)
    BY <1>4, <2>1
  <2>3. p[n] \in Accounts(list, n)
    BY <1>2, <2>2, PackAccounts DEF N
  <2>4. QED
    BY <2>1, <2>3
<1>5. st \in Accounts(list, N)
  <2>1. \A n \in 0 .. N : p[n] \in Inv[n]
    <3> HIDE DEF Inv
    <3>1. QED
      BY <1>1, <1>3, <1>4, LoopInvariant
  <2>2. QED
    BY <1>1, <2>1
<1>6. Encode(list) = IF st.inUse THEN Append(st.done, st.chunk) ELSE st.done
  BY DEF Encode, p, N
<1> HIDE DEF st
<1>7. /\ st \in PackState
      /\ \A i \in 1 .. Len(st.done) : Held(list, N, st.done[i]) /\ Passed(list, N, st.done[i])
      /\ (st.inUse => Held(list, N, st.chunk))
      /\ 2 * Len(st.done) <= N /\ (st.inUse => 2 * Len(st.done) + 1 <= N)
      /\ \A k \in 1 .. N : Met(list, st, k)
  BY <1>5 DEF Writes, Accounts
<1>8. st.inUse \in BOOLEAN /\ st.done \in Seq(Chunk) /\ st.chunk \in Chunk /\ Len(st.done) \in Nat
  BY <1>7, LenProperties DEF PackState
<1>9. CASE st.inUse
  <2> DEFINE done == Append(st.done, st.chunk)
             size == Len(st.done)
  <2>1. /\ done \in Seq(Chunk) /\ Len(done) = size + 1 /\ done[size + 1] = st.chunk
        /\ \A i \in 1 .. size : done[i] = st.done[i]
    BY <1>8, AppendProperties
  <2>2. Encode(list) = done
    BY <1>6, <1>9
  <2> HIDE DEF done
  <2>3. ASSUME NEW i \in 1 .. Len(done)
        PROVE  Held(list, N, done[i]) /\ (i # Len(done) => Passed(list, N, done[i]))
    <3>1. i \in 1 .. size \/ i = size + 1
      <4> HIDE DEF size
      <4>1. QED
        BY <1>8, <2>1 DEF size
    <3>2. QED
      BY <1>7, <1>9, <2>1, <3>1
  <2>4. 2 * (size + 1) <= N + 1
    <3>1. 2 * size + 1 <= N /\ size \in Nat
      BY <1>7, <1>8, <1>9
    <3> HIDE DEF size
    <3>2. QED
      BY <1>1, <3>1
  <2>5. ASSUME NEW k \in 1 .. N PROVE Sent(list, done, k)
    <3>1. Met(list, st, k)
      BY <1>7
    <3>2. \A i \in 1 .. size : i \in 1 .. Len(done)
      BY <1>8, <2>1
    <3>3. size + 1 \in 1 .. Len(done) /\ Len(done) # 0 /\ done[Len(done)] = st.chunk
      BY <1>8, <2>1
    <3>4. QED
      BY <2>1, <3>1, <3>2, <3>3 DEF Met, Sent
  <2>6. QED
    BY <2>1, <2>2, <2>3, <2>4, <2>5 DEF N
<1>10. CASE ~st.inUse
  <2>1. 2 * Len(st.done) <= N + 1
    BY <1>1, <1>7, <1>8
  <2>2. Encode(list) = st.done
    BY <1>6, <1>10
  <2>3. \A k \in 1 .. N : Sent(list, st.done, k)
    BY <1>7, <1>10 DEF Met, Sent
  <2>4. QED
    BY <1>7, <1>8, <2>1, <2>2, <2>3 DEF N
<1>11. QED
  BY <1>9, <1>10

-----------------------------------------------------------------------------
(* Lists and packets, of a state. *)

LEMMA Distinct ==
  ASSUME NEW list \in Lists
  PROVE  Cardinality(ToSet(list)) = Len(list)
<1>1. /\ Len(list) \in Nat /\ DOMAIN list = 1 .. Len(list)
      /\ \A i \in 1 .. Len(list) : list[i] \in SeqNo
      /\ \A i, j \in 1 .. Len(list) : i < j => SeqDistance(list[i], list[j]) > 0
  BY Listed
<1>2. \A s \in SeqNo : ~(SeqDistance(s, s) > 0)
  BY Space DEF SeqDistance, AheadOf
<1>3. ASSUME NEW i \in 1 .. Len(list), NEW j \in 1 .. Len(list), list[i] = list[j]
      PROVE  i = j
  <2>1. ~(i < j) /\ ~(j < i)
    BY <1>1, <1>2, <1>3
  <2>2. QED
    BY <1>1, <2>1
<1>4. list \in [1 .. Len(list) -> ToSet(list)]
      /\ \A s \in ToSet(list) : \E i \in 1 .. Len(list) : list[i] = s
  <2>1. list \in Seq(SeqNo)
    BY DEF Lists
  <2>2. list = [i \in 1 .. Len(list) |-> list[i]]
    BY <1>1, <2>1
  <2>3. QED
    BY <1>1, <2>2 DEF ToSet
<1>5. list \in Bijection(1 .. Len(list), ToSet(list))
  BY <1>3, <1>4 DEF Bijection, Injection, Surjection, IsInjective
<1>6. ExistsBijection(1 .. Len(list), ToSet(list))
  BY <1>5 DEF ExistsBijection
<1>7. QED
  BY <1>1, <1>6, FS_CountingElements

LEMMA AppendOrdered ==
  ASSUME NEW list \in Lists, NEW sn \in SeqNo,
         \A i \in DOMAIN list : SeqDistance(list[i], sn) > 0
  PROVE  AddSn(list, sn) \in Lists
<1> DEFINE n == Len(list)
           longer == Append(list, sn)
<1>1. /\ n \in Nat /\ DOMAIN list = 1 .. n
      /\ \A i, j \in 1 .. n : i < j => SeqDistance(list[i], list[j]) > 0
  BY Listed
<1>2. list \in Seq(SeqNo)
  BY DEF Lists
<1>3. AddSn(list, sn) = longer
  <2>1. list = <<>> \/ n \in 1 .. n
    BY <1>1, <1>2, EmptySeq
  <2>2. QED
    BY <1>1, <2>1 DEF AddSn, Last
<1>4. /\ longer \in Seq(SeqNo) /\ Len(longer) = n + 1 /\ longer[n + 1] = sn
      /\ \A i \in 1 .. n : longer[i] = list[i]
  BY <1>2, AppendProperties
<1> HIDE DEF longer
<1>5. ASSUME NEW i \in 1 .. n + 1, NEW j \in 1 .. n + 1, i < j
      PROVE  SeqDistance(longer[i], longer[j]) > 0
  <2>1. i \in 1 .. n /\ (j \in 1 .. n \/ j = n + 1)
    BY <1>1, <1>5
  <2>2. CASE j \in 1 .. n
    BY <1>1, <1>4, <1>5, <2>1, <2>2
  <2>3. CASE j = n + 1
    BY <1>1, <1>4, <2>1, <2>3
  <2>4. QED
    BY <2>1, <2>2, <2>3
<1>6. QED
  BY <1>3, <1>4, <1>5 DEF Lists, Ordered

LEMMA ContentsNumbers ==
  ASSUME NEW c \in Chunk
  PROVE  Contents(c) \subseteq SeqNo
<1>1. c.pid \in SeqNo /\ \A j \in c.blp : j \in Nat
  BY CodecAssumption DEF Chunk
<1>2. ASSUME NEW j \in c.blp PROVE (c.pid + j + 1) % SeqSpace \in SeqNo
  <2>1. c.pid + j + 1 \in Nat
    BY <1>1, Space
  <2>2. QED
    BY <2>1, Remainder
<1>3. QED
  BY <1>1, <1>2 DEF Contents

(* What the program sends lies within half the space of the oldest number.  *)
LEMMA EncodeFromOldest ==
  ASSUME NEW list \in Lists, list # <<>>
  PROVE  \E o \in SeqNo : Encode(list) \in Packets(o)
<1> DEFINE n == Len(list)
           cs == Encode(list)
           o == list[1]
<1>1. /\ n \in Nat /\ \A i \in 1 .. n : list[i] \in SeqNo
      /\ \A i, j \in 1 .. n : i < j => SeqDistance(list[i], list[j]) > 0
  BY Listed
<1>2. 1 \in 1 .. n /\ o \in SeqNo
  <2>1. n # 0
    BY EmptySeq DEF Lists
  <2>2. QED
    BY <1>1, <2>1
<1>3. ASSUME NEW i \in 1 .. n PROVE AheadOf(o, list[i]) < Half
  <2>1. \A s \in SeqNo : /\ SeqDistance(o, s) > 0 => AheadOf(o, s) < Half
                         /\ AheadOf(o, o) < Half
    <3> HIDE DEF o
    <3>1. QED
      BY <1>2, Space DEF SeqDistance, AheadOf
  <2>2. i = 1 \/ 1 < i
    BY <1>1
  <2>3. CASE i = 1
    BY <1>2, <2>1, <2>3
  <2>4. CASE 1 < i
    BY <1>1, <1>2, <2>1, <2>4
  <2>5. QED
    BY <2>2, <2>3, <2>4
<1>4. cs \in Seq(Chunk) /\ \A i \in 1 .. Len(cs) : Held(list, n, cs[i])
  BY EncodeReaches
<1> HIDE DEF cs, n
<1>5. From(o, cs)
  <2>1. SUFFICES ASSUME NEW i \in 1 .. Len(cs), NEW s \in Contents(cs[i])
                 PROVE  AheadOf(o, s) < Half
    BY DEF From
  <2>2. \E k \in 1 .. n : s = list[k]
    BY <1>4 DEF Held
  <2>3. QED
    BY <1>3, <2>2
<1>6. QED
  BY <1>2, <1>4, <1>5 DEF Packets, cs

-----------------------------------------------------------------------------
(* The inductive invariant: the list is in order, and the packet on the     *)
(* wire lies within half the space of its oldest number.                    *)
IInv ==
  /\ asking \in Lists
  /\ answering \in Seq(SeqNo)
  /\ \E o \in SeqNo : chunks \in Packets(o)
  /\ wanted \subseteq SeqNo /\ own \in BOOLEAN
  /\ AskedWithinReach
  /\ PacketFits

LEMMA NoPacket ==
  ASSUME NEW o \in SeqNo
  PROVE  <<>> \in Packets(o) /\ <<>> \in Lists
BY EmptySeq DEF Packets, From, Lists, Ordered

LEMMA NothingOnWire ==
  ASSUME chunks = <<>>, wanted = {}
  PROVE  AskedWithinReach /\ PacketFits
<1>1. Cardinality(wanted) = 0
  BY FS_EmptySet
<1>2. DOMAIN chunks = {} /\ Len(chunks) = 0
  OBVIOUS
<1>3. QED
  BY <1>1, <1>2 DEF AskedWithinReach, PacketFits

LEMMA InitOK == Init => IInv
<1>1. 0 \in SeqNo
  BY Space
<1>2. ASSUME Init PROVE IInv
  <2>1. <<>> \in Packets(0) /\ <<>> \in Lists
    BY <1>1, NoPacket
  <2>2. AskedWithinReach /\ PacketFits
    BY <1>2, NothingOnWire DEF Init
  <2>3. <<>> \in Seq(SeqNo)
    BY EmptySeq
  <2>4. QED
    BY <1>1, <1>2, <2>1, <2>2, <2>3 DEF Init, IInv
<1>3. QED
  BY <1>2

LEMMA AskOK ==
  ASSUME IInv, NEW sn \in SeqNo, Ask(sn)
  PROVE  IInv'
<1>1. asking' \in Lists
  BY AppendOrdered DEF IInv, Ask
<1>2. UNCHANGED <<chunks, wanted, own, answering>>
  BY DEF Ask
<1>3. AskedWithinReach' /\ PacketFits'
  BY <1>2 DEF IInv, AskedWithinReach, PacketFits, AfterWrap, Closes
<1>4. QED
  BY <1>1, <1>2, <1>3 DEF IInv

(* What the circle puts within the reach of a chunk is marked, unless the   *)
(* sequence space wraps before it; then the chunk is the last, for a number *)
(* that had closed it would lie beyond the end of the space.                *)
LEMMA WithinReach ==
  ASSUME NEW list \in Lists, NEW c, Held(list, Len(list), c), NEW k \in 1 .. Len(list),
         AheadOf(c.pid, list[k]) <= BlpBits
  PROVE  list[k] \in Contents(c) \/ (Wrapped(c, list[k]) /\ ~Passed(list, Len(list), c))
<1>1. /\ Len(list) \in Nat /\ \A i \in 1 .. Len(list) : list[i] \in SeqNo
      /\ \A i, j \in 1 .. Len(list) : i < j => SeqDistance(list[i], list[j]) > 0
  BY Listed
<1>2. BlpBits \in Nat /\ BlpBits < Half /\ c.pid \in SeqNo /\ list[k] \in SeqNo
  BY <1>1, CodecAssumption DEF Held, Chunk
<1> DEFINE s == list[k]
           p == c.pid
<1>3. CASE s >= p
  <2> HIDE DEF s, p
  <2>1. s - p = AheadOf(p, s) /\ s - p \in 0 .. BlpBits
    <3>1. p \in SeqNo /\ s \in SeqNo /\ AheadOf(p, s) <= BlpBits
      BY <1>2 DEF s, p
    <3>2. QED
      BY <1>2, <1>3, <3>1, Space DEF AheadOf, SeqNo
  <2>2. QED
    BY <2>1 DEF Held, s, p
<1>4. CASE s < p
  <2>1. p \in SeqNo /\ s \in SeqNo /\ AheadOf(p, s) <= BlpBits
    BY <1>2
  <2> HIDE DEF s, p
  <2>2. SeqDistance(p, s) > 0 /\ p + BlpBits >= SeqSpace
    BY <1>2, <1>4, <2>1, Space DEF SeqDistance, AheadOf, SeqNo
  <2>3. ASSUME NEW z \in SeqNo PROVE ~(z - p > BlpBits)
    BY <1>2, <2>1, <2>2, <2>3, Space DEF SeqNo
  <2>4. ~Passed(list, Len(list), c)
    BY <1>1, <2>3 DEF Passed, p
  <2>5. QED
    BY <1>4, <2>2, <2>4 DEF Wrapped, s, p
<1>5. QED
  <2>1. s \in Int /\ p \in Int
    BY <1>2, Space
  <2>2. QED
    BY <1>3, <1>4, <2>1

LEMMA SendOK ==
  ASSUME IInv, Send
  PROVE  IInv'
<1>1. asking \in Lists /\ asking # <<>> /\ wanted' = ToSet(asking) /\ own' = TRUE
  BY DEF IInv, Send
<1> DEFINE list == asking
           cs == Encode(asking)
<1>2. /\ Len(list) \in Nat /\ DOMAIN list = 1 .. Len(list)
      /\ \A i \in 1 .. Len(list) : list[i] \in SeqNo
  BY <1>1, Listed
<1>3. /\ cs \in Seq(Chunk) /\ 2 * Len(cs) <= Len(list) + 1
      /\ \A i \in 1 .. Len(cs) :
           Held(list, Len(list), cs[i]) /\ (i # Len(cs) => Passed(list, Len(list), cs[i]))
      /\ \A k \in 1 .. Len(list) : Sent(list, cs, k)
  BY <1>1, EncodeReaches
<1>4. \E o \in SeqNo : cs \in Packets(o)
  BY <1>1, EncodeFromOldest
<1>5. Cardinality(wanted') = Len(list)
  BY <1>1, Distinct
<1>6. chunks' = cs /\ asking' = <<>> /\ answering' = answering
  BY DEF Send
<1> HIDE DEF cs, list
<1>7. \A s : s \in wanted' <=> \E i \in 1 .. Len(list) : s = list[i]
  BY <1>1, <1>2 DEF ToSet, list
<1>8. ASSUME NEW l, l = list, NEW e, e = cs
      PROVE  AskedWithinReach'
  <2>1. DOMAIN chunks' = 1 .. Len(e) /\ Len(e) \in Nat
    BY <1>8, <1>3, <1>6, LenProperties
  <2>2. Len(e) # 0 => chunks' # <<>> /\ Last(chunks') = e[Len(e)]
    BY <1>8, <1>3, <1>6, EmptySeq DEF Last
  <2>3. ASSUME NEW s, Len(e) # 0, Wrapped(e[Len(e)], s)
        PROVE  AfterWrap(s)'
    BY <2>2, <2>3 DEF AfterWrap, Wrapped
  <2>4. ASSUME NEW i \in 1 .. Len(e)
        PROVE  Contents(e[i]) \subseteq wanted'
    BY <1>8, <1>3, <1>7 DEF Held
  <2>5. ASSUME NEW i \in 1 .. Len(e), NEW k \in 1 .. Len(l),
               AheadOf(e[i].pid, l[k]) <= BlpBits
        PROVE  l[k] \in Contents(e[i]) \/ AfterWrap(l[k])'
    <3>1. l \in Lists /\ Held(l, Len(l), e[i])
      BY <1>8, <1>1, <1>3 DEF list
    <3>2. i # Len(e) => Passed(l, Len(l), e[i])
      BY <1>8, <1>3
    <3>3. l[k] \in Contents(e[i]) \/ (i = Len(e) /\ Wrapped(e[i], l[k]))
      BY <2>5, <3>1, <3>2, WithinReach
    <3>4. i = Len(e) => Len(e) # 0
      BY <2>1
    <3>5. QED
      BY <2>3, <3>3, <3>4
  <2>6. ASSUME NEW k \in 1 .. Len(l)
        PROVE  \/ \E i \in 1 .. Len(e) : l[k] \in Contents(e[i]) \/ Closes(e[i], l[k])'
               \/ AfterWrap(l[k])'
    <3>1. Sent(l, e, k)
      BY <1>8, <1>3
    <3>2. ASSUME NEW i \in 1 .. Len(e), FirstBeyond(l, e[i], k)
          PROVE  Closes(e[i], l[k])'
      BY <1>8, <1>7, <3>2 DEF FirstBeyond, Closes
    <3>3. QED
      BY <2>3, <3>1, <3>2 DEF Sent
  <2>7. QED
    BY <1>8, <1>6, <1>7, <2>1, <2>4, <2>5, <2>6 DEF AskedWithinReach, Closes
<1>9. PacketFits'
  BY <1>3, <1>5, <1>6 DEF PacketFits
<1>10. wanted' \subseteq SeqNo
  BY <1>2, <1>7
<1>11. asking' \in Lists /\ answering' \in Seq(SeqNo) /\ own' \in BOOLEAN
  <2>1. 0 \in SeqNo
    BY Space
  <2>2. <<>> \in Lists
    BY <2>1, NoPacket
  <2>3. QED
    BY <1>1, <1>6, <2>2 DEF IInv
<1>12. AskedWithinReach'
  BY <1>8
<1>13. QED
  BY <1>4, <1>6, <1>12, <1>9, <1>10, <1>11 DEF IInv

LEMMA SendForeignOK ==
  ASSUME IInv, NEW n \in 1 .. ForeignChunks, NEW cs \in [1 .. n -> Foreign], SendForeign(cs)
  PROVE  IInv'
<1>1. n \in Nat /\ Foreign \subseteq Chunk
  BY CodecAssumption DEF Foreign, Chunk
<1>2. cs \in Seq(Chunk) /\ Len(cs) = n /\ DOMAIN cs = 1 .. n
  BY <1>1
<1>3. /\ chunks' = cs /\ own' = FALSE /\ asking' = asking /\ answering' = answering
      /\ wanted' = UNION {Contents(cs[i]) : i \in 1 .. n}
  BY <1>2 DEF SendForeign
<1>4. PICK o \in SeqNo : \A i \in DOMAIN cs : \A s \in Contents(cs[i]) : AheadOf(o, s) < Half
  BY DEF SendForeign
<1>5. cs \in Packets(o)
  BY <1>2, <1>4 DEF Packets, From
<1>6. \A i \in 1 .. n : Contents(cs[i]) \subseteq wanted' /\ Contents(cs[i]) \subseteq SeqNo
  <2>1. \A i \in 1 .. n : cs[i] \in Chunk
    BY <1>1
  <2>2. QED
    BY <1>3, <2>1, ContentsNumbers
<1>7. wanted' \subseteq SeqNo
  BY <1>3, <1>6
<1>8. AskedWithinReach' /\ PacketFits'
  BY <1>2, <1>3, <1>6 DEF AskedWithinReach, PacketFits
<1>9. QED
  BY <1>3, <1>4, <1>5, <1>7, <1>8 DEF IInv

(* The packet leaves the wire, read or lost.                                *)
LEMMA OffWireOK ==
  ASSUME IInv, chunks' = <<>>, wanted' = {}, answering' \in Seq(SeqNo),
         UNCHANGED <<asking, own>>
  PROVE  IInv'
<1>1. AskedWithinReach' /\ PacketFits'
  <2>1. Cardinality(wanted') = 0
    BY FS_EmptySet
  <2>2. DOMAIN chunks' = {} /\ Len(chunks') = 0
    OBVIOUS
  <2>3. QED
    BY <2>1, <2>2 DEF AskedWithinReach, PacketFits
<1>2. 0 \in SeqNo
  BY Space
<1>3. chunks' \in Packets(0)
  BY <1>2, NoPacket
<1>4. QED
  BY <1>1, <1>2, <1>3 DEF IInv

(* Reading: the packet's numbers, each once and in order.                   *)
LEMMA ReceiveReads ==
  ASSUME IInv, Receive
  PROVE  /\ answering' \in Seq(SeqNo)
         /\ ToSet(answering') = UNION {Contents(chunks[i]) : i \in DOMAIN chunks}
         /\ \A i, j \in DOMAIN answering' :
              i < j => SeqDistance(answering'[i], answering'[j]) > 0
<1>1. PICK o \in SeqNo : chunks \in Packets(o)
  BY DEF IInv
<1>2. /\ Decode(chunks) \in Sorted(o)
      /\ ToSet(Decode(chunks)) = UNION {Contents(chunks[i]) : i \in 1 .. Len(chunks)}
  BY <1>1, DecodeSorts
<1>3. DOMAIN chunks = 1 .. Len(chunks)
  BY <1>1, LenProperties DEF Packets
<1>4. answering' = Decode(chunks)
  BY DEF Receive
<1>5. answering' \in Seq(SeqNo) /\ Ordered(answering')
  BY <1>2, <1>4 DEF Sorted
<1>6. DOMAIN answering' = 1 .. Len(answering')
  BY <1>5, LenProperties
<1>7. QED
  BY <1>2, <1>3, <1>4, <1>5, <1>6 DEF Ordered

LEMMA NextOK == IInv /\ [Next]_vars => IInv'
<1>1. SUFFICES ASSUME IInv, [Next]_vars PROVE IInv'
  OBVIOUS
<1>2. ASSUME NEW sn \in SeqNo, Ask(sn) PROVE IInv'
  BY <1>1, <1>2, AskOK
<1>3. CASE Send
  BY <1>1, <1>3, SendOK
<1>4. ASSUME NEW n \in 1 .. ForeignChunks, NEW cs \in [1 .. n -> Foreign], SendForeign(cs)
      PROVE  IInv'
  BY <1>1, <1>4, SendForeignOK
<1>5. CASE Receive
  <2>1. answering' \in Seq(SeqNo)
    BY <1>1, <1>5, ReceiveReads
  <2>2. chunks' = <<>> /\ wanted' = {} /\ UNCHANGED <<asking, own>>
    BY <1>5 DEF Receive
  <2>3. QED
    BY <1>1, <2>1, <2>2, OffWireOK
<1>6. CASE Lose
  <2>1. chunks' = <<>> /\ wanted' = {} /\ UNCHANGED <<asking, own, answering>>
    BY <1>6 DEF Lose
  <2>2. answering' \in Seq(SeqNo)
    BY <1>1, <2>1 DEF IInv
  <2>3. QED
    BY <1>1, <2>1, <2>2, OffWireOK
<1>7. CASE Answered
  <2>1. UNCHANGED <<asking, chunks, wanted, own>> /\ answering' \in Seq(SeqNo)
    BY <1>7, EmptySeq DEF Answered
  <2>2. AskedWithinReach' /\ PacketFits'
    BY <1>1, <2>1 DEF IInv, AskedWithinReach, PacketFits, AfterWrap, Closes
  <2>3. QED
    BY <1>1, <2>1, <2>2 DEF IInv
<1>8. CASE UNCHANGED vars
  <2>1. UNCHANGED <<asking, chunks, wanted, own, answering>>
    BY <1>8 DEF vars
  <2>2. AskedWithinReach' /\ PacketFits'
    BY <1>1, <2>1 DEF IInv, AskedWithinReach, PacketFits, AfterWrap, Closes
  <2>3. QED
    BY <1>1, <2>1, <2>2 DEF IInv
<1>9. QED
  BY <1>1, <1>2, <1>3, <1>4, <1>5, <1>6, <1>7, <1>8 DEF Next

LEMMA Inductive == Spec => []IInv
<1>1. QED
  BY InitOK, NextOK, PTL DEF Spec

-----------------------------------------------------------------------------
(* Results. *)

(* The codec's lists hold sequence numbers and its masks fit BlpBits bits   *)
(* (YangRtcpNack).                                                          *)
THEOREM Typing == Spec => []TypeOK
<1>1. IInv => TypeOK
  BY DEF IInv, TypeOK, Lists, Packets
<1>2. QED
  BY <1>1, Inductive, PTL

(* For every list in order and every width of the mask, a packet asks for   *)
(* listed numbers only, and for every one of them but those that close a    *)
(* chunk or come after the wrap of the sequence space; distances are those  *)
(* of the circle (yang_encode_rtcpNack).                                    *)
THEOREM ReachesItsMask == Spec => []AskedWithinReach
<1>1. IInv => AskedWithinReach
  BY DEF IInv
<1>2. QED
  BY <1>1, Inductive, PTL

(* A packet of any list has at most half as many chunks as the list has     *)
(* numbers, rounded up (kRtcpPacketSize).                                   *)
THEOREM FitsThePacket == Spec => []PacketFits
<1>1. IInv => PacketFits
  BY DEF IInv
<1>2. QED
  BY <1>1, Inductive, PTL

(* Whatever the order and the overlaps of the chunks, the publisher reads   *)
(* every number once, oldest first: the binary search finds the place of    *)
(* each (yang_get_uint16_index, yang_decode_rtcpNack).                      *)
THEOREM ReadsEachOnce == Spec => ReadExactly
<1>1. IInv /\ [Next]_vars =>
        [Receive =>
           /\ ToSet(answering') = UNION {Contents(chunks[i]) : i \in DOMAIN chunks}
           /\ \A i, j \in DOMAIN answering' :
                i < j => SeqDistance(answering'[i], answering'[j]) > 0]_vars
  BY ReceiveReads
<1>2. QED
  BY <1>1, Inductive, PTL DEF Spec, ReadExactly

=============================================================================
