-------------------------- MODULE SynBufferProofs --------------------------
(***************************************************************************)
(* For every size of the ring, stamps and clock: the indexes of a ring     *)
(* that is emptied while it is in use stay in range and m_size within the  *)
(* capacity, and where no copying of a frame is cut through, every frame   *)
(* put since comes out once and in its order.                              *)
(***************************************************************************)
EXTENDS SynBuffer, TLAPS

(* The room the decoder found stays: the renderer only makes more.          *)
RoomKept == decoder \in {"ready", "copy"} => m_size < m_cache_num

IndexWrapped == decoder # "copy" => m_putIndex \in Slots

Numbered == decoder # "out" => put.n >= 1

Ranges == TypeOK /\ RoomKept /\ IndexWrapped /\ Numbered

(* The slot k places past the oldest frame.                                 *)
At(k) ==
  IF m_getIndex + k < m_cache_num THEN m_getIndex + k
  ELSE m_getIndex + k - m_cache_num

(* The frames that were put and counted.                                    *)
Done == IF decoder = "out" THEN put.n ELSE put.n - 1

(* An emptying that no put overlaps finds its indexes as it left them.      *)
ClearedAlone ==
  Clearing => ~Putting /\ m_putIndex = 0 /\ (render = "size" => m_getIndex = 0)

(* The ring holds the frames after the last one taken, in their order, ...  *)
InOrder ==
  /\ last + m_size = Done
  /\ \A k \in 0 .. m_size - 1 : m_frames[At(k)].n = last + 1 + k

(* ... and the next one goes behind them.                                   *)
PutsBehind ==
  /\ decoder \in {"out", "ready"} => m_putIndex = At(m_size)
  /\ Putting => slot = At(m_size)
  /\ decoder = "copy" => m_putIndex = slot + 1
  /\ decoder = "count" =>
       /\ counted = m_size /\ m_frames[slot].n = put.n
       /\ m_putIndex = IF slot + 1 >= m_cache_num THEN 0 ELSE slot + 1

Orderly == ~torn => ClearedAlone /\ (~Clearing => InOrder /\ PutsBehind)

IInv == Ranges /\ Orderly

-----------------------------------------------------------------------------

LEMMA Initially == Init => IInv
<1> SUFFICES ASSUME Init PROVE IInv
  OBVIOUS
<1>1. Blank \in Frame /\ Blank.n = 0
  BY SynAssumption DEF Blank, Frame
<1>2. /\ 0 \in Slots /\ 0 \in 0 .. m_cache_num - 1 /\ 0 \in 0 .. m_cache_num
      /\ 0 \in 0 .. MaxMisses /\ 0 \in 0 .. MaxElapsed /\ 0 \in 0 .. MaxFrame
  BY SynAssumption DEF Slots
<1>3. m_frames \in [Slots -> Frame]
  BY <1>1 DEF Init
<1>4. TypeOK
  BY <1>1, <1>2, <1>3 DEF Init, TypeOK
<1>5. Ranges
  BY <1>2, <1>4 DEF Init, Ranges, RoomKept, IndexWrapped, Numbered
<1>6. Orderly
  BY <1>1, <1>2, SynAssumption
  DEF Init, Orderly, ClearedAlone, Clearing, Putting, InOrder, PutsBehind, At, Done
<1> QED
  BY <1>5, <1>6 DEF IInv

(* The base and the time a poll leaves stay in their ranges.                *)
LEMMA PollTypes ==
  ASSUME TypeOK, NEW reset \in BOOLEAN, Poll(reset)
  PROVE  /\ m_videoBase' \in Stamp \cup {0}
         /\ elapsed' \in 0 .. MaxElapsed
         /\ m_video_time_state' \in {0, 1}
<1>1. Oldest \in Frame
  BY DEF TypeOK, Oldest
<1>2. Oldest.pts \in Stamp \cup {0}
  BY <1>1 DEF Frame
<1>3. Base \in Stamp \cup {0} /\ Since \in 0 .. MaxElapsed
  BY <1>2, SynAssumption DEF TypeOK, Base, Since
<1> QED
  BY <1>2, <1>3, SynAssumption DEF Poll, TypeOK

LEMMA CountType ==
  ASSUME NEW count \in 0 .. MaxMisses
  PROVE  Count(count) \in 0 .. MaxMisses
BY SynAssumption DEF Count

LEMMA RangesStep == Ranges /\ [Next]_vars => Ranges'
<1> SUFFICES ASSUME Ranges, [Next]_vars PROVE Ranges'
  OBVIOUS
<1> USE SynAssumption DEF Ranges
<1>1. ASSUME NEW pts \in Stamp, NEW frametype \in {"I", "P"}, PutTest(pts, frametype)
      PROVE  Ranges'
  <2>1. put' \in Frame /\ put'.n = put.n + 1 /\ put.n \in Nat
    BY <1>1 DEF PutTest, TypeOK, Frame
  <2>2. decoder = "out" /\ decoder' = "ready" /\ m_size < m_cache_num
    BY <1>1 DEF PutTest, Room
  <2>3. UNCHANGED <<ring, slot, counted, render, m_isFirstVideo, clock, last, torn>>
    BY <1>1 DEF PutTest
  <2>4. TypeOK'
    BY <2>1, <2>2, <2>3 DEF TypeOK, ring, clock
  <2>5. RoomKept' /\ IndexWrapped' /\ Numbered'
    BY <2>1, <2>2, <2>3 DEF RoomKept, IndexWrapped, Numbered, ring
  <2> QED
    BY <2>4, <2>5
<1>2. CASE PutLock
  BY <1>2 DEF PutLock, TypeOK, RoomKept, IndexWrapped, Numbered, clock, Slots
<1>3. CASE PutCopy
  BY <1>3 DEF PutCopy, TypeOK, RoomKept, IndexWrapped, Numbered, clock, Slots
<1>4. CASE PutCount
  BY <1>4 DEF PutCount, TypeOK, RoomKept, IndexWrapped, Numbered, clock, Slots
<1>5. CASE ClearPut
  BY <1>5 DEF ClearPut, TypeOK, RoomKept, IndexWrapped, Numbered, clock, putter, Slots
<1>6. CASE ClearGet
  BY <1>6 DEF ClearGet, TypeOK, RoomKept, IndexWrapped, Numbered, clock, putter, Slots
<1>7. CASE ClearSize
  <2>1. put.n \in 0 .. MaxFrame
    BY DEF TypeOK, Frame
  <2>2. last' \in 0 .. MaxFrame
    BY <1>7, <2>1 DEF ClearSize, Numbered, TypeOK
  <2>3. m_size' = 0 /\ 0 \in 0 .. m_cache_num /\ 0 < m_cache_num
    BY <1>7 DEF ClearSize
  <2>4. TypeOK'
    BY <1>7, <2>2, <2>3 DEF ClearSize, TypeOK, clock, putter
  <2>5. RoomKept' /\ IndexWrapped' /\ Numbered'
    BY <1>7, <2>3 DEF ClearSize, RoomKept, IndexWrapped, Numbered, putter
  <2> QED
    BY <2>4, <2>5
<1>8. ASSUME NEW reset \in BOOLEAN, Poll(reset),
             render' \in {"out", "take"},
             m_videoNegativeCount' \in 0 .. MaxMisses,
             m_videoTimeoutCount' \in 0 .. MaxMisses
      PROVE  Ranges'
  <2>1. /\ m_videoBase' \in Stamp \cup {0} /\ elapsed' \in 0 .. MaxElapsed
        /\ m_video_time_state' \in {0, 1}
    BY <1>8, PollTypes
  <2>2. UNCHANGED <<ring, putter, m_isFirstVideo, last, torn>>
    BY <1>8 DEF Poll
  <2> QED
    BY <1>8, <2>1, <2>2
    DEF TypeOK, RoomKept, IndexWrapped, Numbered, ring, putter, Slots
<1>9. /\ m_videoNegativeCount \in 0 .. MaxMisses
      /\ m_videoTimeoutCount \in 0 .. MaxMisses
      /\ render \in {"out", "getIndex", "size", "take"}
  BY DEF TypeOK
<1>10. CASE Late
  BY <1>8, <1>9, <1>10, CountType DEF Late
<1>11. CASE Due
  BY <1>8, <1>9, <1>11 DEF Due, Key
<1>12. CASE Early
  BY <1>8, <1>9, <1>12, CountType DEF Early, Poll
<1>13. CASE TakeNone
  BY <1>13 DEF TakeNone, TypeOK, RoomKept, IndexWrapped, Numbered, ring, clock, putter, Slots
<1>14. CASE Take
  <2>1. Oldest.n \in 0 .. MaxFrame
    BY DEF TypeOK, Oldest, Frame
  <2>2. /\ m_getIndex' \in Slots /\ m_size' = m_size - 1
        /\ m_size' \in 0 .. m_cache_num /\ m_size \in 0 .. m_cache_num
        /\ last' \in 0 .. MaxFrame /\ render' = "out"
    <3>1. /\ m_getIndex \in 0 .. m_cache_num - 1
          /\ m_size \in 0 .. m_cache_num /\ m_size # 0
      BY <1>14 DEF Take, TypeOK, Slots
    <3>2. /\ m_getIndex' = IF m_getIndex + 1 >= m_cache_num THEN 0 ELSE m_getIndex + 1
          /\ m_size' = m_size - 1 /\ last' = Oldest.n /\ render' = "out"
      BY <1>14 DEF Take
    <3>3. m_getIndex' \in Slots
      BY <3>1, <3>2 DEF Slots
    <3> QED
      BY <2>1, <3>1, <3>2, <3>3
  <2>3. UNCHANGED <<m_frames, m_putIndex, putter, m_isFirstVideo, clock, torn>>
    BY <1>14 DEF Take
  <2>4. TypeOK'
    BY <2>2, <2>3 DEF TypeOK, putter, clock
  <2>5. RoomKept' /\ IndexWrapped' /\ Numbered'
    BY <2>2, <2>3 DEF RoomKept, IndexWrapped, Numbered, putter
  <2> QED
    BY <2>4, <2>5
<1>15. CASE Tick
  BY <1>15 DEF Tick, TypeOK, RoomKept, IndexWrapped, Numbered, ring, putter, Slots
<1>16. CASE UNCHANGED vars
  BY <1>16 DEF vars, TypeOK, RoomKept, IndexWrapped, Numbered, ring, clock, putter, Slots
<1> QED
  BY <1>1, <1>2, <1>3, <1>4, <1>5, <1>6, <1>7, <1>10, <1>11, <1>12, <1>13,
     <1>14, <1>15, <1>16
  DEF Next, Decoder, Renderer

-----------------------------------------------------------------------------
(* What the order needs of the types.                                       *)
LEMMA Numbers ==
  ASSUME Ranges
  PROVE  /\ m_cache_num \in Nat \ {0}
         /\ m_putIndex \in 0 .. m_cache_num /\ m_getIndex \in 0 .. m_cache_num - 1
         /\ m_size \in 0 .. m_cache_num
         /\ put.n \in Nat /\ last \in Nat /\ slot \in 0 .. m_cache_num - 1
         /\ decoder \in {"out", "ready", "copy", "count"}
         /\ render \in {"out", "getIndex", "size", "take"}
         /\ torn \in BOOLEAN
BY SynAssumption DEF Ranges, TypeOK, Frame, Slots

(* A step that moves neither the ring nor the decoder.                      *)
LEMMA OrderKept ==
  ASSUME Orderly, UNCHANGED <<ring, putter, last, torn>>,
         Clearing' <=> Clearing, render' = "size" <=> render = "size"
  PROVE  Orderly'
BY DEF Orderly, ClearedAlone, Putting, InOrder, PutsBehind, At, Done, ring, putter

LEMMA OrderStep == IInv /\ [Next]_vars => Orderly'
<1> SUFFICES ASSUME IInv, [Next]_vars PROVE Orderly'
  OBVIOUS
<1>1. Ranges /\ Orderly
  BY DEF IInv
<1> DEFINE Types ==
         /\ m_cache_num \in Nat \ {0}
         /\ m_putIndex \in 0 .. m_cache_num /\ m_getIndex \in 0 .. m_cache_num - 1
         /\ m_size \in 0 .. m_cache_num
         /\ put.n \in Nat /\ last \in Nat /\ slot \in 0 .. m_cache_num - 1
         /\ decoder \in {"out", "ready", "copy", "count"}
         /\ render \in {"out", "getIndex", "size", "take"}
         /\ torn \in BOOLEAN
<1>2. Types
  BY <1>1, Numbers
<1>3. ASSUME NEW pts \in Stamp, NEW frametype \in {"I", "P"}, PutTest(pts, frametype)
      PROVE  Orderly'
  <2>1. put'.n = put.n + 1
    BY <1>3 DEF PutTest
  <2> QED
    BY <1>1, <1>2, <1>3, <2>1
    DEF PutTest, Orderly, ClearedAlone, Clearing, Putting, InOrder, PutsBehind,
        At, Done, ring
<1>4. CASE PutLock
  BY <1>1, <1>2, <1>4
  DEF PutLock, Orderly, ClearedAlone, Clearing, Putting, InOrder, PutsBehind, At, Done
<1>5. CASE PutCopy
  <2> SUFFICES ASSUME ~torn' PROVE ClearedAlone' /\ (~Clearing' => InOrder' /\ PutsBehind')
    BY DEF Orderly
  <2>1. ~torn /\ ~Clearing /\ InOrder /\ PutsBehind
    BY <1>1, <1>5 DEF PutCopy, Orderly, ClearedAlone, Putting
  <2>2. ClearedAlone' /\ ~Clearing'
    BY <1>5, <2>1 DEF PutCopy, ClearedAlone, Clearing
  <2>3. slot = At(m_size) /\ m_size < m_cache_num /\ m_putIndex = slot + 1
    BY <1>1, <1>5, <2>1 DEF PutCopy, PutsBehind, Putting, Ranges, RoomKept
  <2>4. ASSUME NEW k \in 0 .. m_size - 1
        PROVE  At(k) \in Slots \ {slot}
    BY <1>2, <2>3 DEF At, Slots
  <2>5. m_frames' = [m_frames EXCEPT ![slot] = put] /\ m_frames \in [Slots -> Frame]
    BY <1>1, <1>5 DEF PutCopy, Ranges, TypeOK
  <2>6. slot \in Slots /\ m_frames'[slot] = put
    BY <1>2, <2>5 DEF Slots
  <2>7. InOrder'
    <3>1. \A k \in 0 .. m_size - 1 : m_frames'[At(k)] = m_frames[At(k)]
      BY <2>4, <2>5
    <3> QED
      BY <1>5, <2>1, <3>1 DEF PutCopy, InOrder, At, Done
  <2>8. PutsBehind'
    BY <1>2, <1>5, <2>3, <2>6 DEF PutCopy, PutsBehind, Putting, At
  <2> QED
    BY <2>2, <2>7, <2>8
<1>6. CASE PutCount
  <2> SUFFICES ASSUME ~torn' PROVE ClearedAlone' /\ (~Clearing' => InOrder' /\ PutsBehind')
    BY DEF Orderly
  <2>1. ~torn /\ ~Clearing /\ InOrder /\ PutsBehind
    BY <1>1, <1>6 DEF PutCount, Orderly, ClearedAlone, Putting
  <2>2. ClearedAlone' /\ ~Clearing'
    BY <1>6, <2>1 DEF PutCount, ClearedAlone, Clearing
  <2>3. /\ slot = At(m_size) /\ counted = m_size /\ m_frames[slot].n = put.n
        /\ m_putIndex = IF slot + 1 >= m_cache_num THEN 0 ELSE slot + 1
    BY <1>6, <2>1 DEF PutCount, PutsBehind, Putting
  <2>4. m_size' = m_size + 1 /\ m_size + 1 \in 0 .. m_cache_num
    BY <1>1, <1>2, <1>6, <2>3, SynAssumption DEF PutCount, Ranges, TypeOK
  <2>5. last + m_size = put.n - 1
    BY <1>6, <2>1 DEF PutCount, InOrder, Done
  <2>6. InOrder'
    <3>1. last' + m_size' = Done'
      BY <1>2, <1>6, <2>4, <2>5 DEF PutCount, Done
    <3>2. ASSUME NEW k \in 0 .. m_size
          PROVE  m_frames[At(k)].n = last + 1 + k
      <4>1. CASE k = m_size
        BY <1>2, <2>3, <2>5, <4>1
      <4>2. CASE k # m_size
        BY <1>2, <2>1, <4>2 DEF InOrder
      <4> QED
        BY <4>1, <4>2
    <3> QED
      BY <1>2, <1>6, <2>4, <3>1, <3>2 DEF PutCount, InOrder, At
  <2>7. PutsBehind'
    BY <1>2, <1>6, <2>3, <2>4 DEF PutCount, PutsBehind, Putting, At
  <2> QED
    BY <2>2, <2>6, <2>7
<1>7. CASE ClearPut
  BY <1>1, <1>2, <1>7
  DEF ClearPut, Orderly, ClearedAlone, Clearing, Putting, putter
<1>8. CASE ClearGet
  BY <1>1, <1>2, <1>8
  DEF ClearGet, Orderly, ClearedAlone, Clearing, Putting, putter
<1>9. CASE ClearSize
  <2>1. ~torn => ~Putting /\ m_putIndex = 0 /\ m_getIndex = 0
    BY <1>1, <1>9 DEF ClearSize, Orderly, ClearedAlone, Clearing
  <2> QED
    BY <1>1, <1>2, <1>9, <2>1
    DEF ClearSize, Orderly, ClearedAlone, Clearing, Putting, InOrder, PutsBehind,
        At, Done, putter
<1>10. ASSUME NEW reset \in BOOLEAN, Poll(reset), render' \in {"out", "take"}
       PROVE  Orderly'
  BY <1>1, <1>10, OrderKept DEF Poll, Clearing
<1>11. CASE Late
  BY <1>10, <1>11 DEF Late
<1>12. CASE Due
  BY <1>10, <1>12 DEF Due, Key
<1>13. CASE Early
  BY <1>10, <1>13 DEF Early, Poll
<1>14. CASE TakeNone
  BY <1>1, <1>14, OrderKept DEF TakeNone, Clearing
<1>15. CASE Take
  <2> SUFFICES ASSUME ~torn' PROVE ClearedAlone' /\ (~Clearing' => InOrder' /\ PutsBehind')
    BY DEF Orderly
  <2>1. ~torn /\ ~Putting /\ InOrder /\ PutsBehind
    BY <1>1, <1>15 DEF Take, Orderly, Clearing
  <2>2. ClearedAlone'
    BY <1>15 DEF Take, ClearedAlone, Clearing
  <2>3. 0 \in 0 .. m_size - 1 /\ At(0) = m_getIndex
    BY <1>2, <1>15 DEF Take, At
  <2>4. last' = last + 1
    BY <1>2, <1>15, <2>1, <2>3 DEF Take, InOrder, Oldest
  <2>5. \A k \in 0 .. m_size - 1 : At(k)' = At(k + 1)
    BY <1>2, <1>15 DEF Take, At
  <2>6. InOrder'
    <3>1. last' + m_size' = Done'
      BY <1>2, <1>15, <2>1, <2>4 DEF Take, InOrder, Done, putter
    <3>2. ASSUME NEW k \in 0 .. m_size' - 1
          PROVE  m_frames'[At(k)'].n = last' + 1 + k
      <4>1. k \in 0 .. m_size - 1 /\ k + 1 \in 0 .. m_size - 1
        BY <1>2, <1>15 DEF Take
      <4>2. m_frames[At(k + 1)].n = last + 1 + (k + 1)
        BY <2>1, <4>1 DEF InOrder
      <4> QED
        BY <1>2, <1>15, <2>4, <2>5, <4>1, <4>2 DEF Take
    <3> QED
      BY <3>1, <3>2 DEF InOrder
  <2>7. PutsBehind'
    BY <1>2, <1>15, <2>1 DEF Take, PutsBehind, Putting, At, putter
  <2> QED
    BY <2>2, <2>6, <2>7
<1>16. CASE Tick
  BY <1>1, <1>16, OrderKept DEF Tick, Clearing
<1>17. CASE UNCHANGED vars
  BY <1>1, <1>17, OrderKept DEF vars, Clearing
<1> QED
  BY <1>3, <1>4, <1>5, <1>6, <1>7, <1>8, <1>9, <1>11, <1>12, <1>13, <1>14,
     <1>15, <1>16, <1>17
  DEF Next, Decoder, Renderer

LEMMA Invariance == Spec => []IInv
<1>1. IInv /\ [Next]_vars => IInv'
  BY RangesStep, OrderStep DEF IInv
<1> QED
  BY <1>1, Initially, PTL DEF Spec

-----------------------------------------------------------------------------

(* Wherever the emptying of the ring falls, m_size stays within the         *)
(* capacity and every index inside the ring (YangSynBuffer::playVideoFrame  *)
(* with YangMediaBuffer::resetIndex and putFrame).                          *)
THEOREM Typing == Spec => []TypeOK
<1>1. IInv => TypeOK
  BY DEF IInv, Ranges
<1> QED
  BY <1>1, Invariance, PTL

(* Unless a put is cut through, the renderer takes the frames put since the *)
(* ring was emptied one after the other, each once: a step that takes the   *)
(* frame taken before again breaks it (YangSynBuffer::getVideoRef).         *)
THEOREM TakenInOrder == Spec => NextInOrder
<1> DEFINE Step ==
         render = "take" /\ m_size # 0 /\ render' = "out" /\ ~torn
           => last' = last + 1
<1>1. IInv /\ [Next]_vars => [Step]_vars
  <2> SUFFICES ASSUME IInv, Next, render = "take", m_size # 0,
                      render' = "out", ~torn
               PROVE  last' = last + 1
    BY DEF vars
  <2>1. Take
    BY DEF Next, Decoder, Renderer, PutTest, PutLock, PutCopy, PutCount,
           ClearPut, ClearGet, ClearSize, Late, Due, Early, Poll, TakeNone, Tick
  <2>2. InOrder /\ m_size \in Nat /\ m_getIndex \in 0 .. m_cache_num - 1
    BY Numbers DEF IInv, Orderly, Clearing
  <2>3. 0 \in 0 .. m_size - 1 /\ At(0) = m_getIndex
    BY <2>1, <2>2, SynAssumption DEF Take, At
  <2>4. m_frames[m_getIndex].n = last + 1 + 0 /\ last \in Nat
    BY <2>2, <2>3, Numbers DEF InOrder, IInv
  <2> QED
    BY <2>1, <2>4 DEF Take, Oldest
<1> QED
  BY <1>1, Invariance, PTL DEF Spec, NextInOrder

=============================================================================
