----------------------------- MODULE SynBuffer -----------------------------
(***************************************************************************)
(* YangSynBuffer: when a decoded video frame is drawn.  The renderer polls *)
(* the buffer of decoded frames (YangMediaBuffer) and compares the time    *)
(* stamp of the oldest one with a clock it sets by the frames themselves:  *)
(* the frame is drawn, dropped because it is late, or left for a later     *)
(* poll.  The first poll that finds a frame empties the buffer without its *)
(* lock, while the decoder may be putting a frame.                         *)
(*                                                                         *)
(* The accesses of the two threads to the indexes of the ring are steps of *)
(* their own where the other may come between.  Stamps are in              *)
(* milliseconds: the division by the clock rate is not modelled.           *)
(***************************************************************************)
EXTENDS Integers

CONSTANTS
  m_cache_num,        \* slots of the ring: 30
  m_videoCacheTime,   \* how late a frame may be: 35
  m_maxVideoMinus,    \* how early it may be drawn: 35
  MaxMisses,          \* late or early polls that leave the clock alone: 6
  Stamp,              \* the time stamps a sender uses, in any order
  MaxElapsed,         \* bound: the clock stops here
  MaxFrame            \* bound: frames the decoder puts

ASSUME SynAssumption ==
  /\ {m_cache_num, MaxFrame} \subseteq Nat \ {0}
  /\ {m_videoCacheTime, MaxMisses, MaxElapsed} \subseteq Nat
  /\ m_videoCacheTime <= m_maxVideoMinus /\ m_maxVideoMinus \in Nat
  /\ Stamp \subseteq Nat

Slots == 0 .. m_cache_num - 1
Frame == [n : 0 .. MaxFrame, pts : Stamp \cup {0}, frametype : {"I", "P"}]
Blank == [n |-> 0, pts |-> 0, frametype |-> "P"]    \* a slot never written

VARIABLES
  m_frames, m_putIndex, m_getIndex, m_size,
  put,                  \* the frame the decoder puts, numbered from 1
  decoder,              \* where it is in putFrame
  slot, counted,        \* the slot it took, the m_size it read
  render,               \* where the renderer is in getVideoRef
  m_videoBase, m_isFirstVideo, m_video_time_state,
  m_videoNegativeCount, m_videoTimeoutCount,
  elapsed,              \* the time since m_video_startClock
  last,                 \* the last frame taken out, or cleared
  torn                  \* the ring was emptied while a frame was being put

ring   == <<m_frames, m_putIndex, m_getIndex, m_size>>
clock  == <<m_videoBase, m_video_time_state, m_videoNegativeCount,
            m_videoTimeoutCount, elapsed>>
putter == <<put, decoder, slot, counted>>
vars   == <<ring, putter, render, m_isFirstVideo, clock, last, torn>>

Init ==
  /\ m_frames = [i \in Slots |-> Blank]
  /\ m_putIndex = 0 /\ m_getIndex = 0 /\ m_size = 0
  /\ put = Blank /\ decoder = "out" /\ slot = 0 /\ counted = 0
  /\ render = "out"
  /\ m_videoBase = 0 /\ m_isFirstVideo = FALSE /\ m_video_time_state = 0
  /\ m_videoNegativeCount = 0 /\ m_videoTimeoutCount = 0 /\ elapsed = 0
  /\ last = 0 /\ torn = FALSE

Putting == decoder \in {"copy", "count"}
Clearing == render \in {"getIndex", "size"}

-----------------------------------------------------------------------------
(* The decoder: putFrame.  It has the lock from PutLock to PutCount.  The   *)
(* renderer takes a frame out in one step, so that PutLock never waits.     *)

RoomForOneMore == m_size <= m_cache_num

Room == m_size < m_cache_num

PutTest(pts, frametype) ==
  /\ decoder = "out" /\ put.n < MaxFrame
  /\ Room
  /\ put' = [n |-> put.n + 1, pts |-> pts, frametype |-> frametype]
  /\ decoder' = "ready"
  /\ UNCHANGED <<ring, slot, counted, render, m_isFirstVideo, clock, last, torn>>

(* m_putIndex++, before the copy.                                           *)
PutLock ==
  /\ decoder = "ready"
  /\ slot' = m_putIndex
  /\ m_putIndex' = m_putIndex + 1
  /\ decoder' = "copy"
  /\ torn' = (torn \/ Clearing)
  /\ UNCHANGED <<m_frames, m_getIndex, m_size, put, counted, render,
                 m_isFirstVideo, clock, last>>

(* The frame is copied, the index wraps, m_size++ reads m_size, ...         *)
PutCopy ==
  /\ decoder = "copy"
  /\ m_frames' = [m_frames EXCEPT ![slot] = put]
  /\ m_putIndex' = IF m_putIndex >= m_cache_num THEN 0 ELSE m_putIndex
  /\ counted' = m_size
  /\ decoder' = "count"
  /\ UNCHANGED <<m_getIndex, m_size, put, slot, render, m_isFirstVideo,
                 clock, last, torn>>

(* ... and stores it.                                                       *)
PutCount ==
  /\ decoder = "count"
  /\ m_size' = counted + 1
  /\ decoder' = "out"
  /\ UNCHANGED <<m_frames, m_putIndex, m_getIndex, put, slot, counted, render,
                 m_isFirstVideo, clock, last, torn>>

-----------------------------------------------------------------------------
(* The renderer: resetIndex, called by the first playVideoFrame.            *)

ClearPutForgotten ==
  /\ render = "out" /\ m_size # 0
  /\ m_videoBase = 0 /\ ~m_isFirstVideo
  /\ render' = "getIndex"
  /\ torn' = (torn \/ Putting)
  /\ UNCHANGED <<ring, putter, m_isFirstVideo, clock, last>>

ClearPut ==
  /\ render = "out" /\ m_size # 0
  /\ m_videoBase = 0 /\ ~m_isFirstVideo
  /\ m_putIndex' = 0
  /\ render' = "getIndex"
  /\ torn' = (torn \/ Putting)
  /\ UNCHANGED <<m_frames, m_getIndex, m_size, putter, m_isFirstVideo, clock, last>>

ClearGet ==
  /\ render = "getIndex"
  /\ m_getIndex' = 0
  /\ render' = "size"
  /\ UNCHANGED <<m_frames, m_putIndex, m_size, putter, m_isFirstVideo, clock,
                 last, torn>>

(* The frames put so far are gone.  The poll goes on as if the frame it     *)
(* looked at were to be drawn: playVideoFrame returns false, which is Yang_Ok. *)
ClearSize ==
  /\ render = "size"
  /\ m_size' = 0
  /\ m_isFirstVideo' = TRUE
  /\ render' = "take"
  /\ last' = IF decoder = "out" THEN put.n ELSE put.n - 1
  /\ UNCHANGED <<m_frames, m_putIndex, m_getIndex, putter, clock, torn>>

-----------------------------------------------------------------------------
(* The renderer: playVideoFrame. *)

Oldest == m_frames[m_getIndex]
Key == Oldest.frametype = "I"

(* The clock is set by the first frame, and by the first key frame.         *)
SetsClock ==
  m_videoBase = 0 \/ (m_video_time_state = 0 /\ Key)

Base == IF SetsClock THEN Oldest.pts ELSE m_videoBase
Since == IF SetsClock THEN 0 ELSE elapsed

m_videoMinus == Oldest.pts - Base + m_videoCacheTime - Since

(* What is common to the three outcomes of a poll; "reset" tells whether    *)
(* the outcome makes the frame the base of the clock.                       *)
Poll(reset) ==
  /\ render = "out" /\ m_size # 0
  /\ m_videoBase # 0 \/ m_isFirstVideo
  /\ m_videoBase' = IF reset THEN Oldest.pts ELSE Base
  /\ elapsed' = IF reset THEN 0 ELSE Since
  /\ m_video_time_state' = IF Key THEN 1 ELSE m_video_time_state
  /\ UNCHANGED <<ring, putter, m_isFirstVideo, last, torn>>

Count(count) == IF count = MaxMisses THEN 0 ELSE count + 1

(* A late frame is taken out and not drawn.                                 *)
Late ==
  /\ m_videoMinus < 0
  /\ Poll(m_videoNegativeCount = MaxMisses)
  /\ m_videoNegativeCount' = Count(m_videoNegativeCount)
  /\ render' = "take"
  /\ UNCHANGED m_videoTimeoutCount

Due ==
  /\ m_videoMinus \in 0 .. m_maxVideoMinus
  /\ Poll(Key)
  /\ render' = "take"
  /\ UNCHANGED <<m_videoNegativeCount, m_videoTimeoutCount>>

EarlyWaits ==
  /\ m_videoMinus > m_maxVideoMinus
  /\ Poll(FALSE)
  /\ m_videoTimeoutCount' = Count(m_videoTimeoutCount)
  /\ UNCHANGED <<render, m_videoNegativeCount>>

(* An early frame stays, but not for more polls than MaxMisses.             *)
Early ==
  /\ m_videoMinus > m_maxVideoMinus
  /\ Poll(m_videoTimeoutCount = MaxMisses)
  /\ m_videoTimeoutCount' = Count(m_videoTimeoutCount)
  /\ UNCHANGED <<render, m_videoNegativeCount>>

-----------------------------------------------------------------------------
(* The renderer: getFrameRef. *)

TakeNone ==
  /\ render = "take" /\ m_size = 0
  /\ render' = "out"
  /\ UNCHANGED <<ring, putter, m_isFirstVideo, clock, last, torn>>

(* Under the lock.                                                          *)
Take ==
  /\ render = "take" /\ m_size # 0 /\ ~Putting
  /\ m_getIndex' = IF m_getIndex + 1 >= m_cache_num THEN 0 ELSE m_getIndex + 1
  /\ m_size' = m_size - 1
  /\ last' = Oldest.n
  /\ render' = "out"
  /\ UNCHANGED <<m_frames, m_putIndex, putter, m_isFirstVideo, clock, torn>>

Tick ==
  /\ elapsed < MaxElapsed
  /\ elapsed' = elapsed + 1
  /\ UNCHANGED <<ring, putter, render, m_isFirstVideo, m_videoBase,
                 m_video_time_state, m_videoNegativeCount, m_videoTimeoutCount,
                 last, torn>>

Decoder == (\E pts \in Stamp, frametype \in {"I", "P"} : PutTest(pts, frametype))
             \/ PutLock \/ PutCopy \/ PutCount

Renderer == ClearPut \/ ClearGet \/ ClearSize \/ Late \/ Due \/ Early
              \/ TakeNone \/ Take

Next == Decoder \/ Renderer \/ Tick

Spec == Init /\ [][Next]_vars

(* The renderer polls every 10 ms for as long as it runs, and the decoder   *)
(* leaves the calls it makes; nothing is asked of frames or of the clock.   *)
FairSpec ==
  Spec /\ WF_vars(Renderer) /\ WF_vars(PutLock \/ PutCopy \/ PutCount)

-----------------------------------------------------------------------------
(* Properties. *)

(* m_size never passes the capacity nor wraps below zero, and the decoder   *)
(* never takes a slot outside the ring, wherever the clearing falls.        *)
TypeOK ==
  /\ m_frames \in [Slots -> Frame]
  /\ m_putIndex \in 0 .. m_cache_num /\ m_getIndex \in Slots
  /\ m_size \in 0 .. m_cache_num
  /\ put \in Frame /\ decoder \in {"out", "ready", "copy", "count"}
  /\ slot \in Slots /\ counted \in 0 .. m_cache_num - 1
  /\ render \in {"out", "getIndex", "size", "take"}
  /\ m_videoBase \in Stamp \cup {0} /\ m_isFirstVideo \in BOOLEAN
  /\ m_video_time_state \in {0, 1}
  /\ {m_videoNegativeCount, m_videoTimeoutCount} \subseteq 0 .. MaxMisses
  /\ elapsed \in 0 .. MaxElapsed
  /\ last \in 0 .. MaxFrame /\ torn \in BOOLEAN

(* Emptying the ring without its lock does no harm unless it falls into the *)
(* copying of a frame: otherwise what getFrameRef takes is each time the    *)
(* frame put right after the one taken before, or after those cleared, so   *)
(* that none is skipped, none is taken twice and none that was cleared      *)
(* comes out.  (When it does fall there, the indexes and m_size disagree    *)
(* from then on, and frames long drawn are drawn again.)                    *)
NextInOrder ==
  [][render = "take" /\ m_size # 0 /\ render' = "out" /\ ~torn
       => last' = last + 1]_vars

(* The ring never clogs: while frames wait, one is soon taken out, drawn or *)
(* dropped as late, however the sender's stamps jump and even if the clock  *)
(* stands still.                                                            *)
KeepsDrawing == m_size # 0 ~> render = "take"

=============================================================================
