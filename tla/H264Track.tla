----------------------------- MODULE H264Track ------------------------------
(***************************************************************************)
(* How a video track is put together again (YangPlayTrackH264): packets    *)
(* that come in any order, late or twice are kept in a cache addressed by  *)
(* their sequence number; the frame that starts at header_sn is delivered  *)
(* when the packets from there to its end are in the cache.                *)
(*                                                                         *)
(* The sender is the one of YangPushH264: a key frame is a STAP-A packet   *)
(* with SPS and PPS and then an IDR picture in one packet or in fragments; *)
(* other frames are one packet or fragments.  A fragment in the middle of  *)
(* a NAL unit says nothing of the frame but its time stamp.                *)
(***************************************************************************)
EXTENDS SeqNum, Sequences, SequencesExt, FiniteSetsExt

CONSTANTS
  CacheSize,     \* YANG_RTC_RECV_BUFFER_COUNT: 1024
  HaveDtls,      \* Yang_HaveDtls: packets come through SRTP
  Window,        \* bound: a packet comes while it is one of the latest so many
  MaxPackets     \* bound: how many packets the sender sends

ASSUME TrackAssumption ==
  /\ CacheSize \in Nat /\ 4 < CacheSize    \* the longest frame here has 4 packets
  /\ CacheSize <= Half /\ SeqSpace % CacheSize = 0
  /\ HaveDtls \in BOOLEAN /\ Window \in 1 .. CacheSize /\ MaxPackets \in Nat

VARIABLES
  sent, count,          \* the packets of the sender, from 0 on; how many
  cache,                \* cache_video_pkts
  header_sn, lost_sn,   \* first packet of the frame awaited, first one missing
  key_frame_ts,         \* time stamp of the key frame awaited, or -1
  hasRequestKeyframe,   \* a key frame has come: no more PLI is sent
  delivered,            \* history: the frames the last packet completed
  newest,               \* history: the latest time stamp received
  came,                 \* history: which of the latest packets have come
  repeated,             \* history: a packet has come twice
  expect                \* history: which packet is next, if since a new key
                        \* frame started all came in order; -1 otherwise

track == <<cache, header_sn, lost_sn, key_frame_ts>>

history == <<newest, came, repeated, expect>>

trackVars == <<sent, count, track, hasRequestKeyframe, delivered, history>>

(* fu: which end of a fragmented NAL unit the packet carries; key: what     *)
(* is_keyframe says of the packet; keyByte: what is_keyframe2 says of it in *)
(* the cache, where it looks at the first byte of a fragment's data, which  *)
(* may be anything.                                                         *)
Packet ==
  [sn : SeqNo, ts : Nat, marker : BOOLEAN, fu : SUBSET {"start", "middle", "end"},
   key : BOOLEAN, keyByte : BOOLEAN]

Cached == [inUse : BOOLEAN, pkt : Packet]

EmptySlot ==
  [inUse |-> FALSE, pkt |-> [sn |-> 0, ts |-> 0, marker |-> FALSE, fu |-> {},
                             key |-> FALSE, keyByte |-> FALSE]]

EmptyCache == [i \in 0 .. CacheSize - 1 |-> EmptySlot]

PlusInt(sn, n) == sn + n

Plus(sn, n) == (sn + n) % SeqSpace

(* The slot of a sequence number: yang_cache_index.                         *)
Slot(c, sn) == c[sn % CacheSize]

-----------------------------------------------------------------------------
(* The state of the track as a record, for the loop of packet_video.        *)

Track ==
  [cache |-> cache, header |-> header_sn, lost |-> lost_sn,
   keyTs |-> key_frame_ts, out |-> <<>>]

(* yang_playtrackH264_find_next_lost_sn: the first packet from current on   *)
(* that is missing, belongs to another time stamp or ends a frame.          *)
Missing(t, sn) == ~Slot(t.cache, sn).inUse

OtherTime(t, sn) == Slot(t.cache, sn).pkt.ts # Slot(t.cache, t.header).pkt.ts

OtherTimeNever(t, sn) == FALSE

NewTime(t, sn) == OtherTime(t, sn)

Stops(t, sn) == Missing(t, sn) \/ NewTime(t, sn) \/ Slot(t.cache, sn).pkt.marker

FindNextLost(t, current) ==
  LET stops == {i \in 0 .. CacheSize - 1 : Stops(t, Plus(current, i))}
      sn == Plus(current, Min(stops))
  IN  IF stops = {} THEN [kind |-> "overflow", sn |-> current]
      ELSE IF Missing(t, sn) THEN [kind |-> "lost", sn |-> sn]
      ELSE IF NewTime(t, sn) THEN [kind |-> "frame", sn |-> Pred(sn)]
      ELSE [kind |-> "frame", sn |-> sn]

(* The sequence numbers of a frame: cnt is a uint16_t.                      *)
FrameNumbers(t, end) == [i \in 1 .. AheadOf(t.header, end) + 1 |-> Plus(t.header, i - 1)]

FrameIncomplete(t, end) == TRUE

(* yang_playtrackH264_check_frame_complete.                                 *)
FrameComplete(t, end) ==
  LET having(e) == {i \in DOMAIN FrameNumbers(t, end) :
                      e \in Slot(t.cache, FrameNumbers(t, end)[i]).pkt.fu}
  IN  Cardinality(having("start")) = Cardinality(having("end"))

Emptied(c) == [inUse |-> FALSE, pkt |-> [c.pkt EXCEPT !.fu = {}]]

(* One turn of yang_playtrackH264_packet_video: the packets from header to  *)
(* end leave the cache as one frame.                                        *)
PacketVideo(t, end) ==
  LET numbers == FrameNumbers(t, end)
      slots == {numbers[i] % CacheSize : i \in DOMAIN numbers}
  IN  [cache  |-> [i \in 0 .. CacheSize - 1 |->
                     IF i \in slots THEN Emptied(t.cache[i]) ELSE t.cache[i]],
       header |-> Plus(end, 1),
       lost   |-> t.lost,
       keyTs  |-> IF Slot(t.cache, t.header).pkt.keyByte THEN -1 ELSE t.keyTs,
       out    |-> Append(t.out, [i \in DOMAIN numbers |-> Slot(t.cache, numbers[i]).pkt])]

(* What follows a search, however it was started.                           *)
After(t, found) ==
  IF found.kind = "lost" THEN [t EXCEPT !.lost = found.sn]
  ELSE IF found.kind = "frame" /\ FrameComplete(t, found.sn)
  THEN PacketVideo(t, found.sn)
  ELSE t

(* packet_video calls itself for the frame after the one it delivered: a    *)
(* turn for every call, in which nothing happens when there was none.       *)
Turn(t, n) ==
  IF Len(t.out) < n THEN t ELSE After(t, FindNextLost(t, t.header))

Turns(t, found) ==
  LET turns[n \in 0 .. CacheSize] ==
        IF n = 0 THEN After(t, found) ELSE Turn(turns[n - 1], n)
  IN  turns

Drain(t, found) == Turns(t, found)[CacheSize]

Store(t, pkt) ==
  [t EXCEPT !.cache[pkt.sn % CacheSize] = [inUse |-> TRUE, pkt |-> pkt]]

Apply(t) ==
  /\ cache' = t.cache /\ header_sn' = t.header /\ lost_sn' = t.lost
  /\ key_frame_ts' = t.keyTs
  /\ delivered' = t.out

(* A packet of a new key frame: everything in the cache is thrown away.     *)
StartOver(pkt) ==
  [cache |-> EmptyCache, header |-> pkt.sn, lost |-> Succ(pkt.sn),
   keyTs |-> pkt.ts, out |-> <<>>]

StartOverKeeping(pkt) == [StartOver(pkt) EXCEPT !.cache = cache]

NewKeyFrame(pkt) == StartOver(pkt)

(* yang_playtrackH264_packet_video_key_frame.                               *)
OnKeyPacket(pkt) ==
  LET begun == Store(IF pkt.ts = key_frame_ts THEN Track ELSE NewKeyFrame(pkt), pkt)
      before == [begun EXCEPT !.header = pkt.sn]
  IN  IF SeqDistance(begun.header, pkt.sn) < 0
      THEN Apply(Drain(before, FindNextLost(before, pkt.sn)))
      ELSE IF begun.lost = pkt.sn
      THEN Apply(Drain(begun, FindNextLost(begun, pkt.sn)))
      ELSE Apply(begun)

OnOtherPacket(pkt) ==
  LET stored == Store(Track, pkt)
  IN  IF lost_sn = pkt.sn
      THEN Apply(Drain(stored, FindNextLost(stored, pkt.sn)))
      ELSE Apply(stored)

-----------------------------------------------------------------------------
(* The sender: the packets of a frame, in order. *)

Piece(marker, fu, key, keyByte) ==
  [marker |-> marker, fu |-> fu, key |-> key, keyByte |-> keyByte]

Stap == Piece(FALSE, {}, TRUE, TRUE)

Single(key) == Piece(TRUE, {}, key, key)

(* A picture in two or three fragments.                                     *)
Start(key, keyByte) == Piece(FALSE, {"start"}, key, keyByte)

Middle(key, keyByte) == Piece(FALSE, {"middle"}, key, keyByte)

End(key, keyByte) == Piece(TRUE, {"end"}, key, keyByte)

Frames ==
  {<<Stap, Single(TRUE)>>, <<Single(FALSE)>>}
    \cup {<<Stap, Start(TRUE, b), End(TRUE, b)>> : b \in BOOLEAN}
    \cup {<<Stap, Start(TRUE, b), Middle(TRUE, b), End(TRUE, b)>> : b \in BOOLEAN}
    \cup {<<Start(FALSE, b), End(FALSE, b)>> : b \in BOOLEAN}
    \cup {<<Start(FALSE, b), Middle(FALSE, b), End(FALSE, b)>> : b \in BOOLEAN}

Numbered(piece, k) ==
  [sn |-> Plus(0, k), ts |-> count + 1, marker |-> piece.marker, fu |-> piece.fu,
   key |-> piece.key, keyByte |-> piece.keyByte]

(* The packets that may still come.                                         *)
Latest == {k \in 0 .. count - 1 : k >= count - Window}

SendFrame(pieces) ==
  /\ count + Len(pieces) <= MaxPackets
  /\ count' = count + Len(pieces)
  /\ sent' = [k \in 0 .. count' - 1 |->
                IF k < count THEN sent[k] ELSE Numbered(pieces[k - count + 1], k)]
  /\ came' = came \cap Latest'
  /\ UNCHANGED <<track, hasRequestKeyframe, delivered, newest, repeated, expect>>

StartsKeyFrame(pkt) == pkt.ts > newest /\ pkt.key /\ pkt.fu = {} /\ ~pkt.marker

(* yang_rtcplay_on_rtp drops a packet that SRTP has seen before: its window  *)
(* (8192 packets) is wider than the cache.                                  *)
Replayed(k) == HaveDtls /\ k \in came

(* yang_playtrackH264_on_rtp.  Packets get lost, overtake others and come   *)
(* twice: any of the latest may come now.                                   *)
OnRtp(k) ==
  LET pkt == sent[k]
  IN  /\ ~Replayed(k)
      /\ IF pkt.key THEN OnKeyPacket(pkt) ELSE OnOtherPacket(pkt)
      /\ hasRequestKeyframe' = (hasRequestKeyframe \/ pkt.key)
      /\ newest' = IF pkt.ts > newest THEN pkt.ts ELSE newest
      /\ came' = came \cup {k} /\ repeated' = (repeated \/ k \in came)
      /\ expect' = IF StartsKeyFrame(pkt) \/ k = expect THEN k + 1 ELSE -1
      /\ UNCHANGED <<sent, count>>

TrackInit ==
  /\ sent = [k \in 0 .. -1 |-> EmptySlot.pkt] /\ count = 0
  /\ cache = EmptyCache /\ header_sn = 0 /\ lost_sn = 0 /\ key_frame_ts = -1
  /\ hasRequestKeyframe = FALSE
  /\ delivered = <<>> /\ newest = 0 /\ came = {} /\ repeated = FALSE /\ expect = -1

TrackNext ==
  \/ \E pieces \in Frames : SendFrame(pieces)
  \/ \E k \in Latest : OnRtp(k)

TrackSpec == TrackInit /\ [][TrackNext]_trackVars

-----------------------------------------------------------------------------
(* Properties. *)

TrackTypeOK ==
  /\ count \in 0 .. MaxPackets /\ sent \in [0 .. count - 1 -> Packet]
  /\ cache \in [0 .. CacheSize - 1 -> Cached]
  /\ header_sn \in SeqNo /\ lost_sn \in SeqNo /\ key_frame_ts \in Nat \cup {-1}
  /\ delivered \in Seq(Seq(Packet)) /\ expect \in 0 .. count \cup {-1}
  /\ hasRequestKeyframe \in BOOLEAN /\ repeated \in BOOLEAN
  /\ newest \in Nat /\ came \subseteq Latest

FrameOfOne(f) ==
  \A i \in DOMAIN f : f[i].ts = f[1].ts /\ f[i].sn = Plus(f[1].sn, i - 1)

(* "check time first, avoid two small frame mixed case decode fail"         *)
(* (YangPlayTrackH264.c): a frame delivered is made of packets of one frame *)
(* of the sender, in order and without a gap.                               *)
NeverMixed == \A f \in ToSet(delivered) : FrameOfOne(f)

(* As long as no packet came twice and no slot of the cache was due for a   *)
(* second packet.                                                           *)
FirstRound == ~repeated /\ count <= CacheSize

(* So it is in the first round, whatever was lost, late or overtaken.       *)
OneFrameAtATime == FirstRound => NeverMixed

(* As long as packets come in order since a new key frame started, every    *)
(* frame is delivered by its last packet, whatever state losses, late and   *)
(* duplicated packets left behind before: a key frame always recovers.      *)
InOrderFlows ==
  expect # -1 /\ sent[expect - 1].marker => header_sn = Plus(0, expect)

Whole(f) ==
  \A i \in DOMAIN f : f[i].fu # {} =>
    \A k \in 0 .. count - 1 :
      sent[k].ts = f[i].ts /\ sent[k].fu # {} => sent[k] \in ToSet(f)

(* No fragment is handed to the decoder without all the others the sender   *)
(* made of its NAL unit (yang_playtrackH264_check_frame_complete only       *)
(* counts first and last ones): in the first round, whatever was lost, late *)
(* or overtaken.                                                            *)
WholeNalUnits == FirstRound => \A f \in ToSet(delivered) : Whole(f)

=============================================================================
