---------------------------- MODULE PublishVideo ----------------------------
(***************************************************************************)
(* The sending side of a video track: a frame is cut into RTP packets      *)
(* (YangPushH264), each is written to the next of a ring of packet buffers *)
(* (YangRtpBuffer), remembered for retransmission (YangPublishNackBuffer), *)
(* protected in place and sent (yang_send_avpacket) by the thread of the   *)
(* application, while the UDP thread answers the NACKs of the peer         *)
(* (YangPushStream).  The two threads share the buffers without a lock.    *)
(* The audio track is the same with constants of its own: a queue of 100,   *)
(* 100 buffers, and frames of one packet.                                   *)
(***************************************************************************)
EXTENDS SeqNum, Sequences, SequencesExt

CONSTANTS
  QueueCapacity,   \* capacity of the retransmission queue: 1000
  BufLen,          \* packet buffers: 1400
  MaxPayload,      \* kRtpMaxPayloadSize
  FrameSizes,      \* bound: the sizes of the frames of the encoder
  HaveDtls,        \* Yang_HaveDtls: packets are protected before they are sent
  MaxSent,         \* bound: how many packets are written
  MaxNack          \* bound: numbers in a NACK

ASSUME PublishAssumption ==
  /\ QueueCapacity \in Nat \ {0} /\ BufLen \in Nat \ {0} /\ MaxPayload \in Nat \ {0}
  /\ FrameSizes \subseteq Nat \ {0} /\ HaveDtls \in BOOLEAN
  /\ MaxSent \in Nat /\ MaxNack \in Nat

VARIABLES
  frame,      \* what is left of the frame being sent: a sequence of packets
  videoSeq,   \* the next sequence number
  index,      \* YangRtpBuffer.index
  buffer,     \* what each packet buffer holds
  queue,      \* the retransmission queue
  apc,        \* where the application's thread is in the sending of a packet
  nacked,     \* the numbers of the NACK the UDP thread has not looked at yet,
              \* each with (history) the packet the peer means
  held,       \* the number the UDP thread answers, and the buffer it found;
              \* freed (history) when the record it found is gone
  upc,        \* where the UDP thread is
  sent,       \* history: how many packets were written
  original    \* history: the packet last written under each sequence number

appVars == <<frame, videoSeq, index, apc>>
udpVars == <<nacked, held, upc>>
vars == <<appVars, udpVars, buffer, queue, sent, original>>

NoSlot == [seq |-> 0, buf |-> -1]
None   == [seq |-> 0, buf |-> -1, packet |-> 0, freed |-> FALSE]

(* A packet is a number; layers is 1 when it is ciphered, else 0.          *)
Nothing == [packet |-> 0, layers |-> 0]

Layers == IF HaveDtls THEN 1 ELSE 0

-----------------------------------------------------------------------------
(* Cutting a frame (yang_push_h264_video). *)

(* The ternary operator of the code binds weaker than its sum.              *)
NumOfPacketUp(nb) == 1 + (nb - 1) \div MaxPayload

NumOfPacket(nb) ==
  IF (nb - 1) % MaxPayload = 0 THEN 0 ELSE 1 + (nb - 1) \div MaxPayload

SingleNalu(nb) == <<[bytes |-> nb, start |-> TRUE, end |-> TRUE]>>

(* The NAL unit header of the frame does not travel in the fragments.       *)
FuA(nb) ==
  LET n == NumOfPacket(nb)
  IN  [i \in 1 .. n |->
         [bytes |-> IF i < n THEN MaxPayload ELSE nb - 1 - (n - 1) * MaxPayload,
          start |-> i = 1, end |-> i = n]]

Packets(nb) == IF nb <= MaxPayload THEN SingleNalu(nb) ELSE FuA(nb)

-----------------------------------------------------------------------------
(* The application's thread. *)

OnVideo(nb) ==
  /\ apc = "idle" /\ frame = <<>> /\ sent < MaxSent
  /\ frame' = Packets(nb)
  /\ UNCHANGED <<videoSeq, index, apc, udpVars, buffer, queue, sent, original>>

(* SPS and PPS go into one STAP-A packet without a marker.                  *)
OnSpsPps ==
  /\ apc = "idle" /\ frame = <<>> /\ sent < MaxSent
  /\ frame' = <<[bytes |-> 1, start |-> TRUE, end |-> FALSE]>>
  /\ UNCHANGED <<videoSeq, index, apc, udpVars, buffer, queue, sent, original>>

(* yang_push_h264_encodeVideo: the packet is written to the next buffer.    *)
NextIndexLate == IF index = BufLen THEN 0 ELSE index + 1

NextIndexEarly == IF index + 1 = QueueCapacity THEN 0 ELSE index + 1

NextIndex == IF index + 1 = BufLen THEN 0 ELSE index + 1

EncodeVideo ==
  /\ apc = "idle" /\ frame # <<>>
  /\ index' = NextIndex
  /\ buffer' = [buffer EXCEPT ![NextIndex] = [packet |-> sent + 1, layers |-> 0]]
  /\ sent' = sent + 1
  /\ original' = [original EXCEPT ![videoSeq] = sent + 1]
  /\ apc' = "encoded"
  /\ UNCHANGED <<frame, videoSeq, udpVars, queue>>

(* The capacity does not divide the sequence space: after a wrap, two       *)
(* numbers of the last QueueCapacity share a slot.                          *)
SlotOf(seq) == seq % QueueCapacity

(* yang_rtcpush_cache_nack; videoSeq was advanced when the packet's header  *)
(* was filled, which no one else sees.  The slot's last record is freed; if *)
(* the UDP thread has found it and not yet read it, it may read anything.   *)
CacheNack ==
  /\ apc = "encoded"
  /\ queue' = [queue EXCEPT ![SlotOf(videoSeq)] = [seq |-> videoSeq, buf |-> index]]
  /\ videoSeq' = Succ(videoSeq)
  /\ apc' = "cached"
  /\ IF upc = "fetched" /\ SlotOf(held.seq) = SlotOf(videoSeq)
     THEN \E b \in 0 .. BufLen - 1 : held' = [held EXCEPT !.buf = b, !.freed = TRUE]
     ELSE UNCHANGED held
  /\ UNCHANGED <<frame, index, nacked, upc, buffer, sent, original>>

(* The context may send a number again (allow_repeat_tx) and ciphers with a *)
(* key stream the number decides: a second time gives the plaintext back.   *)
ProtectBuffer(b) ==
  buffer' = [buffer EXCEPT ![b].layers = (@ + Layers) % 2]

Protect ==
  /\ apc = "cached"
  /\ ProtectBuffer(index)
  /\ apc' = "protected"
  /\ UNCHANGED <<frame, videoSeq, index, udpVars, queue, sent, original>>

(* yang_rtc_sendData; when it fails the rest of the frame is not sent.      *)
SendData(ok) ==
  /\ apc = "protected"
  /\ frame' = IF ok THEN Tail(frame) ELSE <<>>
  /\ apc' = "idle"
  /\ UNCHANGED <<videoSeq, index, udpVars, buffer, queue, sent, original>>

-----------------------------------------------------------------------------
(* The UDP thread. *)

(* The numbers a peer can miss: sent, or lost when sending failed.          *)
Missable ==
  {s \in SeqNo : original[s] # 0 /\ (apc = "idle" \/ original[s] # sent)}

(* A NACK of the peer, oldest number first as RtcpNack reads it.            *)
OldestFirst(seqs) ==
  \A i, j \in DOMAIN seqs : i < j => SeqDistance(seqs[i], seqs[j]) > 0

OnRtcpNack(seqs) ==
  /\ upc = "idle" /\ nacked = <<>>
  /\ OldestFirst(seqs)
  /\ nacked' = [i \in DOMAIN seqs |-> [seq |-> seqs[i], packet |-> original[seqs[i]]]]
  /\ UNCHANGED <<appVars, held, upc, buffer, queue, sent, original>>

FetchAny(seq) == queue[SlotOf(seq)]

(* yang_rtcpush_fetch_rtp_packet.                                           *)
Fetch(seq) ==
  LET slot == queue[SlotOf(seq)]
  IN  IF slot.seq = seq THEN slot ELSE NoSlot

OnRecvNack ==
  /\ upc = "idle" /\ nacked # <<>>
  /\ nacked' = Tail(nacked)
  /\ LET slot == Fetch(Head(nacked).seq)
     IN  /\ held' = [seq |-> Head(nacked).seq, buf |-> slot.buf,
                     packet |-> Head(nacked).packet, freed |-> FALSE]
         /\ upc' = IF slot.buf = -1 THEN "idle" ELSE "fetched"
  /\ UNCHANGED <<appVars, buffer, queue, sent, original>>

(* yang_send_nackpacket: protect in place, then send.                       *)
ReProtect ==
  /\ upc = "fetched"
  /\ ProtectBuffer(held.buf)
  /\ upc' = "protected"
  /\ UNCHANGED <<appVars, nacked, held, queue, sent, original>>

SendNackPacket(ok) ==
  /\ upc = "protected"
  /\ nacked' = IF ok THEN nacked ELSE <<>>
  /\ held' = None /\ upc' = "idle"
  /\ UNCHANGED <<appVars, buffer, queue, sent, original>>

Init ==
  /\ frame = <<>> /\ videoSeq = 0 /\ index = 0 /\ apc = "idle"
  /\ nacked = <<>> /\ held = None /\ upc = "idle"
  /\ buffer = [b \in 0 .. BufLen - 1 |-> Nothing]
  /\ queue = [q \in 0 .. QueueCapacity - 1 |-> NoSlot]
  /\ sent = 0 /\ original = [s \in SeqNo |-> 0]

AppStep ==
  \/ \E nb \in FrameSizes : OnVideo(nb)
  \/ OnSpsPps
  \/ EncodeVideo
  \/ CacheNack
  \/ Protect
  \/ \E ok \in BOOLEAN : SendData(ok)

UdpStep ==
  \/ \E n \in 1 .. MaxNack : \E seqs \in [1 .. n -> Missable] : OnRtcpNack(seqs)
  \/ OnRecvNack
  \/ ReProtect
  \/ \E ok \in BOOLEAN : SendNackPacket(ok)

Next == AppStep \/ UdpStep

Spec == Init /\ [][Next]_vars

-----------------------------------------------------------------------------
(* Properties. *)

Slot == [seq : SeqNo, buf : -1 .. BufLen - 1]

TypeOK ==
  /\ videoSeq \in SeqNo /\ index \in 0 .. BufLen - 1
  /\ apc \in {"idle", "encoded", "cached", "protected"}
  /\ upc \in {"idle", "fetched", "protected"}
  /\ queue \in [0 .. QueueCapacity - 1 -> Slot]
  /\ held \in [seq : SeqNo, buf : -1 .. BufLen - 1, packet : Nat, freed : BOOLEAN]
  /\ nacked \in Seq([seq : SeqNo, packet : Nat]) /\ original \in [SeqNo -> Nat]

(* A fragmented frame that is sent at all is sent whole: its fragments are  *)
(* neither empty nor too long, add up to the frame without its NAL header,  *)
(* and only the first says start, only the last says end and has the        *)
(* marker (yang_push_h264_package_fu_a).                                    *)
FragmentsWhole ==
  [][\A nb \in FrameSizes : OnVideo(nb) /\ frame' # <<>> =>
       /\ FoldLeft(LAMBDA total, p : total + p.bytes, 0, frame')
            = IF Len(frame') = 1 THEN nb ELSE nb - 1
       /\ \A i \in DOMAIN frame' :
            /\ frame'[i].bytes \in 1 .. MaxPayload
            /\ frame'[i].start <=> i = 1
            /\ frame'[i].end <=> i = Len(frame')]_vars

(* The packet written under a number is in the queue, from CacheNack on.    *)
Cached(seq) == original[seq] # 0 /\ (original[seq] = sent => apc # "encoded")

(* How many packets can always be sent again: after a wrap the first        *)
(* numbers of the space overwrite the slots of its last ones, all but       *)
(* SeqSpace % QueueCapacity of them too early (536 with a queue of 1000).   *)
Kept ==
  LET rest == SeqSpace % QueueCapacity
      last == IF rest = 0 THEN QueueCapacity ELSE rest
  IN  IF last < BufLen THEN last ELSE BufLen

(* A slot of the retransmission queue points to a buffer that still holds   *)
(* the packet last sent under the slot's number, unless the ring of buffers *)
(* has gone round since: a slot may last longer than the ring, as a wrap    *)
(* jumps over it.  And the last Kept packets all have their slot.           *)
SlotsIntact ==
  \A q \in DOMAIN queue :
    LET slot == queue[q]
    IN  slot.buf # -1 /\ Cached(slot.seq) /\ sent - original[slot.seq] < BufLen
          => buffer[slot.buf].packet = original[slot.seq]
LastKept ==
  \A seq \in SeqNo :
    Cached(seq) /\ sent - original[seq] < Kept
      => queue[SlotOf(seq)].seq = seq /\ queue[SlotOf(seq)].buf # -1
QueueIntact == SlotsIntact /\ LastKept

(* "For NACK, it sequence must match exactly, or it cause SRTP fail."       *)
(* (YangPushStream.c): what answers a NACK is the packet the peer means,    *)
(* ciphered if the session ciphers, whatever the application's thread sends *)
(* in between, unless the ring of buffers went round, or the record was     *)
(* freed in the UDP thread's hand: not before Kept more packets are sent.   *)
ResentAsSent ==
  [][SendNackPacket(TRUE) =>
       LET since == sent - held.packet
       IN  \/ since >= BufLen
           \/ since >= Kept /\ held.freed
           \/ buffer[held.buf] = [packet |-> held.packet, layers |-> Layers]]_vars

=============================================================================
