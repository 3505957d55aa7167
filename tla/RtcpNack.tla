------------------------------ MODULE RtcpNack ------------------------------
(***************************************************************************)
(* The generic NACK of RFC 4585 as this program writes and reads it        *)
(* (YangRtcpNack): the sorted array of sequence numbers, its packing into  *)
(* chunks of a PID and a bit mask, and the unpacking at the publisher.     *)
(* A bit mask is the set of its one bits.                                  *)
(***************************************************************************)
EXTENDS SeqNum, Sequences, SequencesExt, FiniteSets

CONSTANTS
  BlpBits,         \* bits of a mask: 16
  MaxAsked,        \* bound: numbers asked for in one packet
  ForeignPids,     \* bound: the PIDs of NACKs another implementation sends
  ForeignChunks    \* bound: how many chunks these have

ASSUME CodecAssumption ==
  /\ BlpBits \in Nat \ {0} /\ BlpBits < Half
  /\ MaxAsked \in Nat /\ ForeignChunks \in Nat
  /\ ForeignPids \subseteq SeqNo

VARIABLES
  asking,    \* nack->nacks at the receiver, while a check fills it
  chunks,    \* the chunks of the packet on the wire
  wanted,    \* history: the numbers the packet on the wire stands for
  own,       \* history: the packet was written by this program
  answering  \* nack->nacks at the publisher, after a packet was read

vars == <<asking, chunks, wanted, own, answering>>

Chunk == [pid : SeqNo, blp : SUBSET (0 .. BlpBits - 1)]

-----------------------------------------------------------------------------
(* The sorted array. *)

(* yang_get_uint16_index: where value goes between a[0] .. a[alen - 1], -1  *)
(* when it is there.  high starts at alen, one past the last element.       *)
Bounds(a) == (0 .. Len(a) + 1) \X (-1 .. Len(a))

Mid(low, high) == (low + high) \div 2

Halve(a, value, search, low, high) ==
  LET mid == Mid(low, high)
      at == a[mid + 1]
  IN  IF low > high THEN low
      ELSE IF value = at THEN -1
      ELSE IF SeqDistance(value, at) > 0 THEN search[<<low, mid - 1>>]
      ELSE IF SeqDistance(at, value) > 0 THEN search[<<mid + 1, high>>]
      ELSE mid

Search(a, value) ==
  LET search[bound \in Bounds(a)] == Halve(a, value, search, bound[1], bound[2])
  IN  search

IndexOf(a, value) == Search(a, value)[<<0, Len(a)>>]

AddSnUnsorted(list, sn) == Append(list, sn)

(* yang_rtcpNack_addSn; the growth of the array is left out.                *)
AddSn(list, sn) ==
  IF list = <<>> \/ SeqDistance(Last(list), sn) > 0 THEN Append(list, sn)
  ELSE IF IndexOf(list, sn) = -1 THEN list
  ELSE InsertAt(list, IndexOf(list, sn) + 1, sn)

-----------------------------------------------------------------------------
(* Packing and unpacking. *)

Contents(c) == {c.pid} \cup {(c.pid + j + 1) % SeqSpace : j \in c.blp}

(* One turn of the loop of yang_encode_rtcpNack.  The differences are taken *)
(* between ints, and the number that closes a chunk starts no other one.    *)
PackRestart(st, sn) ==
  IF ~st.inUse
  THEN [st EXCEPT !.inUse = TRUE, !.chunk = [pid |-> sn, blp |-> {}]]
  ELSE IF sn - st.chunk.pid < 1 THEN st
  ELSE IF sn - st.chunk.pid > BlpBits
  THEN [st EXCEPT !.done = Append(@, st.chunk), !.chunk = [pid |-> sn, blp |-> {}]]
  ELSE [st EXCEPT !.chunk.blp = @ \cup {sn - st.chunk.pid - 1}]

PackUnshifted(st, sn) ==
  IF st.inUse /\ sn - st.chunk.pid \in 1 .. BlpBits - 1
  THEN [st EXCEPT !.chunk.blp = @ \cup {sn - st.chunk.pid}]
  ELSE PackRestart(st, sn)

PackWide(st, sn) ==
  IF ~st.inUse
  THEN [st EXCEPT !.inUse = TRUE, !.chunk = [pid |-> sn, blp |-> {}]]
  ELSE IF sn - st.chunk.pid < 1 THEN st
  ELSE [st EXCEPT !.chunk.blp = @ \cup {sn - st.chunk.pid - 1}]

Pack(st, sn) ==
  IF ~st.inUse
  THEN [st EXCEPT !.inUse = TRUE, !.chunk = [pid |-> sn, blp |-> {}]]
  ELSE IF sn - st.chunk.pid < 1 THEN st
  ELSE IF sn - st.chunk.pid > BlpBits
  THEN [st EXCEPT !.inUse = FALSE, !.done = Append(@, st.chunk)]
  ELSE [st EXCEPT !.chunk.blp = @ \cup {sn - st.chunk.pid - 1}]

NoChunk == [inUse |-> FALSE, done |-> <<>>, chunk |-> [pid |-> 0, blp |-> {}]]

(* What the loop has made of the first n numbers.                           *)
Packed(list) ==
  LET packed[n \in 0 .. Len(list)] ==
        IF n = 0 THEN NoChunk ELSE Pack(packed[n - 1], list[n])
  IN  packed

Encode(list) ==
  LET st == Packed(list)[Len(list)]
  IN  IF st.inUse THEN Append(st.done, st.chunk) ELSE st.done

(* yang_decode_rtcpNack reads the PID of a chunk, then the bits from the    *)
(* lowest on: what the list holds after so many bits ...                    *)
Unpacked(list, c) ==
  LET unpacked[j \in 0 .. BlpBits] ==
        IF j = 0 THEN AddSn(list, c.pid)
        ELSE IF j - 1 \in c.blp
        THEN AddSn(unpacked[j - 1], (c.pid + j) % SeqSpace)
        ELSE unpacked[j - 1]
  IN  unpacked

(* ... and after so many chunks.                                            *)
Decoded(cs) ==
  LET decoded[n \in 0 .. Len(cs)] ==
        IF n = 0 THEN <<>> ELSE Unpacked(decoded[n - 1], cs[n])[BlpBits]
  IN  decoded

Decode(cs) == Decoded(cs)[Len(cs)]

-----------------------------------------------------------------------------
(* Bound: one packet at a time, packets share no state.                     *)
Idle == chunks = <<>> /\ answering = <<>>

(* The loop of yang_recvnack_get_nack_seqs asks for the numbers in the      *)
(* order of its list: each newer than the last, all in half the space.      *)
Ask(sn) ==
  /\ Idle /\ Len(asking) < MaxAsked
  /\ \A i \in DOMAIN asking : SeqDistance(asking[i], sn) > 0
  /\ asking' = AddSn(asking, sn)
  /\ UNCHANGED <<chunks, wanted, own, answering>>

(* yang_check_send_nacks.                                                   *)
Send ==
  /\ asking # <<>>
  /\ chunks' = Encode(asking)
  /\ wanted' = ToSet(asking) /\ own' = TRUE
  /\ asking' = <<>>
  /\ UNCHANGED answering

(* Another implementation sends a NACK: its chunks may overlap and come in  *)
(* any order, but lie within half the sequence space.                       *)
SendForeign(cs) ==
  /\ Idle /\ asking = <<>>
  /\ \E oldest \in SeqNo : \A i \in DOMAIN cs : \A s \in Contents(cs[i]) :
       AheadOf(oldest, s) < Half
  /\ chunks' = cs
  /\ wanted' = UNION {Contents(cs[i]) : i \in DOMAIN cs} /\ own' = FALSE
  /\ UNCHANGED <<asking, answering>>

(* The publisher reads the packet, or it is lost; then it has answered all. *)
Receive ==
  /\ chunks # <<>>
  /\ answering' = Decode(chunks)
  /\ chunks' = <<>> /\ wanted' = {}
  /\ UNCHANGED <<asking, own>>

Lose ==
  /\ chunks # <<>>
  /\ chunks' = <<>> /\ wanted' = {}
  /\ UNCHANGED <<asking, own, answering>>

Answered ==
  /\ answering # <<>>
  /\ answering' = <<>>
  /\ UNCHANGED <<asking, chunks, wanted, own>>

Init ==
  asking = <<>> /\ chunks = <<>> /\ wanted = {} /\ own = TRUE /\ answering = <<>>

Foreign == [pid : ForeignPids, blp : SUBSET (0 .. BlpBits - 1)]

Next ==
  \/ \E sn \in SeqNo : Ask(sn)
  \/ Send
  \/ \E n \in 1 .. ForeignChunks : \E cs \in [1 .. n -> Foreign] : SendForeign(cs)
  \/ Receive
  \/ Lose
  \/ Answered

Spec == Init /\ [][Next]_vars

-----------------------------------------------------------------------------
(* Properties. *)

TypeOK ==
  /\ asking \in Seq(SeqNo) /\ answering \in Seq(SeqNo) /\ chunks \in Seq(Chunk)
  /\ wanted \subseteq SeqNo /\ own \in BOOLEAN

(* What yang_encode_rtcpNack leaves out of a packet: the first number beyond*)
(* the mask of a chunk, which closes the chunk and opens none, ...          *)
Closes(c, s) ==
  /\ AheadOf(c.pid, s) > BlpBits
  /\ \A w \in wanted :
       AheadOf(c.pid, w) <= BlpBits \/ AheadOf(c.pid, s) <= AheadOf(c.pid, w)

(* ... and what the sequence space wraps to after the PID of the last chunk,*)
(* since (sn - pid) is taken between ints: 0 in the list 65535, 0.          *)
AfterWrap(s) ==
  chunks # <<>> /\ SeqDistance(Last(chunks).pid, s) > 0 /\ s < Last(chunks).pid

(* A packet asks only for what the receiver listed; a chunk for all of it   *)
(* within its reach, on the circle of the numbers, and the packet for all   *)
(* the rest, but for the numbers that close a chunk and those after the     *)
(* wrap: no bit of a mask is off by one, and nothing else is left out.      *)
AskedWithinReach ==
  /\ \A i \in DOMAIN chunks : Contents(chunks[i]) \subseteq wanted
  /\ own => \A s \in wanted :
       /\ \A i \in DOMAIN chunks :
            AheadOf(chunks[i].pid, s) <= BlpBits
              => s \in Contents(chunks[i]) \/ AfterWrap(s)
       /\ \/ \E i \in DOMAIN chunks : s \in Contents(chunks[i]) \/ Closes(chunks[i], s)
          \/ AfterWrap(s)

(* The publisher reads every number once, oldest first, whatever the order  *)
(* and the overlaps of the chunks: the binary search of                     *)
(* yang_get_uint16_index finds the place of each, and reading loses nothing *)
(* and invents nothing.                                                     *)
ReadExactly ==
  [][Receive =>
       /\ ToSet(answering') = UNION {Contents(chunks[i]) : i \in DOMAIN chunks}
       /\ \A i, j \in DOMAIN answering' :
            i < j => SeqDistance(answering'[i], answering'[j]) > 0]_vars

(* A list of n numbers fills at most (n + 1) / 2 chunks, so that the 666    *)
(* numbers of a full video list fit the 1500 bytes of kRtcpPacketSize, the  *)
(* only room yang_encode_rtcpNack asks for.                                 *)
PacketFits == own => 2 * Len(chunks) <= Cardinality(wanted) + 1

=============================================================================
