------------------------------ MODULE RecvNack ------------------------------
(***************************************************************************)
(* The loss tracker of one received track: the window of sequence numbers  *)
(* (YangReceiveNackBuffer) and the list of packets to ask again            *)
(* (YangRtpRecvNack), driven by every RTP packet of the track              *)
(* (yang_playtrack_on_nack).                                               *)
(*                                                                         *)
(* The sorted array of the code is a function from the listed sequence     *)
(* numbers to their records: as long as ListedInWindow holds the array is  *)
(* strictly ascending in SeqDistance, and its order is a function of its   *)
(* content.  Clocks are ages that stop growing once no comparison can tell *)
(* them apart.                                                             *)
(***************************************************************************)
EXTENDS SeqNum, FiniteSets

CONSTANTS
  MaxQueueSize,       \* maxQueueSize: 66 for audio, 666 for video
  MaxReqCount,        \* opts.maxReqCount
  MaxAliveTime,       \* opts.maxAliveTime, in ticks
  FirstNackInterval,  \* opts.firstNackInterval
  NackInterval0,      \* opts.nackInterval at the start; also the 50 ms threshold
  MinNackInterval,    \* opts.minNackInterval
  MaxNackInterval,    \* opts.maxNackInterval
  NackCheckInterval,  \* opts.nackCheckInterval
  FlipMod,            \* nn_seq_flip_backs counts modulo this in a uint32_t report
  Rtts,               \* the round-trip times a report can carry
  JumpAhead,          \* bound: how far beyond end a packet may arrive
  LateBy,             \* bound: how far behind end a packet may arrive
  MaxLag,             \* bound: how far begin may fall behind end
  MaxAdvance,         \* bound: how far the stream comes in one tick
  MaxSilence,         \* bound: ticks that pass without a checked packet
  Watched             \* the sequence numbers whose liveness is checked

ASSUME NackAssumption ==
  /\ MaxQueueSize \in Nat \ {0} /\ MaxReqCount \in Nat
  /\ MaxAliveTime \in Nat /\ FirstNackInterval \in Nat
  /\ NackInterval0 \in Nat /\ MinNackInterval \in Nat /\ MaxNackInterval \in Nat
  /\ NackCheckInterval \in Nat
  /\ FlipMod \in Nat \ {0} /\ Rtts \subseteq Nat
  /\ JumpAhead \in 0 .. Half - 1 /\ LateBy \in 0 .. Half - 1
  /\ MaxLag \in 0 .. SeqSpace /\ MaxAdvance \in Nat /\ MaxSilence \in Nat
  /\ Watched \subseteq SeqNo

VARIABLES
  begin, end,        \* the window: first sequence number, one past the highest
  contexttialized,   \* a first packet has set the window
  flips,             \* nn_seq_flip_backs
  nacks,             \* the NACK list
  sinceCheck,        \* now - preCheckTime
  nackInterval,      \* opts.nackInterval
  missing,           \* history: passed over, never received, not given up
  settled,           \* history: received or given up, among the latest LateBy
  lag,               \* history: how far begin really is behind end
  advance            \* history: how far end has come since the last tick

history == <<missing, settled, lag>>

vars == <<begin, end, contexttialized, flips, nacks, sinceCheck, nackInterval,
          history, advance>>

Listed == DOMAIN nacks

Larger(a, b) == IF a >= b THEN a ELSE b

Smaller(a, b) == IF a <= b THEN a ELSE b

(* Ages stop one past the largest bound they are compared with. *)
AgeCap == Larger(MaxAliveTime, FirstNackInterval) + 1

SinceCap == Larger(MinNackInterval, MaxNackInterval)

CheckCap == Larger(NackCheckInterval, MaxSilence)

-----------------------------------------------------------------------------
(* The list. *)

(* A record just created; it was never requested: preReqNackTime is 0, the  *)
(* start of the process, which is longer ago than any interval.             *)
NewNackInfo == [age |-> 0, since |-> SinceCap, count |-> 0]

EmptyList == [s \in {} |-> NewNackInfo]

Insert(list, S) ==
  [s \in DOMAIN list \cup S |-> IF s \in DOMAIN list THEN list[s] ELSE NewNackInfo]

Remove(list, S) == [s \in DOMAIN list \ S |-> list[s]]

ExpiredByAge(e) == e.age > MaxAliveTime

Expired(e) == e.age > MaxAliveTime \/ e.count > MaxReqCount

Young(e) == e.age < FirstNackInterval

RequestInterval ==
  Larger(MinNackInterval,
         IF nackInterval < NackInterval0 THEN nackInterval ELSE nackInterval \div 3)

(* The order of the array. *)
Older(s, t) == SeqDistance(s, t) > 0

Position(list, s) == Cardinality({t \in DOMAIN list : Older(t, s)}) + 1

At(list, p) == list[CHOOSE s \in DOMAIN list : Position(list, s) = p]

(* Which elements the loop over the array looks at: it stops at the first   *)
(* young one, and the element after one it has removed moves into the place *)
(* already visited and is skipped.                                          *)
Visited(list) ==
  LET n == Cardinality(DOMAIN list)
      visit[p \in 1 .. n] ==
        \/ p = 1
        \/ p > 1 /\ visit[p - 1] /\ ~Expired(At(list, p - 1)) /\ ~Young(At(list, p - 1))
        \/ p > 2 /\ visit[p - 2] /\ Expired(At(list, p - 2))
  IN  {s \in DOMAIN list : Position(list, s) \in 1 .. n /\ visit[Position(list, s)]}

GivenUpNever(list) == {}

GivenUpWithNext(list) ==
  {s \in DOMAIN list : \E t \in Visited(list) :
     Expired(list[t]) /\ Position(list, s) - Position(list, t) \in 0 .. 1}

GivenUp(list) == {s \in Visited(list) : Expired(list[s])}

Requested(list) ==
  {s \in Visited(list) : /\ ~Expired(list[s]) /\ ~Young(list[s])
                         /\ list[s].since >= RequestInterval}

MarkRequested(list, S) ==
  [s \in DOMAIN list |->
     IF s \in S THEN [age |-> list[s].age, since |-> 0, count |-> list[s].count + 1]
     ELSE list[s]]

(* The last one in the array.                                               *)
Newest(list, S) ==
  CHOOSE s \in S : \A t \in S : Position(list, t) <= Position(list, s)

(* yang_check_send_nacks, run on the list and the first sequence number the *)
(* packet has left.  It looks at the list at most every NackCheckInterval;  *)
(* giving up a packet moves begin just past it.                             *)
CheckDue(list) == DOMAIN list # {} /\ sinceCheck >= NackCheckInterval

Dropped(list) == IF CheckDue(list) THEN GivenUp(list) ELSE {}

SendNacks(list, first) ==
  /\ nacks' = IF CheckDue(list)
              THEN MarkRequested(Remove(list, GivenUp(list)), Requested(list))
              ELSE list
  /\ begin' = IF Dropped(list) = {} THEN first ELSE Succ(Newest(list, Dropped(list)))
  /\ sinceCheck' = IF CheckDue(list) THEN 0 ELSE sinceCheck

-----------------------------------------------------------------------------
(* The window. *)

(* yang_nackbuffer_notify_nack_list_full: the tracker forgets everything.   *)
Reset ==
  /\ begin' = 0 /\ end' = 0 /\ contexttialized' = FALSE
  /\ nacks' = EmptyList
  /\ missing' = {} /\ settled' = {} /\ lag' = 0
  /\ UNCHANGED sinceCheck

(* Strictly between the two on the circle: passed over.                     *)
Between(a, b) == {s \in SeqNo : AheadOf(a, s) \in 1 .. AheadOf(a, b) - 1}

(* What the history says after seq arrived, gap was found to be passed over *)
(* and the packets in dropped were given up.                                *)
Recorded(seq, gap, dropped) ==
  /\ settled' = {s \in settled \cup dropped \cup {seq} : AheadOf(s, end') <= LateBy}
  /\ missing' = (missing \cup (gap \ settled)) \ (dropped \cup {seq})

(* yang_recvnack_check_queue_size. *)
OverFull(list) == Cardinality(DOMAIN list) > MaxQueueSize

Full(list) == Cardinality(DOMAIN list) >= MaxQueueSize

(* The part of yang_playtrack_on_nack that follows the update of the window *)
(* to [first, last): list the range that was passed over, forget everything *)
(* when the list is full, and otherwise ask for what is due.  gap and       *)
(* distance are for the history: what is missing of range, and how far      *)
(* first is behind last.                                                    *)
Track(seq, first, last, range, gap, distance) ==
  LET list == Insert(nacks, range)
  IN  IF range # {} /\ Full(list)
      THEN Reset
      ELSE /\ end' = last /\ contexttialized' = TRUE
           /\ SendNacks(list, first)
           /\ Recorded(seq, gap, Dropped(list))
           /\ lag' = IF Dropped(list) = {} THEN distance ELSE AheadOf(begin', last)

(* A listed packet arrives: it is taken off the list and nothing else runs. *)
OnListed(seq) ==
  /\ seq \in Listed
  /\ nacks' = Remove(nacks, {seq})
  /\ missing' = missing \ {seq}
  /\ settled' = {s \in settled \cup {seq} : AheadOf(s, end) <= LateBy}
  /\ UNCHANGED <<begin, end, contexttialized, flips, sinceCheck, nackInterval, lag, advance>>

(* The first packet, or the first after a reset: any number may come.       *)
OnFirst(seq) ==
  /\ seq \notin Listed /\ ~contexttialized
  /\ Track(seq, seq, Succ(seq), {}, {}, 1)
  /\ UNCHANGED <<flips, nackInterval, advance>>

(* Bounds on the stream: it advances by at most MaxAdvance numbers in a     *)
(* tick, and never so far without a packet given up that begin, nearly a    *)
(* whole circle behind, seems just ahead of end.                            *)
Reachable(seq) ==
  /\ advance + AheadOf(end, seq) + 1 <= MaxAdvance
  /\ lag + AheadOf(end, seq) + 1 <= MaxLag

(* "Normal sequence, seq follows high_."                                    *)
OnForward(seq) ==
  /\ seq \notin Listed /\ contexttialized
  /\ SeqDistance(end, seq) \in 0 .. JumpAhead
  /\ Reachable(seq)
  /\ flips' = IF seq < end THEN (flips + 1) % FlipMod ELSE flips
  /\ Track(seq, begin, Succ(seq), SeqRange(end, seq), Between(Pred(end), seq),
           lag + AheadOf(end, seq) + 1)
  /\ advance' = advance + AheadOf(end, seq) + 1
  /\ UNCHANGED nackInterval

(* "Out-of-order sequence, seq before low_."  The range listed starts with  *)
(* seq itself.                                                              *)
OnLate(seq) ==
  /\ seq \notin Listed /\ contexttialized
  /\ AheadOf(seq, end) \in 1 .. LateBy
  /\ SeqDistance(end, seq) < 0 /\ SeqDistance(seq, begin) > 0
  /\ Track(seq, seq, end, SeqRange(seq, begin), Between(seq, begin),
           AheadOf(seq, end))
  /\ UNCHANGED <<flips, nackInterval, advance>>

(* A packet inside the window that is not missed: a duplicate.              *)
OnOld(seq) ==
  /\ seq \notin Listed /\ contexttialized
  /\ AheadOf(seq, end) \in 1 .. LateBy
  /\ SeqDistance(end, seq) < 0 /\ SeqDistance(seq, begin) <= 0
  /\ Track(seq, begin, end, {}, {}, lag)
  /\ UNCHANGED <<flips, nackInterval, advance>>

OnRtp(seq) ==
  OnListed(seq) \/ OnFirst(seq) \/ OnForward(seq) \/ OnLate(seq) \/ OnOld(seq)

(* A round-trip time from an XR report block.                               *)
UpdateRtt(rtt) ==
  /\ nackInterval' =
       Smaller(IF rtt > nackInterval THEN (8 * nackInterval + 2 * rtt) \div 10 ELSE rtt,
               MaxNackInterval)
  /\ UNCHANGED <<begin, end, contexttialized, flips, nacks, sinceCheck, history, advance>>

(* Time passes.  While packets are missed the stream goes on: a packet that *)
(* leads to a check arrives at least every MaxSilence ticks.                *)
Tick ==
  /\ Listed = {} \/ sinceCheck < MaxSilence
  /\ nacks' = [s \in Listed |->
                 [age |-> Smaller(nacks[s].age + 1, AgeCap),
                  since |-> Smaller(nacks[s].since + 1, SinceCap),
                  count |-> nacks[s].count]]
  /\ sinceCheck' = Smaller(sinceCheck + 1, CheckCap)
  /\ advance' = 0
  /\ UNCHANGED <<begin, end, contexttialized, flips, nackInterval, history>>

Init ==
  /\ begin = 0 /\ end = 0 /\ contexttialized = FALSE /\ flips = 0
  /\ nacks = EmptyList
  /\ sinceCheck = CheckCap /\ nackInterval = NackInterval0
  /\ missing = {} /\ settled = {} /\ lag = 0 /\ advance = 0

Next ==
  \/ \E seq \in SeqNo : OnRtp(seq)
  \/ \E rtt \in Rtts : UpdateRtt(rtt)
  \/ Tick

Spec == Init /\ [][Next]_vars

(* Neither the clock nor the stream stops: as long as the clock waits for a *)
(* packet, one arrives.                                                     *)
Fairness == WF_vars(Tick \/ \E seq \in SeqNo : OnRtp(seq))

FairSpec == Spec /\ Fairness

-----------------------------------------------------------------------------
(* Properties. *)

NackInfo == [age : 0 .. AgeCap, since : 0 .. SinceCap, count : 0 .. MaxReqCount + 1]

(* Type invariant.  The count of requests never exceeds maxReqCount + 1.    *)
TypeOK ==
  /\ begin \in SeqNo /\ end \in SeqNo /\ contexttialized \in BOOLEAN
  /\ flips \in 0 .. FlipMod - 1
  /\ Listed \subseteq SeqNo /\ nacks \in [Listed -> NackInfo]
  /\ sinceCheck \in 0 .. CheckCap
  /\ nackInterval \in 0 .. Larger(NackInterval0, MaxNackInterval)
  /\ missing \subseteq SeqNo /\ settled \subseteq SeqNo /\ lag \in 0 .. SeqSpace
  /\ advance \in 0 .. MaxAdvance

(* No loss is forgotten: every packet the stream has passed over and that   *)
(* has neither arrived since nor been given up is on the list, whatever the *)
(* order, the losses and the duplicates (yang_playtrack_on_nack and the     *)
(* loop of yang_recvnack_get_nack_seqs).                                    *)
NoLossForgotten == missing \subseteq Listed

(* The list is short of maxQueueSize after every packet, and empty while    *)
(* the window is not set: yang_recvnack_check_queue_size runs on every path *)
(* that adds to it.                                                         *)
QueueBounded ==
  /\ Cardinality(Listed) < MaxQueueSize
  /\ ~contexttialized => Listed = {}

(* Everything listed is older than the newest packet by less than half the  *)
(* sequence space: the array is then totally ordered by                     *)
(* yang_rtp_seq_distance, and its binary search finds what is there.  What  *)
(* keeps it so is the give-up loop, though it skips elements that begin has *)
(* passed and young ones hold it up, and though begin itself may be more    *)
(* than half the space behind and a repeated packet then seem older than it.*)
ListedInWindow == \A s \in Listed : AheadOf(s, end) \in 2 .. Half - 1

(* A missing packet is given up only when it expired or with the whole      *)
(* list: no arrival of another packet makes the tracker drop it.            *)
GiveUpOnlyExpired ==
  [][\A s \in missing \ missing' :
       OnListed(s) \/ ~contexttialized' \/ Expired(nacks[s])]_vars

(* Every packet on the list leaves it: it arrives, expires or is forgotten  *)
(* with the list, although the loop stops at young elements and skips the   *)
(* element after each one it removes.                                       *)
EveryNackEnds == \A s \in Watched : s \in Listed ~> s \notin Listed

=============================================================================
