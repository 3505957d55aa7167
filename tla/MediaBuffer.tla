---------------------------- MODULE MediaBuffer ----------------------------
(***************************************************************************)
(* YangMediaBuffer: the ring of frames between two threads of a media      *)
(* pipeline (capture and encoder, encoder and network, network and         *)
(* decoder).  Each call first looks at m_size without the lock, then moves *)
(* a frame under the lock.                                                 *)
(*                                                                         *)
(* One thread reads a buffer.  One thread fills it in a publisher or a     *)
(* player; in a p2p session the receiving thread of every peer does.       *)
(***************************************************************************)
EXTENDS Integers, Sequences, FiniteSets

CONSTANTS
  Producers,     \* the threads that call putFrame
  Consumer,      \* the thread that calls getFrame or getFrameRef
  NoThread,
  Frame,         \* the frames
  HalfWritten,   \* what a slot holds while a frame is copied into it
  m_cache_num    \* the number of slots: 5 at least, 30 for video

ASSUME BufferAssumption ==
  /\ IsFiniteSet(Producers) /\ Producers # {}
  /\ Consumer \notin Producers /\ NoThread \notin Producers \cup {Consumer}
  /\ HalfWritten \notin Frame
  /\ m_cache_num \in Nat \ {0}

Threads == Producers \cup {Consumer}
Slots == 0 .. m_cache_num - 1

VARIABLES
  m_frames, m_putIndex, m_getIndex, m_size,
  m_lock,    \* the thread that holds the mutex
  pc,        \* where each thread is: "out" of the buffer, "ready" past the
             \* test of size(), "copy" in the critical section, or, the
             \* consumer, "ref": using the payload getFrameRef gave it
  pframe,    \* the frame each producer puts
  got,       \* the frame the consumer was handed last
  ref        \* the slot whose payload getFrameRef handed out last

vars == <<m_frames, m_putIndex, m_getIndex, m_size, m_lock, pc, pframe, got, ref>>

ring == <<m_frames, m_putIndex, m_getIndex, m_size>>

FollowingSkip(i) == IF i + 1 >= m_cache_num THEN 1 % m_cache_num ELSE i + 1

Following(i) == IF i + 1 >= m_cache_num THEN 0 ELSE i + 1

Init ==
  /\ m_frames \in [Slots -> {HalfWritten}]
  /\ m_putIndex = 0 /\ m_getIndex = 0 /\ m_size = 0
  /\ m_lock = NoThread
  /\ pc = [t \in Threads |-> "out"]
  /\ pframe \in [Producers -> Frame]
  /\ got \in Frame
  /\ ref = 0

-----------------------------------------------------------------------------
(* putFrame. *)

(* size() >= m_cache_num, read without the lock: a full buffer takes no     *)
(* frame and the call returns.                                              *)
HasRoomForOneMore == m_size <= m_cache_num

HasRoom == m_size < m_cache_num

PutTest(p, f) ==
  /\ pc[p] = "out"
  /\ HasRoom
  /\ pc' = [pc EXCEPT ![p] = "ready"]
  /\ pframe' = [pframe EXCEPT ![p] = f]
  /\ UNCHANGED <<ring, m_lock, got, ref>>

(* pthread_mutex_lock, and the copy into the slot begins.                   *)
PutLock(p) ==
  /\ pc[p] = "ready" /\ m_lock = NoThread
  /\ m_lock' = p
  /\ m_frames' = [m_frames EXCEPT ![m_putIndex] = HalfWritten]
  /\ pc' = [pc EXCEPT ![p] = "copy"]
  /\ UNCHANGED <<m_putIndex, m_getIndex, m_size, pframe, got, ref>>

PutDone(p) ==
  /\ pc[p] = "copy"
  /\ m_frames' = [m_frames EXCEPT ![m_putIndex] = pframe[p]]
  /\ m_putIndex' = Following(m_putIndex)
  /\ m_size' = m_size + 1
  /\ m_lock' = NoThread
  /\ pc' = [pc EXCEPT ![p] = "out"]
  /\ UNCHANGED <<m_getIndex, pframe, got, ref>>

-----------------------------------------------------------------------------
(* getFrame and getFrameRef. *)

GetUntested ==
  /\ pc[Consumer] = "out"
  /\ pc' = [pc EXCEPT ![Consumer] = "ready"]
  /\ UNCHANGED <<ring, m_lock, pframe, got, ref>>

GetTest ==
  /\ pc[Consumer] = "out"
  /\ m_size # 0
  /\ pc' = [pc EXCEPT ![Consumer] = "ready"]
  /\ UNCHANGED <<ring, m_lock, pframe, got, ref>>

GetLock ==
  /\ pc[Consumer] = "ready" /\ m_lock = NoThread
  /\ m_lock' = Consumer
  /\ pc' = [pc EXCEPT ![Consumer] = "copy"]
  /\ UNCHANGED <<ring, pframe, got, ref>>

TakeUncounted ==
  /\ pc[Consumer] = "copy"
  /\ m_getIndex' = Following(m_getIndex)
  /\ m_lock' = NoThread
  /\ got' = m_frames[m_getIndex]
  /\ UNCHANGED <<m_frames, m_putIndex, m_size, pframe>>

TakeSlot ==
  /\ pc[Consumer] = "copy"
  /\ m_getIndex' = Following(m_getIndex)
  /\ m_size' = m_size - 1
  /\ m_lock' = NoThread
  /\ got' = m_frames[m_getIndex]
  /\ UNCHANGED <<m_frames, m_putIndex, pframe>>

(* getFrame copies the frame out before it unlocks.                         *)
GetDone ==
  /\ TakeSlot
  /\ pc' = [pc EXCEPT ![Consumer] = "out"]
  /\ UNCHANGED ref

GetRefNext ==
  /\ TakeSlot
  /\ pc' = [pc EXCEPT ![Consumer] = "ref"]
  /\ ref' = Following(m_getIndex)

(* getFrameRef returns the payload of a slot that is already free again.    *)
GetRefDone ==
  /\ TakeSlot
  /\ pc' = [pc EXCEPT ![Consumer] = "ref"]
  /\ ref' = m_getIndex

(* The consumer has encoded, sent or drawn the payload.                     *)
RefUsed ==
  /\ pc[Consumer] = "ref"
  /\ pc' = [pc EXCEPT ![Consumer] = "out"]
  /\ UNCHANGED <<ring, m_lock, pframe, got, ref>>

-----------------------------------------------------------------------------
(* resetIndex takes no lock.  Its callers in encoders, publishers and        *)
(* recorders run while capturing is stopped and the thread at the other end *)
(* was joined or not started yet.  YangSynBuffer and YangP2pRtc also reset  *)
(* a buffer that is in use; that is not modelled here.                      *)
ResetIndex ==
  /\ \A t \in Threads : pc[t] = "out"
  /\ m_putIndex' = 0 /\ m_getIndex' = 0 /\ m_size' = 0
  /\ UNCHANGED <<m_frames, m_lock, pc, pframe, got, ref>>

Next ==
  \/ \E p \in Producers : (\E f \in Frame : PutTest(p, f)) \/ PutLock(p) \/ PutDone(p)
  \/ GetTest \/ GetLock \/ GetDone \/ GetRefDone \/ RefUsed
  \/ ResetIndex

(* Threads inside a call leave it; the consumer polls the buffer for as     *)
(* long as its loop runs (startLoop of the encoders and publishers).        *)
Fairness ==
  /\ \A p \in Producers : SF_vars(PutLock(p)) /\ WF_vars(PutDone(p))
  /\ WF_vars(GetTest) /\ SF_vars(GetLock) /\ WF_vars(GetDone \/ GetRefDone)
  /\ WF_vars(RefUsed)

Spec == Init /\ [][Next]_vars /\ Fairness

-----------------------------------------------------------------------------
(* Properties. *)

(* m_size is an uint32_t: it never goes below zero, where it would wrap and *)
(* make putFrame refuse every frame from then on.                           *)
TypeOK ==
  /\ m_frames \in [Slots -> Frame \cup {HalfWritten}]
  /\ m_putIndex \in Slots /\ m_getIndex \in Slots
  /\ m_size \in Nat
  /\ m_lock \in Threads \cup {NoThread}
  /\ pc \in [Threads -> {"out", "ready", "copy", "ref"}]
  /\ pframe \in [Producers -> Frame]
  /\ got \in Frame \cup {HalfWritten}
  /\ ref \in Slots

(* The test of size() and the m_size++ are not one step: every producer may *)
(* pass the test with one slot free, so each one beyond the first can put a *)
(* frame over the capacity, but no more than one.                           *)
OverfillBounded == m_size <= m_cache_num + Cardinality(Producers) - 1

(* The frames on their way to the consumer: those counted in m_size and the *)
(* one being copied in.                                                     *)
Waiting == m_size + (IF m_lock \in Producers THEN 1 ELSE 0)

Written ==
  IF m_lock \in Producers
  THEN [m_frames EXCEPT ![m_putIndex] = pframe[m_lock]]
  ELSE m_frames

Queue == INSTANCE FrameQueue WITH
  Capacity <- m_cache_num, Slack <- Cardinality(Producers) - 1,
  queue <- [k \in 1 .. Waiting |-> Written[(m_getIndex + k - 1) % m_cache_num]],
  out <- got

(* However the calls interleave, the ring is the queue it promises to be: a *)
(* frame is read whole, once, and in the order it was put, and only a       *)
(* second producer can cost a frame that was taken.  Abstractly a frame is  *)
(* in the queue from the moment its producer has the lock.                  *)
IsQueue == Queue!Spec

(* getFrameRef frees the slot before its payload is used.  The payload is   *)
(* still the frame's for as long as the buffer does not fill up: only the   *)
(* frame that takes the last free slot is written over it.                  *)
RefIntact ==
  pc[Consumer] = "ref" /\ Waiting < m_cache_num => m_frames[ref] = got

(* A full buffer refuses every frame, but never for good: the consumer      *)
(* takes one out whatever the producers do, so no call keeps the lock.      *)
FullDrains == m_size >= m_cache_num ~> m_size < m_cache_num

=============================================================================
