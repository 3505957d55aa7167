--------------------------- MODULE P2pPeersProofs ---------------------------
(***************************************************************************)
(* For any number of peers: the lists of YangP2pRtc keep their types, and  *)
(* m_playCount is what was listed as a server less the clients erased.     *)
(*                                                                         *)
(* For the session of one peer, and any number of losses and repetitions:  *)
(* media is sent only with keys, and the server has keys for every packet  *)
(* of media it takes.                                                      *)
(***************************************************************************)
EXTENDS P2pPeers, RtcHandshake, FiniteSetTheorems, SequenceTheorems, TLAPS

(* Uids are given out once, and one not given out yet is nowhere.           *)
Fresh ==
  \A u \in Uid : u >= m_uidSeq =>
    udp[u] = "none" /\ u \notin server /\ u \notin Listed /\ http # u

(* A peer the HTTP server's thread has still to list is a server's.         *)
Unlisted == http # NoUid => http \in server /\ http \notin Listed

(* No peer is listed twice, so that erasing one place removes it.           *)
Distinct ==
  \A i, j \in 1 .. Len(m_pushs) : m_pushs[i] = m_pushs[j] => i = j

(* Only the publishing thread erases, so the peer it destroys stays listed. *)
StillListed == pub \in {"alert", "join"} => erased \in Listed

(* The timer found what it is about to remove in the list.                  *)
TimerInside == timed # NoUid => timer \in 1 .. MaxPeer

IInv ==
  TypeOK /\ Fresh /\ Unlisted /\ Distinct /\ StillListed /\ TimerInside /\ PlayCount

-----------------------------------------------------------------------------
(* Counting. *)

Gone == {u \in Uid \ server : Erased(u)}

LEMMA UidsFinite ==
  \A S \in SUBSET Uid :
    IsFiniteSet(S) /\ Cardinality(S) \in Nat /\ Cardinality(S) <= MaxPeer
<1>1. IsFiniteSet(Uid) /\ Cardinality(Uid) = MaxPeer
  BY PeersAssumption, FS_Interval DEF Uid
<1>2. QED
  BY <1>1, FS_Subset, FS_CardinalityType

LEMMA CountBounded ==
  ASSUME NEW S \in SUBSET Uid, NEW T \in SUBSET Uid
  PROVE  Cardinality(S) - Cardinality(T) \in -MaxPeer .. MaxPeer
<1>1. /\ Cardinality(S) \in Nat /\ Cardinality(S) <= MaxPeer
      /\ Cardinality(T) \in Nat /\ Cardinality(T) <= MaxPeer
  BY UidsFinite
<1>2. QED
  BY <1>1, PeersAssumption

(* A list without repetition is no longer than there are uids.              *)
LEMMA ListFits ==
  ASSUME NEW s \in Seq(Uid), \A i, j \in 1 .. Len(s) : s[i] = s[j] => i = j
  PROVE  Len(s) \in Nat /\ Len(s) <= MaxPeer
<1>1. Len(s) \in Nat /\ s \in [1 .. Len(s) -> Uid]
  BY LenProperties
<1>2. s \in Injection(1 .. Len(s), Uid)
  BY <1>1 DEF Injection, IsInjective
<1>3. IsFiniteSet(Uid) /\ Cardinality(Uid) <= MaxPeer /\ Cardinality(Uid) \in Nat
  BY UidsFinite
<1>4. Cardinality(1 .. Len(s)) <= Cardinality(Uid)
  BY <1>2, <1>3, FS_Injection
<1>5. Cardinality(1 .. Len(s)) = Len(s)
  BY <1>1, FS_Interval
<1>6. QED
  BY <1>1, <1>3, <1>4, <1>5, PeersAssumption

-----------------------------------------------------------------------------
(* The list: a peer is added at its end, and erased where it is. *)

(* The members of a list.                                                   *)
In(s) == {s[i] : i \in 1 .. Len(s)}

LEMMA Added ==
  ASSUME NEW s \in Seq(Uid), NEW u \in Uid, u \notin In(s),
         \A i, j \in 1 .. Len(s) : s[i] = s[j] => i = j
  PROVE  LET t == Append(s, u)
         IN  /\ t \in Seq(Uid)
             /\ \A i, j \in 1 .. Len(t) : t[i] = t[j] => i = j
             /\ In(t) = In(s) \cup {u}
<1> DEFINE t == Append(s, u)
<1>1. /\ t \in Seq(Uid) /\ Len(t) = Len(s) + 1 /\ Len(s) \in Nat
      /\ \A i \in 1 .. Len(s) : t[i] = s[i]
      /\ t[Len(s) + 1] = u
  BY AppendProperties, LenProperties
<1> HIDE DEF t
<1>2. \A i \in 1 .. Len(t) : i \in 1 .. Len(s) \/ i = Len(s) + 1
  BY <1>1
<1>3. \A i, j \in 1 .. Len(t) : t[i] = t[j] => i = j
  BY <1>1, <1>2 DEF In
<1>4. In(t) = In(s) \cup {u}
  BY <1>1, <1>2 DEF In
<1>5. QED
  BY <1>1, <1>3, <1>4 DEF t

LEMMA OneTaken ==
  ASSUME NEW s \in Seq(Uid), NEW n \in 1 .. Len(s),
         \A i, j \in 1 .. Len(s) : s[i] = s[j] => i = j
  PROVE  LET t == RemoveAt(s, n)
         IN  /\ t \in Seq(Uid)
             /\ \A i, j \in 1 .. Len(t) : t[i] = t[j] => i = j
             /\ In(t) = In(s) \ {s[n]}
<1> DEFINE t == RemoveAt(s, n)
           front == SubSeq(s, 1, n - 1)
           back == SubSeq(s, n + 1, Len(s))
<1>1. Len(s) \in Nat /\ n \in Nat /\ \A i \in 1 .. Len(s) : s[i] \in Uid
  BY LenProperties, ElementOfSeq
<1>2. /\ front \in Seq(Uid) /\ Len(front) = n - 1
      /\ \A i \in 1 .. n - 1 : front[i] = s[i]
  <2>1. \A i \in 1 .. n - 1 : s[i] \in Uid
    BY <1>1
  <2>2. /\ SubSeq(s, 1, n - 1) \in Seq(Uid)
        /\ Len(SubSeq(s, 1, n - 1)) = IF 1 <= n - 1 THEN n - 1 - 1 + 1 ELSE 0
        /\ \A i \in 1 .. n - 1 - 1 + 1 : SubSeq(s, 1, n - 1)[i] = s[1 + i - 1]
    BY <1>1, <2>1, SubSeqProperties
  <2>3. QED
    BY <1>1, <2>2
<1>3. /\ back \in Seq(Uid) /\ Len(back) = Len(s) - n
      /\ \A i \in 1 .. Len(s) - n : back[i] = s[n + i]
  <2>1. \A i \in n + 1 .. Len(s) : s[i] \in Uid
    BY <1>1
  <2>2. /\ back \in Seq(Uid)
        /\ Len(back) = IF n + 1 <= Len(s) THEN Len(s) - (n + 1) + 1 ELSE 0
        /\ \A i \in 1 .. Len(s) - (n + 1) + 1 : back[i] = s[(n + 1) + i - 1]
    BY <1>1, <2>1, SubSeqProperties
  <2> HIDE DEF back
  <2>3. QED
    BY <1>1, <2>2
<1>4. t = front \o back
  BY DEF RemoveAt
<1> HIDE DEF t, front, back
<1>5. /\ t \in Seq(Uid) /\ Len(t) = Len(s) - 1
      /\ \A i \in 1 .. Len(t) : t[i] = IF i < n THEN s[i] ELSE s[i + 1]
  <2>1. /\ front \o back \in Seq(Uid)
        /\ Len(front \o back) = Len(front) + Len(back)
        /\ \A i \in 1 .. Len(front) + Len(back) :
             (front \o back)[i] = IF i <= Len(front) THEN front[i] ELSE back[i - Len(front)]
    <3>1. front \in Seq(Uid) /\ back \in Seq(Uid)
      BY <1>2, <1>3
    <3>2. QED
      BY <3>1, ConcatProperties
  <2>2. Len(t) = Len(s) - 1
    BY <1>1, <1>2, <1>3, <1>4, <2>1
  <2>3. ASSUME NEW i \in 1 .. Len(t)
        PROVE  t[i] = IF i < n THEN s[i] ELSE s[i + 1]
    <3>1. i \in 1 .. Len(front) + Len(back) /\ i \in Nat
      BY <1>1, <1>2, <1>3, <1>4, <2>1
    <3>2. t[i] = IF i <= Len(front) THEN front[i] ELSE back[i - Len(front)]
      BY <1>4, <2>1, <3>1
    <3>3. i < n => front[i] = s[i]
      BY <1>1, <1>2, <3>1
    <3>4. i >= n => back[i - Len(front)] = s[i + 1]
      <4>1. i >= n => i - (n - 1) \in 1 .. Len(s) - n /\ n + (i - (n - 1)) = i + 1
        BY <1>1, <1>2, <1>3, <3>1
      <4>2. QED
        BY <1>2, <1>3, <4>1
    <3>5. QED
      BY <1>1, <1>2, <3>1, <3>2, <3>3, <3>4
  <2>4. QED
    BY <1>4, <2>1, <2>2, <2>3
<1>6. \A i, j \in 1 .. Len(t) : t[i] = t[j] => i = j
  BY <1>1, <1>5
<1>7. In(t) \subseteq In(s) \ {s[n]}
  BY <1>1, <1>5 DEF In
<1>8. In(s) \ {s[n]} \subseteq In(t)
  <2>1. ASSUME NEW i \in 1 .. Len(s), i # n PROVE s[i] \in In(t)
    <3>1. CASE i < n
      BY <1>1, <1>5, <3>1 DEF In
    <3>2. CASE i > n
      <4>1. i - 1 \in 1 .. Len(t) /\ t[i - 1] = s[i]
        BY <1>1, <1>5, <3>2
      <4>2. QED
        BY <4>1 DEF In
    <3>3. QED
      BY <1>1, <2>1, <3>1, <3>2
  <2>2. QED
    BY <2>1 DEF In
<1>9. QED
  BY <1>5, <1>6, <1>7, <1>8 DEF t

-----------------------------------------------------------------------------
(* Steps that leave the list alone. *)

LEMMA ListIn == ASSUME TypeOK PROVE Listed = In(m_pushs) /\ Listed \subseteq Uid
<1>1. \A i \in 1 .. Len(m_pushs) : m_pushs[i] \in Uid
  BY ElementOfSeq DEF TypeOK
<1>2. QED
  BY <1>1 DEF Listed, In

LEMMA ListKept ==
  ASSUME IInv, UNCHANGED <<m_uidSeq, m_pushs, m_playCount, server, http>>,
         \A u \in Uid : udp[u] = "none" => udp'[u] = "none",
         \A u \in Uid : u \notin Listed => (udp[u] = "ended" <=> udp'[u] = "ended")
  PROVE  Fresh' /\ Unlisted' /\ Distinct' /\ PlayCount' /\ Listed' = Listed
<1>1. Listed' = Listed
  BY DEF Listed
<1>2. Gone' = Gone
  BY <1>1 DEF Gone, Erased
<1>3. Fresh' /\ Unlisted' /\ Distinct'
  BY <1>1 DEF IInv, Fresh, Unlisted, Distinct
<1>4. PlayCount'
  BY <1>1, <1>2 DEF IInv, PlayCount, Gone
<1>5. QED
  BY <1>1, <1>3, <1>4

LEMMA Peers ==
  ASSUME IInv, NEW u \in Uid, Packet(u) \/ Alert(u) \/ UdpStep(u) \/ Silence(u)
  PROVE  IInv'
<1>1. TypeOK /\ m_clientUid \in Uid \cup {NoUid}
  BY DEF IInv, TypeOK
<1>2. TypeOK'
  <2>1. CASE Packet(u) \/ Silence(u)
    BY <1>1, <2>1 DEF TypeOK, Packet, Silence, others, loop
  <2>2. CASE Alert(u)
    BY <1>1, <2>2 DEF TypeOK, Alert, others, loop
  <2>3. CASE AlertRemoves(u)
    <3>1. m_removeList' \in Seq(Uid \cup {NoUid})
      BY <1>1, <2>3, AppendProperties DEF TypeOK, AlertRemoves, RemovePeer
    <3>2. QED
      BY <1>1, <2>3, <3>1 DEF TypeOK, AlertRemoves, RemovePeer, loop
  <2>4. CASE AlertStops(u) \/ LeaveLoop(u)
    BY <1>1, <2>4 DEF TypeOK, AlertStops, LeaveLoop, others, loop
  <2>5. QED
    BY <2>1, <2>2, <2>3, <2>4 DEF UdpStep
<1>3. /\ UNCHANGED <<m_uidSeq, m_pushs, m_playCount, server, http, timer, timed,
                     pub, erased>>
      /\ \A v \in Uid : udp[v] = "none" => udp'[v] = "none"
      /\ \A v \in Uid : v \notin Listed => (udp[v] = "ended" <=> udp'[v] = "ended")
  <2>1. CASE Packet(u) \/ Silence(u)
    BY <2>1 DEF Packet, Silence, others
  <2>2. CASE Alert(u)
    BY <1>1, <2>2 DEF TypeOK, Alert, others
  <2>3. CASE AlertRemoves(u)
    BY <1>1, <2>3 DEF TypeOK, AlertRemoves, RemovePeer
  <2>4. CASE AlertStops(u)
    BY <1>1, <2>4 DEF TypeOK, AlertStops, others
  <2>5. CASE LeaveLoop(u)
    <3>1. u \in Listed
      BY <2>5 DEF IInv, StillListed, LeaveLoop
    <3>2. QED
      BY <1>1, <2>5, <3>1 DEF TypeOK, LeaveLoop, others
  <2>6. QED
    BY <2>1, <2>2, <2>3, <2>4, <2>5 DEF UdpStep
<1>4. Fresh' /\ Unlisted' /\ Distinct' /\ PlayCount' /\ Listed' = Listed
  BY <1>3, ListKept
<1>5. QED
  BY <1>2, <1>3, <1>4 DEF IInv, StillListed, TimerInside

LEMMA Timer == ASSUME IInv, TimerStep PROVE IInv'
<1>1. /\ TypeOK /\ TimerInside /\ MaxPeer \in Nat
      /\ m_pushs \in Seq(Uid) /\ Len(m_pushs) \in Nat /\ Len(m_pushs) <= MaxPeer
      /\ \A i \in 1 .. Len(m_pushs) : m_pushs[i] \in Uid
  <2>1. TypeOK /\ TimerInside /\ Distinct /\ m_pushs \in Seq(Uid)
    BY DEF IInv, TypeOK
  <2>2. QED
    BY <2>1, PeersAssumption, ListFits, ElementOfSeq DEF Distinct
<1>2. /\ timer' \in 0 .. MaxPeer + 1 /\ timed' \in Uid \cup {NoUid}
      /\ timed' # NoUid => timer' \in 1 .. MaxPeer
  <2>1. CASE CheckAlive
    BY <1>1, <2>1 DEF TypeOK, TimerInside, CheckAlive, First
  <2>2. CASE CheckOne
    BY <1>1, <2>2 DEF TypeOK, TimerInside, CheckOne
  <2>3. CASE RemoveTimed
    BY <1>1, <2>3 DEF TypeOK, TimerInside, RemoveTimed
  <2>4. QED
    BY <2>1, <2>2, <2>3 DEF TimerStep
<1>3. m_removeList' \in Seq(Uid \cup {NoUid})
  <2>1. CASE CheckAlive \/ CheckOne
    BY <1>1, <2>1 DEF TypeOK, CheckAlive, CheckOne
  <2>2. CASE RemoveTimed
    BY <1>1, <2>2, AppendProperties DEF TypeOK, RemoveTimed, RemovePeer
  <2>3. QED
    BY <2>1, <2>2 DEF TimerStep
<1>4. UNCHANGED <<m_uidSeq, m_clientUid, m_playCount, m_pushs, m_mutex, peers, http,
                  pub, erased, loop>>
  BY DEF TimerStep, CheckAlive, CheckOne, RemoveTimed, RemovePeer, timerless
<1>5. TypeOK'
  BY <1>1, <1>2, <1>3, <1>4 DEF TypeOK, peers, loop
<1>6. Fresh' /\ Unlisted' /\ Distinct' /\ PlayCount' /\ Listed' = Listed
  BY <1>4, ListKept DEF peers
<1>7. QED
  BY <1>2, <1>4, <1>5, <1>6 DEF IInv, StillListed, TimerInside

(* Messages, and the publishing thread but for the end of erasing.          *)
LEMMA Others ==
  ASSUME IInv,
         \/ \E message \in messages : Handle(message)
         \/ DisconnectPeer \/ LockRemoved \/ UnlockRemoved \/ EraseNext \/ SignalStop
  PROVE  IInv'
<1>1. TypeOK
  BY DEF IInv
<1>2. TypeOK' /\ (pub' \in {"alert", "join"} => erased' \in Listed)
  <2>1. ASSUME NEW message \in messages, Handle(message)
        PROVE  TypeOK' /\ (pub' \in {"alert", "join"} => erased' \in Listed)
    BY <1>1, <2>1 DEF IInv, TypeOK, StillListed, Handle, lists, peers
  <2>2. CASE DisconnectPeer
    <3>1. m_removeList' \in Seq(Uid \cup {NoUid})
      BY <1>1, <2>2, AppendProperties DEF TypeOK, DisconnectPeer, RemovePeer
    <3>2. QED
      BY <1>1, <2>2, <3>1
      DEF IInv, TypeOK, StillListed, DisconnectPeer, RemovePeer, Handled, peers
  <2>3. CASE LockRemoved \/ UnlockRemoved \/ SignalStop
    BY <1>1, <2>3 DEF IInv, TypeOK, StillListed, LockRemoved, UnlockRemoved,
                      SignalStop, publess
  <2>4. CASE EraseNext
    <3>1. m_removeList' \in Seq(Uid \cup {NoUid})
      BY <1>1, <2>4, HeadTailProperties DEF TypeOK, EraseNext
    <3>2. /\ erased' \in Uid \cup {NoUid} /\ connected' \subseteq Uid
          /\ pub' \in {"drain", "alert", "join"}
          /\ pub' \in {"alert", "join"} => erased' \in Listed
      BY <1>1, <2>4, ListIn DEF IInv, TypeOK, StillListed, EraseNext
    <3>3. QED
      BY <1>1, <2>4, <3>1, <3>2 DEF TypeOK, EraseNext, publess
  <2>5. QED
    BY <2>1, <2>2, <2>3, <2>4
<1>3. UNCHANGED <<m_uidSeq, m_pushs, m_playCount, server, http, udp, timer, timed>>
  BY DEF Handle, DisconnectPeer, Handled, RemovePeer, LockRemoved, UnlockRemoved,
         EraseNext, SignalStop, publess, lists, peers
<1>4. Fresh' /\ Unlisted' /\ Distinct' /\ PlayCount' /\ Listed' = Listed
  BY <1>3, ListKept
<1>5. QED
  BY <1>2, <1>3, <1>4 DEF IInv, StillListed, TimerInside

-----------------------------------------------------------------------------
(* Steps that change the list. *)

LEMMA Appended ==
  ASSUME IInv, NEW u \in Uid, u \notin Listed, m_pushs' = Append(m_pushs, u)
  PROVE  m_pushs' \in Seq(Uid) /\ Distinct' /\ Listed' = Listed \cup {u}
<1>1. m_pushs \in Seq(Uid) /\ Listed = In(m_pushs) /\ Listed' = In(m_pushs')
  BY ListIn DEF IInv, TypeOK, Listed, In
<1>2. QED
  BY <1>1, Added DEF IInv, Distinct

LEMMA Connecting == ASSUME IInv, ConnectPeer PROVE IInv'
<1>1. TypeOK /\ m_uidSeq \in Nat /\ MaxPeer \in Nat
  BY PeersAssumption DEF IInv, TypeOK
<1>2. UNCHANGED <<m_playCount, m_removeList, m_mutex, server, http, timer, timed,
                  pub, erased, messages>> /\ m_lock' = Free /\ handling' = "none"
  BY DEF ConnectPeer, Handled
<1>3. CASE NewPeer /\ m_pushs' = Append(m_pushs, m_uidSeq) /\ m_clientUid' = m_uidSeq
  <2>1. /\ m_uidSeq \in Uid /\ m_uidSeq < MaxPeer /\ m_uidSeq' = m_uidSeq + 1
        /\ udp' = [udp EXCEPT ![m_uidSeq] = "run"]
        /\ UNCHANGED <<connected, alive, isStop>>
    BY <1>1, <1>3 DEF NewPeer, Uid
  <2>2. m_uidSeq \notin Listed /\ m_uidSeq \notin server /\ udp[m_uidSeq] = "none"
        /\ http # m_uidSeq
    BY <1>1, <2>1 DEF IInv, Fresh
  <2>3. m_pushs' \in Seq(Uid) /\ Distinct' /\ Listed' = Listed \cup {m_uidSeq}
    BY <1>3, <2>1, <2>2, Appended
  <2>4. TypeOK'
    BY <1>1, <1>2, <1>3, <2>1, <2>3 DEF TypeOK
  <2>5. Fresh' /\ Unlisted'
    BY <1>1, <1>2, <2>1, <2>2, <2>3 DEF IInv, Fresh, Unlisted, TypeOK, Uid
  <2>6. Listed' \cap server' = Listed \cap server
    BY <1>2, <2>2, <2>3
  <2>7. Gone' = Gone
    BY <1>1, <1>2, <2>1, <2>2, <2>3 DEF Gone, Erased, TypeOK
  <2>8. PlayCount'
    BY <1>2, <2>6, <2>7 DEF IInv, PlayCount, Gone
  <2>9. QED
    BY <1>2, <2>3, <2>4, <2>5, <2>8 DEF IInv, StillListed, TimerInside
<1>4. CASE /\ \/ m_uidSeq < MaxPeer /\ m_uidSeq' = m_uidSeq + 1 /\ m_clientUid' = m_uidSeq
              \/ UNCHANGED <<m_uidSeq, m_clientUid>>
           /\ UNCHANGED <<m_pushs, connected, alive, isStop, udp>>
  <2>1. TypeOK'
    BY <1>1, <1>2, <1>4 DEF TypeOK, Uid
  <2>2. Listed' = Listed /\ Gone' = Gone
    BY <1>2, <1>4 DEF Listed, Gone, Erased
  <2>3. Fresh' /\ Unlisted' /\ Distinct'
    BY <1>1, <1>2, <1>4, <2>2 DEF IInv, Fresh, Unlisted, Distinct, Uid
  <2>4. PlayCount'
    BY <1>2, <2>2 DEF IInv, PlayCount, Gone
  <2>5. QED
    BY <1>2, <2>1, <2>2, <2>3, <2>4 DEF IInv, StillListed, TimerInside
<1>5. QED
  BY <1>3, <1>4 DEF ConnectPeer

LEMMA Adding == ASSUME IInv, AddPeer PROVE IInv'
<1>1. TypeOK /\ m_uidSeq \in Nat /\ MaxPeer \in Nat
  BY PeersAssumption DEF IInv, TypeOK
<1>2. UNCHANGED <<m_clientUid, m_playCount, m_pushs, m_removeList, m_mutex, timer,
                  timed, pub, erased, m_lock, handling, messages,
                  connected, alive, isStop>>
  BY DEF AddPeer, NewPeer, loop
<1>3. m_uidSeq \in Uid /\ m_uidSeq < MaxPeer /\ m_uidSeq' = m_uidSeq + 1
  BY <1>1 DEF AddPeer, NewPeer, Uid
<1>4. /\ m_uidSeq \notin Listed /\ m_uidSeq \notin server
      /\ udp[m_uidSeq] = "none" /\ http # m_uidSeq
  BY <1>1, <1>3 DEF IInv, Fresh
<1>5. \/ /\ http' = m_uidSeq /\ server' = server \cup {m_uidSeq}
         /\ udp' = [udp EXCEPT ![m_uidSeq] = "run"]
      \/ UNCHANGED <<http, server, udp>>
  BY DEF AddPeer, NewPeer
<1>6. TypeOK'
  BY <1>1, <1>2, <1>3, <1>5 DEF TypeOK
<1>7. Listed' = Listed /\ Listed' \cap server' = Listed \cap server
  BY <1>2, <1>4, <1>5 DEF Listed
<1>8. Gone' = Gone
  BY <1>1, <1>4, <1>5, <1>7 DEF Gone, Erased, TypeOK
<1>9. Fresh' /\ Unlisted' /\ Distinct'
  BY <1>1, <1>2, <1>3, <1>4, <1>5, <1>7
  DEF IInv, Fresh, Unlisted, Distinct, TypeOK, Uid
<1>10. PlayCount'
  BY <1>2, <1>7, <1>8 DEF IInv, PlayCount, Gone
<1>11. QED
  BY <1>2, <1>6, <1>7, <1>9, <1>10 DEF IInv, StillListed, TimerInside

LEMMA Listing == ASSUME IInv, ListPeer PROVE IInv'
<1>1. TypeOK /\ http \in Uid /\ http \in server /\ http \notin Listed /\ m_playCount \in Int
  BY PeersAssumption DEF IInv, TypeOK, Unlisted, ListPeer
<1>2. /\ m_pushs' = Append(m_pushs, http) /\ m_playCount' = m_playCount + 1
      /\ http' = NoUid
      /\ UNCHANGED <<m_uidSeq, m_clientUid, m_removeList, m_mutex, server, connected,
                     alive, isStop, udp, timer, timed, pub, erased, m_lock, handling,
                     messages>>
  BY DEF ListPeer, peers, loop
<1>3. m_pushs' \in Seq(Uid) /\ Distinct' /\ Listed' = Listed \cup {http}
  BY <1>1, <1>2, Appended
<1>4. Listed' \cap server' = (Listed \cap server) \cup {http}
  BY <1>1, <1>2, <1>3
<1>5. Gone' = Gone
  BY <1>1, <1>2, <1>3 DEF Gone, Erased
<1>6. Cardinality(Listed' \cap server') = Cardinality(Listed \cap server) + 1
  <2>1. Listed \cap server \in SUBSET Uid
    BY <1>1, ListIn
  <2>2. QED
    BY <1>1, <1>4, <2>1, UidsFinite, FS_AddElement
<1>7. PlayCount'
  <2>1. Listed \cap server \in SUBSET Uid /\ Gone \in SUBSET Uid
    BY <1>1, ListIn DEF Gone
  <2>2. Cardinality(Listed \cap server) \in Nat /\ Cardinality(Gone) \in Nat
    BY <2>1, UidsFinite
  <2>3. m_playCount = Cardinality(Listed \cap server) - Cardinality(Gone)
    BY DEF IInv, PlayCount, Gone
  <2>4. m_playCount' = Cardinality(Listed' \cap server') - Cardinality(Gone')
    BY <1>2, <1>5, <1>6, <2>2, <2>3
  <2>5. QED
    BY <2>4 DEF PlayCount, Gone
<1>8. m_playCount' \in -MaxPeer .. MaxPeer
  <2>1. Listed' \cap server' \in SUBSET Uid /\ Gone' \in SUBSET Uid
    BY <1>1, <1>2, <1>4, <1>5, ListIn DEF Gone, TypeOK
  <2>2. QED
    BY <1>7, <2>1, CountBounded DEF PlayCount, Gone
<1>9. TypeOK'
  BY <1>1, <1>2, <1>3, <1>8 DEF TypeOK
<1>10. Fresh' /\ Unlisted'
  BY <1>1, <1>2, <1>3 DEF IInv, Fresh, Unlisted, Uid, NoUid
<1>11. QED
  BY <1>2, <1>3, <1>7, <1>9, <1>10 DEF IInv, StillListed, TimerInside

LEMMA Erasing == ASSUME IInv, Erase PROVE IInv'
<1>1. /\ TypeOK /\ m_playCount \in Int /\ MaxPeer \in Nat
      /\ erased \in Listed /\ erased \in Uid /\ udp[erased] = "ended"
  <2>1. erased \in Listed
    BY DEF IInv, StillListed, Erase
  <2>2. QED
    BY <2>1, ListIn, PeersAssumption DEF IInv, TypeOK, Erase, Joined
<1>2. /\ m_playCount' = m_playCount - 1 /\ erased' = NoUid
      /\ alive' \subseteq alive /\ isStop' \subseteq isStop
      /\ pub' \in {"drain", "signal"}
      /\ UNCHANGED <<m_uidSeq, m_clientUid, server, http, timer, timed, handling,
                     messages, m_removeList, m_mutex, connected, udp, m_lock>>
  BY DEF Erase, Uncounted, publess
<1>3. m_pushs' \in Seq(Uid) /\ Distinct' /\ Listed' = Listed \ {erased}
  <2>1. PICK n \in 1 .. Len(m_pushs) :
          m_pushs[n] = erased /\ m_pushs' = RemoveAt(m_pushs, n)
    BY DEF Erase
  <2>2. m_pushs \in Seq(Uid) /\ Listed = In(m_pushs) /\ Listed' = In(m_pushs')
    BY <1>1, ListIn DEF TypeOK, Listed, In
  <2>3. QED
    BY <2>1, <2>2, OneTaken DEF IInv, Distinct
<1>4. Listed \cap server \in SUBSET Uid /\ Gone \in SUBSET Uid
  BY <1>1, ListIn DEF Gone
<1>5. Cardinality(Listed \cap server) \in Nat /\ Cardinality(Gone) \in Nat
  BY <1>4, UidsFinite
<1>6. m_playCount = Cardinality(Listed \cap server) - Cardinality(Gone)
  BY DEF IInv, PlayCount, Gone
<1>7. m_playCount' = Cardinality(Listed' \cap server') - Cardinality(Gone')
  <2>1. CASE erased \in server
    <3>1. Listed' \cap server' = (Listed \cap server) \ {erased} /\ Gone' = Gone
      BY <1>1, <1>2, <1>3, <2>1 DEF Gone, Erased
    <3>2. Cardinality(Listed' \cap server') = Cardinality(Listed \cap server) - 1
      BY <1>1, <1>4, <2>1, <3>1, UidsFinite, FS_RemoveElement
    <3>3. QED
      BY <1>2, <1>5, <1>6, <3>1, <3>2
  <2>2. CASE erased \notin server
    <3>1. Listed' \cap server' = Listed \cap server /\ Gone' = Gone \cup {erased}
      BY <1>1, <1>2, <1>3, <2>2 DEF Gone, Erased
    <3>2. erased \notin Gone
      BY <1>1 DEF Gone, Erased
    <3>3. Cardinality(Gone') = Cardinality(Gone) + 1
      BY <1>4, <3>1, <3>2, UidsFinite, FS_AddElement
    <3>4. Cardinality(Listed' \cap server') = Cardinality(Listed \cap server)
      BY <3>1
    <3>5. QED
      BY <1>2, <1>5, <1>6, <3>3, <3>4
  <2>3. QED
    BY <2>1, <2>2
<1>8. m_playCount' \in -MaxPeer .. MaxPeer
  <2>1. Listed' \cap server' \in SUBSET Uid /\ Gone' \in SUBSET Uid
    BY <1>2, <1>3, <1>4 DEF Gone
  <2>2. QED
    BY <1>7, <2>1, CountBounded
<1>9. TypeOK'
  BY <1>1, <1>2, <1>3, <1>8 DEF TypeOK
<1>10. Fresh' /\ Unlisted'
  BY <1>2, <1>3 DEF IInv, Fresh, Unlisted
<1>11. PlayCount'
  BY <1>7 DEF PlayCount, Gone
<1>12. QED
  BY <1>2, <1>3, <1>9, <1>10, <1>11 DEF IInv, StillListed, TimerInside

-----------------------------------------------------------------------------

LEMMA Initially == Init => IInv
<1> SUFFICES ASSUME Init PROVE IInv
  OBVIOUS
<1>1. MaxPeer \in Nat /\ NoUid \notin Uid
  BY PeersAssumption DEF Uid, NoUid
<1>2. Listed = {} /\ Gone = {}
  BY DEF Init, Listed, Gone, Erased
<1>3. PlayCount
  <2>1. /\ Cardinality(Listed \cap server) = 0 /\ Cardinality(Gone) = 0
        /\ m_playCount = 0
    <3>1. Listed \cap server = {} /\ Cardinality({}) = 0
      BY <1>2, FS_EmptySet
    <3>2. QED
      BY <1>2, <3>1 DEF Init
  <2>2. m_playCount = Cardinality(Listed \cap server) - Cardinality(Gone)
    BY <2>1
  <2>3. QED
    BY <2>2 DEF PlayCount, Gone
<1>4. TypeOK
  BY <1>1 DEF Init, TypeOK
<1>5. Fresh /\ Unlisted /\ Distinct /\ StillListed /\ TimerInside
  BY <1>1, <1>2 DEF Init, Fresh, Unlisted, Distinct, StillListed, TimerInside
<1>6. QED
  BY <1>3, <1>4, <1>5 DEF IInv

LEMMA Stutter == IInv /\ UNCHANGED vars => IInv'
<1> SUFFICES ASSUME IInv, UNCHANGED vars PROVE IInv'
  OBVIOUS
<1>1. UNCHANGED <<m_uidSeq, m_clientUid, m_playCount, m_pushs, m_removeList, m_mutex,
                  server, connected, alive, isStop, udp, http, timer, timed, pub,
                  erased, m_lock, handling, messages>>
  BY DEF vars, lists, peers, loop
<1>2. TypeOK'
  BY <1>1 DEF IInv, TypeOK
<1>3. Fresh' /\ Unlisted' /\ Distinct' /\ PlayCount' /\ Listed' = Listed
  BY <1>1, ListKept
<1>4. QED
  BY <1>1, <1>2, <1>3 DEF IInv, StillListed, TimerInside

LEMMA Inductive == Spec => []IInv
<1>1. IInv /\ [Next]_vars => IInv'
  BY Peers, Timer, Others, Connecting, Adding, Listing, Erasing, Stutter
  DEF Next, PubStep
<1>2. QED
  BY <1>1, Initially, PTL DEF Spec

(* The lists of YangP2pRtc hold uids of peers, however its threads push,    *)
(* walk and erase.                                                          *)
THEOREM Typing == Spec => []TypeOK
BY Inductive, PTL DEF IInv

(* m_playCount counts the servers listed, and erasing a client, which was   *)
(* not counted, takes one away for good (erasePeer).                        *)
THEOREM Counted == Spec => []PlayCount
BY Inductive, PTL DEF IInv

-----------------------------------------------------------------------------
(* The session of a peer: RtcHandshake.                                     *)

(* Within one peer: the keys come after the handshake and before the state  *)
(* that lets media out, and the receiving thread is not free in between.    *)
KeysInOrder ==
  \A e \in Peer :
    /\ dtls[e] = "ClientDone" => srtp[e]
    /\ thread[e] # "idle" => handshake_done[e]
    /\ thread[e] = "keyed" => srtp[e]
    /\ srtp[e] => handshake_done[e]
    /\ handshake_done[e] /\ thread[e] # "done" => srtp[e]

(* Between the peers: only flight 4 ends the client's handshake, and the    *)
(* server sends it when its own is done.                                    *)
ServerFirst ==
  /\ To(Client, "4") \in net => handshake_done[Server]
  /\ handshake_done[Client] => handshake_done[Server]

HandshakeInv == HandshakeTypeOK /\ KeysInOrder /\ ServerFirst /\ MediaProtected

-----------------------------------------------------------------------------

LEMMA BothPeers ==
  /\ Client \in Peer /\ Server \in Peer /\ Client # Server
  /\ \A e \in Peer : e = Client \/ e = Server
  /\ Other(Client) = Server /\ Other(Server) = Client
BY HandshakeAssumption DEF Peer, Other

LEMMA RemainingFacts ==
  ASSUME NEW pkt, NEW rest \in Remaining(pkt)
  PROVE  rest \subseteq net
BY DEF Remaining

LEMMA HandshakeBegins == HandshakeInit => HandshakeInv
<1> SUFFICES ASSUME HandshakeInit PROVE HandshakeInv
  OBVIOUS
<1>1. HandshakeTypeOK
  <2>1. /\ net \in SUBSET Datagram
        /\ isSendDtls \in BOOLEAN
        /\ handshake_done \in [Peer -> BOOLEAN] /\ srtp \in [Peer -> BOOLEAN]
    BY Zenon DEF HandshakeInit
  <2>2. /\ state \in [Peer -> {0, 1}] /\ flight \in [Peer -> 0 .. 4]
        /\ dtls \in [Peer -> {"Init", "ClientHello", "ClientCertificate", "ClientDone"}]
        /\ thread \in [Peer -> {"idle", "done", "keyed"}]
        /\ arq \in {"none", "running", "ended"}
    BY DEF HandshakeInit
  <2>3. arq_count \in 0 .. ArqMax /\ lost \in 0 .. MaxLost /\ early \in 0 .. MaxEarly
    BY HandshakeAssumption DEF HandshakeInit
  <2> QED
    BY <2>1, <2>2, <2>3 DEF HandshakeTypeOK
<1>2. KeysInOrder /\ ServerFirst /\ MediaProtected
  BY BothPeers DEF HandshakeInit, KeysInOrder, ServerFirst, MediaProtected
<1> QED
  BY <1>1, <1>2 DEF HandshakeInv

-----------------------------------------------------------------------------
(* Types. *)

LEMMA StateTyped ==
  ASSUME HandshakeTypeOK, NEW e \in Peer, AfterDtls(e)
  PROVE  state' \in [Peer -> {0, 1}]
BY DEF HandshakeTypeOK, AfterDtls

LEMMA DatagramTyped ==
  ASSUME NEW e \in Peer,
         NEW is \in {"request", "response", "1", "2", "3", "4", "rtp"}
  PROVE  To(e, is) \in Datagram
BY DEF To, Datagram

LEMMA TypeKept == HandshakeTypeOK /\ [HandshakeNext]_handshakeVars => HandshakeTypeOK'
<1> SUFFICES ASSUME HandshakeTypeOK, [HandshakeNext]_handshakeVars PROVE HandshakeTypeOK'
  OBVIOUS
<1>p. /\ Client \in Peer /\ Server \in Peer
      /\ \A e \in Peer : Other(e) \in Peer
  BY BothPeers
<1>t. /\ net \in SUBSET Datagram
      /\ \A pkt : \A rest \in Remaining(pkt) : rest \in SUBSET Datagram
  BY DEF HandshakeTypeOK, Remaining
<1>1. CASE SendStun
  BY <1>1, <1>p, DatagramTyped DEF SendStun, HandshakeTypeOK, session
<1>2. CASE OnRequest
  BY <1>2, <1>p, <1>t, DatagramTyped DEF OnRequest, HandshakeTypeOK
<1>3. CASE OnResponse
  <2>1. CASE isSendDtls
    BY <1>3, <2>1, <1>t DEF OnResponse, HandshakeTypeOK, session
  <2>2. CASE ~isSendDtls
    BY <1>3, <2>2, <1>p, <1>t, DatagramTyped DEF OnResponse, HandshakeTypeOK
  <2> QED
    BY <2>1, <2>2
<1>4. CASE OnFlight1
  BY <1>4, <1>p, <1>t, DatagramTyped, StateTyped DEF OnFlight1, HandshakeTypeOK
<1>5. CASE OnFlight2
  BY <1>5, <1>p, <1>t, DatagramTyped, StateTyped, HandshakeAssumption DEF OnFlight2, HandshakeTypeOK
<1>6. CASE OnFlight3
  BY <1>6, <1>p, <1>t, DatagramTyped, StateTyped DEF OnFlight3, HandshakeTypeOK
<1>7. CASE OnFlight4
  BY <1>7, <1>p, <1>t, StateTyped DEF OnFlight4, HandshakeTypeOK
<1>8. ASSUME NEW e \in Peer, CreateSrtp(e) PROVE HandshakeTypeOK'
  BY <1>8 DEF CreateSrtp, HandshakeTypeOK
<1>9. ASSUME NEW e \in Peer, SetDone(e) PROVE HandshakeTypeOK'
  BY <1>9, StateTyped DEF SetDone, HandshakeTypeOK
<1>10. ASSUME NEW e \in Peer, SendMedia(e) PROVE HandshakeTypeOK'
  BY <1>10, <1>p, DatagramTyped DEF SendMedia, HandshakeTypeOK, session
<1>11. ASSUME NEW e \in Peer, OnRtp(e) PROVE HandshakeTypeOK'
  BY <1>11, <1>t DEF OnRtp, HandshakeTypeOK, session
<1>12. CASE Arq
  <2>1. To(Server, Repeated) \in Datagram
    BY <1>p, DatagramTyped DEF Repeated
  <2>2. arq_count' \in 0 .. ArqMax /\ early' \in 0 .. MaxEarly
    BY <1>12, HandshakeAssumption DEF Arq, Repeats, HandshakeTypeOK
  <2> QED
    BY <1>12, <2>1, <2>2 DEF Arq, HandshakeTypeOK, session
<1>13. CASE ArqEnd
  BY <1>13 DEF ArqEnd, HandshakeTypeOK, session
<1>14. CASE Lose
  BY <1>14, HandshakeAssumption DEF Lose, HandshakeTypeOK, session
<1>15. CASE UNCHANGED handshakeVars
  BY <1>15 DEF handshakeVars, HandshakeTypeOK, session
<1> QED
  BY <1>1, <1>2, <1>3, <1>4, <1>5, <1>6, <1>7, <1>8, <1>9, <1>10, <1>11,
     <1>12, <1>13, <1>14, <1>15 DEF HandshakeNext

-----------------------------------------------------------------------------
(* Keys. *)

(* Packets that say nothing of keys come and go freely.                     *)
LEMMA NetChange ==
  ASSUME HandshakeInv, UNCHANGED <<dtls, handshake_done, srtp, thread>>,
         \A pkt \in net' \ net : pkt.is \notin {"4", "rtp"}
  PROVE  KeysInOrder' /\ ServerFirst' /\ MediaProtected'
<1>1. KeysInOrder'
  BY DEF HandshakeInv, KeysInOrder
<1>2. ServerFirst'
  BY DEF HandshakeInv, ServerFirst, To
<1>3. MediaProtected'
  BY DEF HandshakeInv, MediaProtected, To
<1> QED
  BY <1>1, <1>2, <1>3

LEMMA KeysKept ==
  HandshakeInv /\ [HandshakeNext]_handshakeVars => KeysInOrder' /\ ServerFirst' /\ MediaProtected'
<1> SUFFICES ASSUME HandshakeInv, [HandshakeNext]_handshakeVars
             PROVE  KeysInOrder' /\ ServerFirst' /\ MediaProtected'
  OBVIOUS
<1> DEFINE Goal == KeysInOrder' /\ ServerFirst' /\ MediaProtected'
<1>t. \A pkt : \A rest \in Remaining(pkt) : rest \subseteq net
  BY DEF Remaining
<1>i. \A e, is : To(e, is).is = is
  BY DEF To
<1>1. CASE SendStun \/ OnRequest
  BY <1>1, <1>t, <1>i, NetChange DEF SendStun, OnRequest, session
<1>2. CASE OnResponse
  <2>1. CASE isSendDtls
    BY <1>2, <2>1, <1>t, <1>i, NetChange DEF OnResponse, session
  <2>2. CASE ~isSendDtls
    <3>1. \A pkt \in net' \ net : pkt.is \notin {"4", "rtp"}
      BY <1>2, <2>2, <1>t, <1>i DEF OnResponse
    <3>2. UNCHANGED <<handshake_done, srtp, thread>>
      BY <1>2, <2>2 DEF OnResponse
    <3>3. \A e \in Peer : dtls'[e] = "ClientDone" => dtls[e] = "ClientDone"
      BY <1>2, <2>2 DEF OnResponse, HandshakeInv, HandshakeTypeOK
    <3> QED
      BY <3>1, <3>2, <3>3 DEF HandshakeInv, KeysInOrder, ServerFirst, MediaProtected, To
  <2> QED
    BY <2>1, <2>2
<1>3. CASE OnFlight1
  BY <1>3, <1>t, <1>i, NetChange DEF OnFlight1
<1>4. CASE OnFlight2
  <2>1. \A pkt \in net' \ net : pkt.is \notin {"4", "rtp"}
    BY <1>4, <1>t, <1>i DEF OnFlight2
  <2>2. UNCHANGED <<handshake_done, srtp, thread>>
    BY <1>4 DEF OnFlight2
  <2>3. \A e \in Peer : dtls'[e] = "ClientDone" => dtls[e] = "ClientDone"
    BY <1>4 DEF OnFlight2, HandshakeInv, HandshakeTypeOK
  <2> QED
    BY <2>1, <2>2, <2>3 DEF HandshakeInv, KeysInOrder, ServerFirst, MediaProtected, To
<1>5. CASE OnFlight3
  <2>1. \A pkt \in net' \ net : pkt.is # "rtp"
    BY <1>5, <1>t, <1>i DEF OnFlight3
  <2>2. /\ UNCHANGED <<dtls, srtp>> /\ handshake_done'[Server] /\ thread[Server] = "idle"
        /\ \A e \in Peer : e # Server => /\ handshake_done'[e] = handshake_done[e]
                                         /\ thread'[e] = thread[e]
        /\ thread'[Server] = IF handshake_done[Server] THEN "idle" ELSE "done"
    BY <1>5, BothPeers DEF OnFlight3, HandshakeInv, HandshakeTypeOK
  <2>3. KeysInOrder'
    BY <2>2, BothPeers DEF HandshakeInv, KeysInOrder
  <2>4. ServerFirst'
    BY <2>2 DEF ServerFirst
  <2>5. MediaProtected'
    BY <2>1, <2>2 DEF HandshakeInv, MediaProtected, To
  <2> QED
    BY <2>3, <2>4, <2>5
<1>6. CASE OnFlight4
  <2>1. net' \subseteq net /\ To(Client, "4") \in net
    BY <1>6, <1>t DEF OnFlight4
  <2>2. /\ UNCHANGED <<dtls, srtp>> /\ thread[Client] = "idle"
        /\ handshake_done'[Client] /\ handshake_done'[Server] = handshake_done[Server]
        /\ thread'[Server] = thread[Server]
        /\ thread'[Client] = IF handshake_done[Client] THEN "idle" ELSE "done"
    BY <1>6, BothPeers DEF OnFlight4, HandshakeInv, HandshakeTypeOK
  <2>3. KeysInOrder'
    BY <2>2, BothPeers DEF HandshakeInv, KeysInOrder
  <2>4. ServerFirst'
    BY <2>1, <2>2 DEF HandshakeInv, ServerFirst
  <2>5. MediaProtected'
    BY <2>1, <2>2 DEF HandshakeInv, MediaProtected
  <2> QED
    BY <2>3, <2>4, <2>5
<1>7. ASSUME NEW e \in Peer, CreateSrtp(e) PROVE Goal
  <2>1. /\ UNCHANGED <<net, dtls, handshake_done>> /\ thread[e] = "done"
        /\ srtp'[e] /\ thread'[e] = "keyed"
        /\ \A x \in Peer : x # e => srtp'[x] = srtp[x] /\ thread'[x] = thread[x]
    BY <1>7 DEF CreateSrtp, HandshakeInv, HandshakeTypeOK
  <2>2. KeysInOrder'
    BY <2>1 DEF HandshakeInv, KeysInOrder
  <2>3. ServerFirst'
    BY <2>1 DEF HandshakeInv, ServerFirst
  <2>4. MediaProtected'
    BY <2>1 DEF HandshakeInv, MediaProtected
  <2> QED
    BY <2>2, <2>3, <2>4
<1>8. ASSUME NEW e \in Peer, SetDone(e) PROVE Goal
  <2>1. /\ UNCHANGED <<net, srtp, handshake_done>> /\ thread[e] = "keyed"
        /\ thread'[e] = "idle"
        /\ \A x \in Peer : x # e => dtls'[x] = dtls[x] /\ thread'[x] = thread[x]
    BY <1>8 DEF SetDone, HandshakeInv, HandshakeTypeOK
  <2>2. KeysInOrder'
    BY <2>1 DEF HandshakeInv, KeysInOrder
  <2>3. ServerFirst' /\ MediaProtected'
    BY <2>1 DEF HandshakeInv, ServerFirst, MediaProtected
  <2> QED
    BY <2>2, <2>3
<1>9. ASSUME NEW e \in Peer, SendMedia(e) PROVE Goal
  <2>1. /\ UNCHANGED <<dtls, srtp, handshake_done, thread>> /\ srtp[e]
        /\ net' = net \cup {To(Other(e), "rtp")}
    BY <1>9 DEF SendMedia, session, HandshakeInv, KeysInOrder
  <2>2. KeysInOrder'
    BY <2>1 DEF HandshakeInv, KeysInOrder
  <2>3. ServerFirst'
    BY <2>1 DEF HandshakeInv, ServerFirst, To
  <2>4. MediaProtected'
    <3> SUFFICES ASSUME NEW x \in Peer, To(Other(x), "rtp") \in net' PROVE srtp'[x]
      BY DEF MediaProtected
    <3>1. CASE To(Other(x), "rtp") \in net
      BY <3>1, <2>1 DEF HandshakeInv, MediaProtected
    <3>2. CASE Other(x) = Other(e)
      BY <3>2, <2>1, BothPeers
    <3> QED
      BY <3>1, <3>2, <2>1 DEF To
  <2> QED
    BY <2>2, <2>3, <2>4
<1>10. ASSUME NEW e \in Peer, OnRtp(e) PROVE Goal
  BY <1>10, <1>t, NetChange DEF OnRtp, session
<1>11. CASE Arq
  <2>1. Repeated \notin {"4", "rtp"}
    BY DEF Repeated
  <2> QED
    BY <1>11, <2>1, <1>i, NetChange DEF Arq, session
<1>12. CASE ArqEnd \/ Lose
  BY <1>12, NetChange DEF ArqEnd, Lose, session
<1>13. CASE UNCHANGED handshakeVars
  BY <1>13, NetChange DEF handshakeVars, session
<1> QED
  BY <1>1, <1>2, <1>3, <1>4, <1>5, <1>6, <1>7, <1>8, <1>9, <1>10, <1>11,
     <1>12, <1>13 DEF HandshakeNext

-----------------------------------------------------------------------------

(* HandshakeInv is inductive and holds of every behaviour of the two        *)
(* sessions.                                                                *)
THEOREM HandshakeInductive == HandshakeSpec => []HandshakeInv
<1>1. HandshakeInv /\ [HandshakeNext]_handshakeVars => HandshakeInv'
  BY TypeKept, KeysKept DEF HandshakeInv
<1> QED
  BY HandshakeBegins, <1>1, PTL DEF HandshakeSpec

(* The ARQ thread repeats at most ArqMax flights, and nothing else leaves   *)
(* its type.                                                                *)
THEOREM HandshakeTyping == HandshakeSpec => []HandshakeTypeOK
<1>1. HandshakeInv => HandshakeTypeOK
  BY DEF HandshakeInv
<1> QED
  BY HandshakeInductive, <1>1, PTL

(* The application's threads never send media without keys.                 *)
THEOREM Protected == HandshakeSpec => []MediaProtected
<1>1. HandshakeInv => MediaProtected
  BY DEF HandshakeInv
<1> QED
  BY HandshakeInductive, <1>1, PTL

(* Media of the client never reaches a server without keys: its handshake   *)
(* ended first, and its receiving thread takes no packet in between.        *)
THEOREM Understood == HandshakeSpec => []MediaUnderstood
<1>1. HandshakeInv => MediaUnderstood
  BY BothPeers DEF HandshakeInv, KeysInOrder, ServerFirst, MediaProtected, MediaUnderstood
<1> QED
  BY HandshakeInductive, <1>1, PTL

=============================================================================
