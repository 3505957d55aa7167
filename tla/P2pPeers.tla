------------------------------ MODULE P2pPeers ------------------------------
(***************************************************************************)
(* The peers of YangP2pRtc and the threads that share them: the handler of *)
(* system messages, which connects to another peer and disconnects; the    *)
(* threads of the HTTP server, which add peers; the timer that looks for   *)
(* silent peers; the receiving thread of every peer, which may be told by  *)
(* a DTLS alert that the other side is gone; and the publishing thread,    *)
(* the only one that erases peers.  All but the last only put the peer's   *)
(* uid into m_removeList, under m_mutex.                                   *)
(*                                                                         *)
(* An operation on a vector is one step.  Of the message loop (SysMessage) *)
(* only m_lock is seen here: the loop holds it while it handles a message, *)
(* and a thread that posts may have to take it.                            *)
(***************************************************************************)
EXTENDS Integers, FiniteSets, Sequences, SequencesExt

CONSTANT MaxPeer        \* bound: uids given out
ASSUME PeersAssumption == MaxPeer \in Nat

Free == "free"          \* a lock nobody holds
Sys  == "sys"
Pub  == "pub"

Uid   == 0 .. MaxPeer - 1
NoUid == -1

VARIABLES
  m_uidSeq, m_clientUid, m_playCount,
  m_pushs,              \* the uids of the listed peers
  m_removeList, m_mutex,
  server,               \* the peers that are servers, ...
  connected, alive,     \* ... have a connected session, sent lately, ...
  isStop,               \* ... were told that the other side is gone
  udp,                  \* the receiving thread of each peer
  http,                 \* the peer a thread of the HTTP server adds
  timer, timed,         \* the timer's place in m_pushs, the uid it removes
  pub, erased,          \* where the publishing thread is, and with which peer
  m_lock, handling,     \* the message the loop handles
  messages              \* bound: those the user interface may still post

peers == <<server, connected, alive, isStop, udp>>
lists == <<m_uidSeq, m_clientUid, m_playCount, m_pushs, m_removeList, m_mutex>>
loop  == <<m_lock, handling, messages>>
vars  == <<lists, peers, http, timer, timed, pub, erased, loop>>

Listed == {m_pushs[i] : i \in 1 .. Len(m_pushs)}

Init ==
  /\ m_uidSeq = 0 /\ m_clientUid = NoUid /\ m_playCount = 0
  /\ m_pushs = <<>> /\ m_removeList = <<>> /\ m_mutex = Free
  /\ server = {} /\ connected = {} /\ alive = {} /\ isStop = {}
  /\ udp = [u \in Uid |-> "none"]
  /\ http = NoUid /\ timer = 0 /\ timed = NoUid
  /\ pub = "top" /\ erased = NoUid
  /\ m_lock = Free /\ handling = "none" /\ messages = {"Connect", "Disconnect"}

-----------------------------------------------------------------------------
(* addPeer, removePeer and the handler of messages. *)

(* A session is made for the next uid, and its thread started.              *)
NewPeer ==
  /\ m_uidSeq < MaxPeer
  /\ m_uidSeq' = m_uidSeq + 1
  /\ udp' = [udp EXCEPT ![m_uidSeq] = "run"]
  /\ UNCHANGED <<connected, alive, isStop>>

RemoveKeepsLock(uid) ==
  /\ m_mutex = Free /\ m_mutex' = Sys
  /\ m_removeList' = Append(m_removeList, uid)
  /\ UNCHANGED <<m_playCount, m_pushs, m_uidSeq>>

RemovePeer(uid) ==
  /\ m_mutex = Free
  /\ m_removeList' = Append(m_removeList, uid)
  /\ UNCHANGED <<m_playCount, m_pushs, m_mutex, m_uidSeq>>

(* The loop of SysMessage takes a message, and is done with it.             *)
Handle(message) ==
  /\ m_lock = Free
  /\ m_lock' = Sys /\ handling' = message /\ messages' = messages \ {message}
  /\ UNCHANGED <<lists, peers, http, timer, timed, pub, erased>>
Handled ==
  /\ m_lock' = Free /\ handling' = "none"
  /\ UNCHANGED <<messages, http, timer, timed, pub, erased>>

(* connectPeer, of a client: it fails before the session's thread runs, or  *)
(* the peer is listed.                                                      *)
ConnectPeer ==
  /\ handling = "Connect" /\ Handled
  /\ \/ NewPeer /\ m_pushs' = Append(m_pushs, m_uidSeq) /\ m_clientUid' = m_uidSeq
     \/ /\ m_uidSeq < MaxPeer /\ m_uidSeq' = m_uidSeq + 1 /\ m_clientUid' = m_uidSeq
        /\ UNCHANGED <<m_pushs, connected, alive, isStop, udp>>
     \/ /\ m_uidSeq = MaxPeer                  \* the bound
        /\ UNCHANGED <<m_uidSeq, m_clientUid, m_pushs, connected, alive, isStop, udp>>
  /\ UNCHANGED <<m_playCount, m_removeList, m_mutex, server>>

DisconnectPeer ==
  /\ handling = "Disconnect" /\ Handled
  /\ RemovePeer(m_clientUid) /\ m_clientUid' = NoUid
  /\ UNCHANGED peers

(* addPeer, of a server: it fails, or the session's thread runs before the  *)
(* peer is listed.                                                          *)
AddPeer ==
  /\ http = NoUid
  /\ \/ /\ NewPeer
        /\ http' = m_uidSeq /\ server' = server \cup {m_uidSeq}
     \/ /\ m_uidSeq < MaxPeer /\ m_uidSeq' = m_uidSeq + 1
        /\ UNCHANGED <<http, server, connected, alive, isStop, udp>>
  /\ UNCHANGED <<m_clientUid, m_playCount, m_pushs, m_removeList, m_mutex,
                 timer, timed, pub, erased, loop>>
ListPeer ==
  /\ http # NoUid
  /\ m_pushs' = Append(m_pushs, http)
  /\ m_playCount' = m_playCount + 1
  /\ http' = NoUid
  /\ UNCHANGED <<m_uidSeq, m_clientUid, m_removeList, m_mutex, peers, timer,
                 timed, pub, erased, loop>>

-----------------------------------------------------------------------------
(* The receiving threads. *)

others == <<m_uidSeq, m_clientUid, m_playCount, m_pushs, http, timer, timed, pub,
            erased, loop>>

(* A packet of a session that is connected, or that it connects; a session  *)
(* that is being destroyed drops it.  One that does not connect is not      *)
(* looked for: alive is asked only of connected peers.                      *)
Packet(u) ==
  /\ udp[u] = "run" /\ ~(pub = "join" /\ erased = u)
  /\ alive' = alive \cup {u} /\ connected' = connected \cup {u}
  /\ UNCHANGED <<others, m_removeList, m_mutex, server, isStop, udp>>

(* The other side's alert, read once: a server's callback removes the peer, *)
(* and only then the session is marked.                                     *)
Alert(u) ==
  /\ udp[u] = "run" /\ u \in connected \ isStop
  /\ alive' = alive \cup {u}
  /\ IF u \in server THEN udp' = [udp EXCEPT ![u] = "alert"] /\ UNCHANGED isStop
     ELSE isStop' = isStop \cup {u} /\ UNCHANGED udp
  /\ UNCHANGED <<others, m_removeList, m_mutex, server, connected>>
AlertRemoves(u) ==
  /\ udp[u] = "alert" /\ RemovePeer(u)
  /\ udp' = [udp EXCEPT ![u] = "removed"]
  /\ UNCHANGED <<m_clientUid, http, timer, timed, pub, erased, loop,
                 server, connected, alive, isStop>>
AlertStops(u) ==
  /\ udp[u] = "removed"
  /\ isStop' = isStop \cup {u}
  /\ udp' = [udp EXCEPT ![u] = "run"]
  /\ UNCHANGED <<others, m_removeList, m_mutex, server, connected, alive>>

(* Nothing was heard for the session's timeout.                             *)
Silence(u) ==
  /\ u \in alive
  /\ alive' = alive \ {u}
  /\ UNCHANGED <<others, m_removeList, m_mutex, server, connected, isStop, udp>>

(* The session's isLoop was cleared by the thread that destroys it.         *)
LeaveLoop(u) ==
  /\ udp[u] = "run" /\ pub = "join" /\ erased = u
  /\ udp' = [udp EXCEPT ![u] = "ended"]
  /\ UNCHANGED <<others, m_removeList, m_mutex, server, connected, alive, isStop>>

UdpStepBlocked(u) == AlertRemoves(u) \/ AlertStops(u)
UdpStep(u) == AlertRemoves(u) \/ AlertStops(u) \/ LeaveLoop(u)

-----------------------------------------------------------------------------
(* The timer: checkAlive. *)

timerless == <<m_uidSeq, m_clientUid, m_playCount, m_pushs, m_mutex, peers, http, pub,
               erased, loop>>

Second == 2
First  == 1
CheckAlive ==
  /\ timer = 0 /\ m_removeList = <<>> /\ m_pushs # <<>>
  /\ timer' = First
  /\ UNCHANGED <<timerless, m_removeList, timed>>
CheckOne ==
  /\ timer > 0 /\ timed = NoUid
  /\ IF timer > Len(m_pushs) THEN timer' = 0 /\ UNCHANGED timed
     ELSE IF m_pushs[timer] \in connected \ alive
          THEN timed' = m_pushs[timer] /\ UNCHANGED timer
          ELSE timer' = timer + 1 /\ UNCHANGED timed
  /\ UNCHANGED <<timerless, m_removeList>>
RemoveTimed ==
  /\ timed # NoUid
  /\ RemovePeer(timed)
  /\ timed' = NoUid /\ timer' = timer + 1
  /\ UNCHANGED <<m_clientUid, peers, http, pub, erased, loop>>

TimerStep == CheckAlive \/ CheckOne \/ RemoveTimed

-----------------------------------------------------------------------------
(* The publishing thread: startLoop, removeStream, erasePeer. *)

publess == <<m_uidSeq, m_clientUid, server, http, timer, timed, handling, messages>>

(* m_removeList is looked at before m_mutex is taken, and only this thread  *)
(* takes from it.                                                           *)
LockRemoved ==
  /\ pub = "top" /\ m_pushs # <<>> /\ m_removeList # <<>>
  /\ m_mutex = Free
  /\ pub' = "drain" /\ m_mutex' = Pub
  /\ UNCHANGED <<publess, m_playCount, m_pushs, m_removeList, connected, alive,
                 isStop, udp, erased, m_lock>>
UnlockRemoved ==
  /\ pub = "drain" /\ m_removeList = <<>>
  /\ pub' = "top" /\ m_mutex' = Free
  /\ UNCHANGED <<publess, m_playCount, m_pushs, m_removeList, connected, alive,
                 isStop, udp, erased, m_lock>>

(* Destroying a connected peer closes it; closing one that is alive and was *)
(* not told of the other side's end sends an alert, and the callback of a   *)
(* server's alert waits for m_mutex.                                        *)
AlertsItself(u) == u \in (connected \cap alive \cap server) \ isStop
EraseNext ==
  /\ pub = "drain" /\ m_removeList # <<>>
  /\ m_removeList' = Tail(m_removeList)
  /\ LET u == Head(m_removeList) IN
     IF u \notin Listed THEN UNCHANGED <<pub, erased, connected>>
     ELSE /\ erased' = u
          /\ IF AlertsItself(u) THEN pub' = "alert" /\ UNCHANGED connected
             ELSE pub' = "join" /\ connected' = connected \ {u}
  /\ UNCHANGED <<publess, m_playCount, m_pushs, m_mutex, alive, isStop, udp, m_lock>>

UncountedServer == IF erased \in server THEN m_playCount - 1 ELSE m_playCount
Uncounted == m_playCount - 1
Joined == udp[erased] = "ended"
Erase ==
  /\ pub = "join" /\ Joined
  /\ \E i \in 1 .. Len(m_pushs) : m_pushs[i] = erased /\ m_pushs' = RemoveAt(m_pushs, i)
  /\ m_playCount' = Uncounted
  /\ alive' = alive \ {erased} /\ isStop' = isStop \ {erased}
  /\ erased' = NoUid
  /\ pub' \in IF m_playCount' < 1 /\ m_lock = Free THEN {"drain", "signal"}
             ELSE {"drain"}
  /\ UNCHANGED <<publess, m_removeList, m_mutex, connected, udp, m_lock>>

(* Play_Stop was posted, and the loop was seen waiting: it is not while it  *)
(* handles a message, but may have started to since.                        *)
SignalStop ==
  /\ pub = "signal" /\ m_lock = Free
  /\ pub' = "drain"
  /\ UNCHANGED <<publess, m_playCount, m_pushs, m_removeList, m_mutex, connected,
                 alive, isStop, udp, erased, m_lock>>

PubStep == LockRemoved \/ UnlockRemoved \/ EraseNext \/ Erase \/ SignalStop

-----------------------------------------------------------------------------

Next ==
  \/ \E message \in messages : Handle(message)
  \/ ConnectPeer \/ DisconnectPeer \/ AddPeer \/ ListPeer \/ TimerStep \/ PubStep
  \/ \E u \in Uid : Packet(u) \/ Alert(u) \/ UdpStep(u) \/ Silence(u)

Spec == Init /\ [][Next]_vars

(* The scheduler runs every thread, the camera and the microphone keep      *)
(* giving the publishing thread something to do, and the timer expires      *)
(* again and again.  Packets and the user's wishes come or do not.          *)
Fairness ==
  /\ WF_vars(ListPeer) /\ WF_vars(ConnectPeer \/ DisconnectPeer)
  /\ WF_vars(TimerStep) /\ WF_vars(PubStep)
  /\ \A u \in Uid : WF_vars(UdpStep(u))
FairSpec == Spec /\ Fairness

-----------------------------------------------------------------------------

TypeOK ==
  /\ m_uidSeq \in 0 .. MaxPeer /\ m_clientUid \in Uid \cup {NoUid}
  /\ m_playCount \in -MaxPeer .. MaxPeer
  /\ m_pushs \in Seq(Uid) /\ m_removeList \in Seq(Uid \cup {NoUid})
  /\ m_mutex \in {Free, Pub} /\ m_lock \in {Free, Sys}
  /\ \A set \in {server, connected, alive, isStop} : set \subseteq Uid
  /\ udp \in [Uid -> {"none", "run", "alert", "removed", "ended"}]
  /\ http \in Uid \cup {NoUid} /\ timer \in 0 .. MaxPeer + 1
  /\ timed \in Uid \cup {NoUid}
  /\ pub \in {"top", "drain", "alert", "join", "signal"}
  /\ erased \in Uid \cup {NoUid}
  /\ handling \in {"none", "Connect", "Disconnect"} /\ messages \subseteq {"Connect", "Disconnect"}

(* m_playCount counts the servers that are listed, less the clients that    *)
(* were erased: connecting a client does not count it and erasing does.     *)
Erased(u) == udp[u] = "ended" /\ u \notin Listed
PlayCount ==
  m_playCount = Cardinality(Listed \cap server)
                  - Cardinality({u \in Uid \ server : Erased(u)})

(* The ways in which the threads wait for each other for good: destroying   *)
(* a peer under m_mutex sends an alert, whose callback takes m_mutex again; *)
(* or it waits for the receiving thread, which waits for m_mutex in the     *)
(* callback of an alert; or the publishing thread posts under m_mutex and   *)
(* waits for m_lock, which the message loop holds while its handler waits   *)
(* for m_mutex.                                                             *)
SelfAlert == pub = "alert"
UdpWaits  == pub = "join" /\ udp[erased] = "alert"
Inversion == pub = "signal" /\ handling = "Disconnect"
Stuck == SelfAlert \/ UdpWaits \/ Inversion

(* There is no other: m_mutex is released whenever it was taken.            *)
RemovalEnds == m_mutex = Pub ~> (m_mutex = Free \/ Stuck)

(* A listed peer is erased once it was asked to be removed, alive or not,   *)
(* and so is a connected peer that is silent for good.                      *)
PeersGo ==
  \A u \in Uid :
    /\ (u \in Listed /\ u \in Range(m_removeList)) ~> (u \notin Listed \/ Stuck)
    /\ (u \in Listed /\ u \in connected \ alive)
         ~> (u \notin Listed \/ u \in alive \/ Stuck)
=============================================================================
