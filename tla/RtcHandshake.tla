---------------------------- MODULE RtcHandshake ----------------------------
(***************************************************************************)
(* Two sessions of YangRtcConnection, one that offers (the DTLS client)    *)
(* and one that answers, from the first STUN request to protected media,   *)
(* over UDP that loses, repeats and reorders packets.                      *)
(*                                                                         *)
(* Each session has a receiving thread (YangRtcUdp), which runs one packet *)
(* through yang_rtcconn_receive at a time, and an application thread that  *)
(* sends media.  The client also has the timer that repeats STUN requests  *)
(* and, once the handshake began, the thread that repeats its last flight  *)
(* (yang_run_rtcdtls_app).  Closing a session is not modelled here.        *)
(***************************************************************************)
EXTENDS Naturals, FiniteSets

CONSTANTS
  Client, Server,
  ArqMax,      \* how often the ARQ thread repeats a flight before it ends
  MaxLost,     \* bound: packets lost
  MaxEarly     \* bound: repetitions while the answer is still on its way

ASSUME HandshakeAssumption ==
  Client # Server /\ {ArqMax, MaxLost, MaxEarly} \subseteq Nat

Peer == {Client, Server}
Other(e) == IF e = Client THEN Server ELSE Client

VARIABLES
  net,          \* the packets under way
  state,        \* session->context.state: 1 when connected
  isSendDtls,   \* the client: STUN was answered and the handshake started
  dtls,         \* dtls->state
  flight,       \* OpenSSL: the last flight of the handshake it produced
  handshake_done,
  srtp,         \* the SRTP contexts exist
  thread,       \* the receiving thread: "idle", or inside doHandshake with the
                \* handshake "done", or with the SRTP contexts "keyed"
  arq,          \* the ARQ thread: "none", "running" or "ended"
  arq_count,
  lost, early   \* history: how much of the bounds is used

session == <<state, isSendDtls, dtls, flight, handshake_done, srtp, thread>>
handshakeVars == <<net, session, arq, arq_count, lost, early>>

Datagram ==
  [to : Peer,
   is : {"request", "response",            \* STUN
         "1", "2", "3", "4",               \* flights of the handshake
         "rtp"}]

To(e, is) == [to |-> e, is |-> is]

(* A packet is handled once, or was sent twice by the network.              *)
Remaining(pkt) == {net, net \ {pkt}}

HandshakeInit ==
  /\ net = {} /\ state = [e \in Peer |-> 0] /\ isSendDtls = FALSE
  /\ dtls = [e \in Peer |-> "Init"] /\ flight = [e \in Peer |-> 0]
  /\ handshake_done = [e \in Peer |-> FALSE] /\ srtp = [e \in Peer |-> FALSE]
  /\ thread = [e \in Peer |-> "idle"]
  /\ arq = "none" /\ arq_count = 0 /\ lost = 0 /\ early = 0

-----------------------------------------------------------------------------
(* STUN. *)

(* g_yang_doTask of the 1 s timer, which the client's receiving thread      *)
(* starts before its loop and nothing stops.                                *)
SendStun ==
  /\ net' = net \cup {To(Server, "request")}
  /\ UNCHANGED <<session, arq, arq_count, lost, early>>

(* A STUN request is answered, and is enough for the server to be connected.*)
OnRequest ==
  LET pkt == To(Server, "request") IN
  /\ pkt \in net /\ thread[Server] = "idle"
  /\ \E rest \in Remaining(pkt) : net' = rest \cup {To(Client, "response")}
  /\ state' = [state EXCEPT ![Server] = 1]
  /\ UNCHANGED <<isSendDtls, dtls, flight, handshake_done, srtp, thread,
                 arq, arq_count, lost, early>>

(* The first answer starts the handshake and the ARQ thread.                *)
OnResponse ==
  LET pkt == To(Client, "response") IN
  /\ pkt \in net /\ thread[Client] = "idle"
  /\ IF isSendDtls
     THEN net' \in Remaining(pkt) /\ UNCHANGED <<session, arq>>
     ELSE /\ \E rest \in Remaining(pkt) : net' = rest \cup {To(Server, "1")}
          /\ isSendDtls' = TRUE
          /\ flight' = [flight EXCEPT ![Client] = 1]
          /\ dtls' = [dtls EXCEPT ![Client] = "ClientHello"]
          /\ arq' = "running"
          /\ UNCHANGED <<state, handshake_done, srtp, thread>>
  /\ UNCHANGED <<arq_count, lost, early>>

-----------------------------------------------------------------------------
(* The handshake, in the receiving threads. *)

(* What follows processData in yang_rtcconn_receive: a server that is not   *)
(* connected is so when its handshake is done; in every other case the code *)
(* falls through to client_sucess, which connects and notifies.             *)
Connects(e) == e = Client \/ state[e] = 1 \/ handshake_done'[e]

AfterDtlsCounting(e) ==
  state' = IF Connects(e) THEN [state EXCEPT ![e] = @ + 1] ELSE state

AfterDtls(e) == state' = IF Connects(e) THEN [state EXCEPT ![e] = 1] ELSE state

(* The server answers flight 1; when the flight comes again, OpenSSL sends  *)
(* the answer again, as the client waited longer than the server's timer.   *)
OnFlight1 ==
  LET pkt == To(Server, "1") IN
  /\ pkt \in net /\ thread[Server] = "idle"
  /\ IF handshake_done[Server]
     THEN net' \in Remaining(pkt) /\ UNCHANGED flight
     ELSE /\ \E rest \in Remaining(pkt) : net' = rest \cup {To(Client, "2")}
          /\ flight' = [flight EXCEPT ![Server] = 2]
  /\ UNCHANGED <<isSendDtls, dtls, handshake_done, srtp, thread, arq, arq_count, lost,
                 early>>
  /\ AfterDtls(Server)

(* The client answers flight 2 once.  yang_filter_data finds the            *)
(* certificate in the flight and moves on; but the ARQ thread shares the    *)
(* output buffer without a lock, and may reset it before it is sent.        *)
OnFlight2 ==
  LET pkt == To(Client, "2") IN
  /\ pkt \in net /\ thread[Client] = "idle"
  /\ \/ /\ flight[Client] # 1
        /\ net' \in Remaining(pkt) /\ UNCHANGED <<flight, dtls, lost>>
     \/ /\ flight[Client] = 1
        /\ flight' = [flight EXCEPT ![Client] = 3]
        /\ dtls' = [dtls EXCEPT ![Client] = "ClientCertificate"]
        /\ \E rest \in Remaining(pkt) : net' = rest \cup {To(Server, "3")}
        /\ UNCHANGED lost
     \/ /\ flight[Client] = 1 /\ arq = "running" /\ lost < MaxLost
        /\ flight' = [flight EXCEPT ![Client] = 3]
        /\ net' \in Remaining(pkt) /\ lost' = lost + 1
        /\ UNCHANGED dtls
  /\ UNCHANGED <<isSendDtls, handshake_done, srtp, thread, arq, arq_count, early>>
  /\ AfterDtls(Client)

(* The server is done and sends flight 4, in doHandshake before it has      *)
(* keys.  When flight 3 comes again it is SSL_read that makes OpenSSL send  *)
(* flight 4 again, from the loop of yang_process_dtls_data.                 *)
OnFlight3 ==
  LET pkt == To(Server, "3") IN
  /\ pkt \in net /\ thread[Server] = "idle"
  /\ \E rest \in Remaining(pkt) : net' = rest \cup {To(Client, "4")}
  /\ flight' = [flight EXCEPT ![Server] = 4]
  /\ handshake_done' = [handshake_done EXCEPT ![Server] = TRUE]
  /\ IF handshake_done[Server]
     THEN AfterDtls(Server) /\ UNCHANGED thread
     ELSE thread' = [thread EXCEPT ![Server] = "done"] /\ UNCHANGED state
  /\ UNCHANGED <<isSendDtls, dtls, srtp, arq, arq_count, lost, early>>

OnFlight4 ==
  LET pkt == To(Client, "4") IN
  /\ pkt \in net /\ thread[Client] = "idle"
  /\ net' \in Remaining(pkt)
  /\ handshake_done' = [handshake_done EXCEPT ![Client] = TRUE]
  /\ IF handshake_done[Client]
     THEN AfterDtls(Client) /\ UNCHANGED thread
     ELSE thread' = [thread EXCEPT ![Client] = "done"] /\ UNCHANGED state
  /\ UNCHANGED <<isSendDtls, dtls, flight, srtp, arq, arq_count, lost, early>>

CreateSrtpAfterState(e) ==
  /\ thread[e] = "done"
  /\ dtls' = [dtls EXCEPT ![e] = "ClientDone"]
  /\ thread' = [thread EXCEPT ![e] = "keyed"]
  /\ UNCHANGED <<net, state, isSendDtls, srtp, flight, handshake_done,
                 arq, arq_count, lost, early>>

CreateSrtpUntested(e) ==
  /\ thread[e] = "done"
  /\ srtp' \in {srtp, [srtp EXCEPT ![e] = TRUE]}
  /\ thread' = [thread EXCEPT ![e] = "keyed"]
  /\ UNCHANGED <<net, state, isSendDtls, dtls, flight, handshake_done,
                 arq, arq_count, lost, early>>

(* yang_on_handshake_done: first the SRTP contexts, then the state that the *)
(* application's threads look at; then what follows processData.            *)
CreateSrtp(e) ==
  /\ thread[e] = "done"
  /\ srtp' = [srtp EXCEPT ![e] = TRUE]
  /\ thread' = [thread EXCEPT ![e] = "keyed"]
  /\ UNCHANGED <<net, state, isSendDtls, dtls, flight, handshake_done,
                 arq, arq_count, lost, early>>

SetDone(e) ==
  /\ thread[e] = "keyed"
  /\ dtls' = [dtls EXCEPT ![e] = "ClientDone"]
  /\ thread' = [thread EXCEPT ![e] = "idle"]
  /\ UNCHANGED <<net, isSendDtls, flight, handshake_done, srtp,
                 arq, arq_count, lost, early>>
  /\ AfterDtls(e)

-----------------------------------------------------------------------------
(* The ARQ thread. *)

RepeatsHello ==
  /\ ~handshake_done[Client]
  /\ dtls[Client] = "ClientHello"
  /\ arq_count < ArqMax

(* Its loop goes on while the handshake is neither done nor in a state      *)
(* without a flight of the client to repeat, and for so many repetitions:   *)
(* ArqMax stands for arq_max_retry and for max_loop, whichever ends it.     *)
Repeats ==
  /\ ~handshake_done[Client]
  /\ dtls[Client] \in {"ClientHello", "ClientCertificate"}
  /\ arq_count < ArqMax

Repeated == IF flight[Client] = 1 THEN "1" ELSE "3"

(* The packets that may still bring the answer to the last flight.          *)
Answering ==
  IF flight[Client] = 1 THEN {To(Server, "1"), To(Client, "2")}
  ELSE {To(Server, "3"), To(Client, "4")}

(* A timeout: OpenSSL produces the client's last flight again.  Its timers  *)
(* are longer than an answer takes, but for MaxEarly times.                 *)
Arq ==
  /\ arq = "running" /\ Repeats
  /\ net' = net \cup {To(Server, Repeated)}
  /\ arq_count' = arq_count + 1
  /\ \/ net \cap Answering = {} /\ UNCHANGED early
     \/ net \cap Answering # {} /\ early < MaxEarly /\ early' = early + 1
  /\ UNCHANGED <<session, arq, lost>>

ArqEnd ==
  /\ arq = "running" /\ ~Repeats
  /\ arq' = "ended"
  /\ UNCHANGED <<net, session, arq_count, lost, early>>

-----------------------------------------------------------------------------
(* Media. *)

(* yang_rtcconn_onVideo and onAudio, on the application's thread.           *)
SendMedia(e) ==
  /\ dtls[e] = "ClientDone"
  /\ net' = net \cup {To(Other(e), "rtp")}
  /\ UNCHANGED <<session, arq, arq_count, lost, early>>

(* on_rtp: played, or dropped by yang_dec_rtp while there are no keys.      *)
OnRtp(e) ==
  /\ To(e, "rtp") \in net /\ thread[e] = "idle"
  /\ net' \in Remaining(To(e, "rtp"))
  /\ UNCHANGED <<session, arq, arq_count, lost, early>>

Lose ==
  /\ lost < MaxLost
  /\ \E pkt \in net : net' = net \ {pkt}
  /\ lost' = lost + 1
  /\ UNCHANGED <<session, arq, arq_count, early>>

HandshakeNext ==
  \/ SendStun \/ OnRequest \/ OnResponse
  \/ OnFlight1 \/ OnFlight2 \/ OnFlight3 \/ OnFlight4
  \/ \E e \in Peer : CreateSrtp(e) \/ SetDone(e) \/ SendMedia(e) \/ OnRtp(e)
  \/ Arq \/ ArqEnd
  \/ Lose

(* The threads run; a packet that is not lost arrives.                      *)
HandshakeFairness ==
  /\ WF_handshakeVars(SendStun) /\ WF_handshakeVars(Arq) /\ WF_handshakeVars(ArqEnd)
  /\ SF_handshakeVars(OnRequest) /\ SF_handshakeVars(OnResponse)
  /\ SF_handshakeVars(OnFlight1) /\ SF_handshakeVars(OnFlight2)
  /\ SF_handshakeVars(OnFlight3) /\ SF_handshakeVars(OnFlight4)
  /\ \A e \in Peer : WF_handshakeVars(CreateSrtp(e)) /\ WF_handshakeVars(SetDone(e))

HandshakeSpec == HandshakeInit /\ [][HandshakeNext]_handshakeVars /\ HandshakeFairness

-----------------------------------------------------------------------------
(* Properties. *)

HandshakeTypeOK ==
  /\ net \in SUBSET Datagram
  /\ state \in [Peer -> {0, 1}] /\ isSendDtls \in BOOLEAN
  /\ dtls \in [Peer -> {"Init", "ClientHello", "ClientCertificate", "ClientDone"}]
  /\ flight \in [Peer -> 0 .. 4]
  /\ handshake_done \in [Peer -> BOOLEAN] /\ srtp \in [Peer -> BOOLEAN]
  /\ thread \in [Peer -> {"idle", "done", "keyed"}]
  /\ arq \in {"none", "running", "ended"} /\ arq_count \in 0 .. ArqMax
  /\ lost \in 0 .. MaxLost /\ early \in 0 .. MaxEarly

(* The application's thread sends media as soon as it sees ClientDone,      *)
(* while the receiving thread still runs: the keys are there by then.       *)
MediaProtected == \A e \in Peer : To(Other(e), "rtp") \in net => srtp[e]

(* What the client sends is understood: whenever the server's thread is     *)
(* free to take a packet of media, it has keys, however the packets were    *)
(* reordered or repeated.  (The converse fails: media of the server may     *)
(* overtake flight 4, and the client drops it.)                             *)
MediaUnderstood == To(Server, "rtp") \in net /\ thread[Server] = "idle" => srtp[Server]

(* Both ends get there in the end, connected and with keys, whatever packet *)
(* is lost: STUN requests are repeated by the timer, flights 1 and 3 by the *)
(* ARQ thread, and flights 2 and 4 by the answers to these.                 *)
HandshakeCompletes ==
  <>[](\A e \in Peer : dtls[e] = "ClientDone" /\ state[e] = 1)

=============================================================================
