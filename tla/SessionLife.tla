---------------------------- MODULE SessionLife ----------------------------
(***************************************************************************)
(* The threads of one session, from startRtc to the end of                 *)
(* yang_destroy_rtcConnection: the application's thread, the receiving     *)
(* thread (YangRtcUdp), the timers of 1 s and 100 ms (YangCTimer) and the  *)
(* thread that repeats the DTLS flights.                                   *)
(*                                                                         *)
(* The receiving thread and the timers have two flags: the thread sets     *)
(* isStart, then isLoop, works while isLoop is set, and clears isStart;    *)
(* stop clears isLoop and waits until isStart is clear.  Destroying frees  *)
(* the session's parts in a fixed order.  A use of a part that is freed is *)
(* undefined; the model notes it in stale and goes on as if the memory     *)
(* still held its last values.                                             *)
(***************************************************************************)
EXTENDS Naturals

Timer  == {"tm_1s", "tm_100ms"}
Loop   == Timer \cup {"udp"}                \* what has isStart and isLoop
Again  == "tm_100ms again"                  \* bound: a second thread of a timer
Thread == Loop \cup {Again, "arq"}

(* The flags a thread works with.                                           *)
Of(th) == IF th = Again THEN "tm_100ms" ELSE th
Runs(tm) == {th \in Thread : Of(th) = tm}

(* What destroying frees, in its order; "media" are the publishing and the  *)
(* playing side and the data channel, "config" the pointer to the peer's    *)
(* configuration, which is set to NULL.                                     *)
Part == {"timers", "media", "config", "udp", "dtls", "session"}
Packet == {"rtp", "stun", "dtls", "other"}
NoPacket == "none"

(* Where a thread is; from "asking" on, the receiving thread starts a timer *)
(* or connects the session.                                                 *)
Place == {"none", "created", "marked", "looping", "waiting", "busy", "left", "ended",
          "asking", "starting 1s", "starting", "connecting"}

VARIABLES
  isServer, twcc,     \* the session: it answers; it plays with TWCC feedback
  app,                \* where the application's thread is
  pc,
  isStart, isLoop,    \* the loops that have the flag set
  packet,             \* the packet the receiving thread handles
  activeState, state, isSendDtls,   \* fields of the session
  freed,              \* the parts that are gone
  late,               \* history: loops a stop found not started, or started
                      \* twice, or started after they were stopped
  stale               \* the uses of freed parts that the last step made

flags  == <<pc, isStart, isLoop>>
fields == <<isServer, twcc, activeState, state, isSendDtls>>
vars   == <<fields, app, flags, packet, freed, late, stale>>

(* The application's steps are numbered: startRtc, close, deactivate, then  *)
(* the stops, each followed by its wait, and the parts as they are freed.   *)
Idle == 0
Up == 1
Deactivating == 2
Ended == 15
StopAt(l) == IF l = "tm_1s" THEN 3 ELSE IF l = "tm_100ms" THEN 5 ELSE 10
JoinAt(l) == StopAt(l) + 1
FreeAtDtlsFirst(p) ==
  IF p = "timers" THEN 7 ELSE IF p = "dtls" THEN 8 ELSE IF p = "config" THEN 9
  ELSE IF p = "udp" THEN 12 ELSE IF p = "media" THEN 13 ELSE 14
FreeAt(p) ==
  IF p = "timers" THEN 7 ELSE IF p = "media" THEN 8 ELSE IF p = "config" THEN 9
  ELSE IF p = "udp" THEN 12 ELSE IF p = "dtls" THEN 13 ELSE 14

Init ==
  /\ isServer \in BOOLEAN /\ twcc \in BOOLEAN
  /\ app = Idle
  /\ pc = [th \in Thread |-> "none"]
  /\ isStart = {} /\ isLoop = {}
  /\ packet = NoPacket
  /\ activeState = FALSE /\ state = 0 /\ isSendDtls = FALSE
  /\ freed = {} /\ late = {} /\ stale = {}

Uses(th, parts) == stale' = {th} \X (parts \cap freed)
NoUse == stale' = {}

-----------------------------------------------------------------------------
(* The application. *)

(* yang_rtcconn_startRtc: init creates the timers and the media sides.      *)
StartRtc ==
  /\ app = Idle
  /\ app' = Up /\ activeState' = TRUE
  /\ pc' = [pc EXCEPT !["udp"] = "created"]
  /\ UNCHANGED <<isServer, twcc, state, isSendDtls, isStart, isLoop, packet,
                 freed, late>> /\ NoUse

(* Closing a connected session, and the first step of destroying it.        *)
Close ==
  /\ app = Up
  /\ app' = Deactivating /\ state' = 0
  /\ UNCHANGED <<isServer, twcc, activeState, isSendDtls, flags, packet,
                 freed, late>> /\ NoUse
Deactivate ==
  /\ app = Deactivating
  /\ app' = app + 1 /\ activeState' = FALSE
  /\ UNCHANGED <<isServer, twcc, state, isSendDtls, flags, packet,
                 freed, late>> /\ NoUse

(* yang_timer_stop returns at once when isStart is clear;                   *)
(* yang_stop_rtcudp clears isLoop first, whatever isStart is.               *)
Stop(l) ==
  /\ app = StopAt(l)
  /\ app' = IF l \in Timer \ isStart THEN JoinAt(l) + 1 ELSE JoinAt(l)
  /\ isLoop' = IF l \in Timer \ isStart THEN isLoop ELSE isLoop \ {l}
  /\ late' = IF \E th \in Runs(l) : pc[th] = "created"
             THEN late \cup {l} ELSE late
  /\ UNCHANGED <<fields, pc, isStart, packet, freed>> /\ NoUse
JoinUnwaited(l) ==
  /\ app = JoinAt(l)
  /\ app' = app + 1
  /\ UNCHANGED <<fields, flags, packet, freed, late>> /\ NoUse
Join(l) ==
  /\ app = JoinAt(l)
  /\ l \notin isStart
  /\ app' = app + 1
  /\ UNCHANGED <<fields, flags, packet, freed, late>> /\ NoUse

Free(p) ==
  /\ app = FreeAt(p)
  /\ app' = app + 1 /\ freed' = freed \cup {p}
  /\ UNCHANGED <<fields, flags, packet, late>> /\ NoUse

App ==
  \/ StartRtc \/ Close \/ Deactivate
  \/ \E l \in Loop : Stop(l) \/ Join(l)
  \/ \E p \in Part : Free(p)

-----------------------------------------------------------------------------
(* The life of a thread that has the two flags. *)

(* What a thread of the loop has its flags in.                              *)
Holder(l) == IF l \in Timer THEN "timers" ELSE "udp"

(* yang_timer_start, on the receiving thread, with the pointer it has read; *)
(* meanwhile the timer may have been stopped, and freed.                    *)
Started(tm, next) ==
  LET th == IF pc[tm] = "none" \/ tm # "tm_100ms" THEN tm ELSE Again
  IN  /\ pc' = IF pc[th] = "none" THEN [pc EXCEPT ![th] = "created", !["udp"] = next]
               ELSE [pc EXCEPT !["udp"] = next]
      /\ late' = IF th = Again \/ app > StopAt(tm) THEN late \cup {tm} ELSE late
      /\ Uses("udp", {"timers", "session"})

Mark(th) ==
  /\ th # "arq" /\ pc[th] = "created"
  /\ pc' = [pc EXCEPT ![th] = "marked"]
  /\ isStart' = isStart \cup {Of(th)}
  /\ Uses(th, {Holder(Of(th))})
  /\ UNCHANGED <<fields, app, isLoop, packet, freed, late>>

(* The receiving thread starts the timer of STUN requests here, unless it   *)
(* does not know the remote port yet (a server never does), or the session  *)
(* has no timer any more.                                                   *)
Enter(th) ==
  /\ th # "arq" /\ pc[th] = "marked"
  /\ isLoop' = isLoop \cup {Of(th)}
  /\ pc' = [pc EXCEPT ![th] = IF th = "udp" /\ ~isServer /\ "timers" \notin freed
                             THEN "starting 1s" ELSE "looping"]
  /\ Uses(th, {Holder(Of(th))} \cup (IF th = "udp" /\ ~isServer THEN {"session"} ELSE {}))
  /\ UNCHANGED <<fields, app, isStart, packet, freed, late>>

StartStunTimer ==
  /\ pc["udp"] = "starting 1s"
  /\ Started("tm_1s", "looping")
  /\ UNCHANGED <<fields, app, isStart, isLoop, packet, freed>>

LeavesMarked(th) == isStart
Leaves(th) == isStart \ {Of(th)}
Test(th) ==
  /\ th # "arq" /\ pc[th] = "looping"
  /\ IF Of(th) \in isLoop
     THEN pc' = [pc EXCEPT ![th] = "waiting"] /\ UNCHANGED isStart
     ELSE /\ pc' = [pc EXCEPT ![th] = IF th = "udp" THEN "left" ELSE "ended"]
          /\ isStart' = Leaves(th)
  /\ Uses(th, {Holder(Of(th))})
  /\ UNCHANGED <<fields, app, isLoop, packet, freed, late>>

(* recvfrom and epoll_wait return without anything after a while.           *)
Timeout(th) ==
  /\ th # "arq" /\ pc[th] = "waiting"
  /\ pc' = [pc EXCEPT ![th] = "looping"]
  /\ UNCHANGED <<fields, app, isStart, isLoop, packet, freed, late>> /\ NoUse

(* After its loop the receiving thread closes the socket.                   *)
CloseSocket ==
  /\ pc["udp"] = "left"
  /\ pc' = [pc EXCEPT !["udp"] = "ended"]
  /\ Uses("udp", {"udp"})
  /\ UNCHANGED <<fields, app, isStart, isLoop, packet, freed, late>>

-----------------------------------------------------------------------------
(* Packets and tasks. *)

(* yang_rtcconn_receive looks at activeState once, when it begins.          *)
Receive(kind) ==
  /\ pc["udp"] = "waiting"
  /\ pc' = [pc EXCEPT !["udp"] = IF activeState THEN "busy" ELSE "looping"]
  /\ packet' = IF activeState THEN kind ELSE NoPacket
  /\ Uses("udp", {"udp", "session"})
  /\ UNCHANGED <<fields, app, isStart, isLoop, freed, late>>

Done == pc' = [pc EXCEPT !["udp"] = "looping"] /\ UNCHANGED late

(* client_sucess: yang_rtcconn_startTimers tests the session's pointer to   *)
(* the feedback timer, ...                                                  *)
Succeed(parts) ==
  /\ pc' = [pc EXCEPT !["udp"] = IF twcc /\ "timers" \notin freed
                                THEN "asking" ELSE "connecting"]
  /\ Uses("udp", parts \cup {"config", "session"})
  /\ UNCHANGED <<state, isSendDtls, late>>

(* ... reads the timer's isStart, and starts it unless that is set, ...     *)
AskTimer ==
  /\ pc["udp"] = "asking"
  /\ pc' = [pc EXCEPT !["udp"] = IF "tm_100ms" \in isStart
                                THEN "connecting" ELSE "starting"]
  /\ Uses("udp", {"timers", "session"})
  /\ UNCHANGED <<fields, app, isStart, isLoop, packet, freed, late>>
StartTimer ==
  /\ pc["udp"] = "starting"
  /\ Started("tm_100ms", "connecting")
  /\ UNCHANGED <<fields, app, isStart, isLoop, packet, freed>>

(* ... and the session is connected, and says so.                           *)
Counted == state + 1
Connected == 1
Connect ==
  /\ pc["udp"] = "connecting"
  /\ state' = Connected
  /\ pc' = [pc EXCEPT !["udp"] = "looping"]
  /\ Uses("udp", {"config", "session"})
  /\ UNCHANGED <<isServer, twcc, activeState, isSendDtls, app, isStart, isLoop,
                 packet, freed, late>>

OnRtp ==
  /\ pc["udp"] = "busy" /\ packet = "rtp"
  /\ Done /\ Uses("udp", {"media", "udp", "session"})
  /\ UNCHANGED <<state, isSendDtls>>

(* A server is connected by a STUN request; a client starts the handshake   *)
(* at the first answer, and with it the thread that repeats its flights.    *)
(* A packet that cannot be read changes nothing.                            *)
OnStun ==
  /\ pc["udp"] = "busy" /\ packet = "stun"
  /\ UNCHANGED late
  /\ \/ /\ pc' = [pc EXCEPT !["udp"] = "looping"]
        /\ Uses("udp", {"session"})
        /\ UNCHANGED <<state, isSendDtls>>
     \/ /\ isServer
        /\ state' = 1 /\ UNCHANGED isSendDtls
        /\ pc' = [pc EXCEPT !["udp"] = "looping"]
        /\ Uses("udp", {"udp", "session"})
     \/ /\ ~isServer /\ ~isSendDtls
        /\ isSendDtls' = TRUE /\ UNCHANGED state
        /\ pc' = [pc EXCEPT !["udp"] = "looping", !["arq"] = "busy"]
        /\ Uses("udp", {"dtls", "udp", "session"})

(* A server that was not connected returns after the packet, connected or   *)
(* not; every other case, an error included, ends at client_sucess.         *)
OnDtls ==
  /\ pc["udp"] = "busy" /\ packet = "dtls"
  /\ \/ /\ isServer /\ state = 0
        /\ state' \in {0, 1}
        /\ Done /\ Uses("udp", {"dtls", "media", "udp", "session"})
        /\ UNCHANGED isSendDtls
     \/ Succeed({"dtls", "media", "udp"})
OnOther ==
  /\ pc["udp"] = "busy" /\ packet = "other"
  /\ Succeed({})

Handle ==
  /\ OnRtp \/ OnStun \/ OnDtls \/ OnOther
  /\ packet' = NoPacket
  /\ UNCHANGED <<isServer, twcc, activeState, app, isStart, isLoop, freed>>

(* g_yang_doTask: a STUN request, and reports when the session is connected.*)
Task(th) ==
  /\ th \in Thread \ {"udp", "arq"} /\ pc[th] = "waiting"
  /\ pc' = [pc EXCEPT ![th] = "looping"]
  /\ Uses(th, {"session"} \cup (IF th = "tm_1s" THEN {"udp"} ELSE {})
                          \cup (IF state = 1 THEN {"media", "udp"} ELSE {}))
  /\ UNCHANGED <<fields, app, isStart, isLoop, packet, freed, late>>

(* yang_run_rtcdtls_app: a repetition, or the end.  Nobody waits for it.    *)
Repeat ==
  /\ pc["arq"] = "busy"
  /\ pc' \in {pc, [pc EXCEPT !["arq"] = "ended"]}
  /\ \E parts \in {{"dtls"}, {"dtls", "udp"}} : Uses("arq", parts)
  /\ UNCHANGED <<fields, app, isStart, isLoop, packet, freed, late>>

ThreadStep(th) == Mark(th) \/ Enter(th) \/ Test(th) \/ Timeout(th) \/ Task(th)
Udp ==
  CloseSocket \/ Handle \/ StartStunTimer \/ AskTimer \/ StartTimer \/ Connect

Next ==
  \/ App \/ Udp \/ Repeat
  \/ \E th \in Thread : ThreadStep(th)
  \/ \E kind \in Packet : Receive(kind)

Spec == Init /\ [][Next]_vars

(* The scheduler runs every thread; packets come or not, and the            *)
(* application need not destroy the session.                                *)
Fairness ==
  /\ \A th \in Thread : WF_vars(ThreadStep(th))
  /\ WF_vars(Udp)
  /\ WF_vars(App /\ app > Up)
FairSpec == Spec /\ Fairness

-----------------------------------------------------------------------------

TypeOK ==
  /\ isServer \in BOOLEAN /\ twcc \in BOOLEAN
  /\ app \in Idle .. Ended
  /\ pc \in [Thread -> Place]
  /\ isStart \subseteq Loop /\ isLoop \subseteq Loop
  /\ packet \in Packet \cup {NoPacket}
  /\ activeState \in BOOLEAN /\ state \in {0, 1} /\ isSendDtls \in BOOLEAN
  /\ freed \subseteq Part /\ late \subseteq Loop
  /\ stale \subseteq Thread \X Part

(* The uses of freed parts the code allows without any bad luck at a start: *)
(* a packet that was in hand when the session was deactivated, or a thread  *)
(* that had just begun, and the timer it then starts; the socket that is    *)
(* closed after isStart was cleared; and the thread nobody joins.           *)
Known == {<<"udp", "media">>, <<"udp", "config">>, <<"udp", "timers">>,
          <<"udp", "udp">>, <<"arq", "udp">>, <<"arq", "dtls">>}

(* No thread uses a freed part but in the known ways, unless a loop was     *)
(* stopped before it was started, started twice or started after its stop:  *)
(* the order in which yang_destroy_rtcConnection stops and frees keeps the  *)
(* timers' threads off everything, and the receiving thread off the DTLS    *)
(* context and the session, but not off the timers, the media sides and the *)
(* configuration.                                                           *)
StaleOnlyKnown ==
  \A use \in stale : use \in Known \/ Of(use[1]) \in late

(* When destroying has returned, none of the session's timers runs any more *)
(* and the receiving thread has at most its socket to close, again unless   *)
(* its loop was late.                                                       *)
NoOrphan ==
  app = Ended =>
    \A th \in Thread \ {"arq"} :
      pc[th] \in {"none", "left", "ended"} \/ Of(th) \in late

(* Destroying ends, unless it waits for a thread that set its loop flag     *)
(* after stop had cleared it: stop came between the thread's two flags.     *)
Overrun(l) == app = JoinAt(l) /\ l \in isLoop
DestroyEnds ==
  (app = Deactivating) ~> (app = Ended \/ \E l \in Loop : Overrun(l))
=============================================================================
