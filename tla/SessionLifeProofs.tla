------------------------- MODULE SessionLifeProofs -------------------------
(***************************************************************************)
(* Whatever the interleaving, only the named uses of freed parts happen,   *)
(* and no thread outlives the session, but for a loop that was late.  And,  *)
(* at the end, the loop of the system messages, of another thread.         *)
(***************************************************************************)
EXTENDS SessionLife, SysMessage, TLAPS


Beyond(l) == app > JoinAt(l)                      \* l was joined
Inside    == {"looping", "asking", "starting", "connecting"}
Alive     == {"marked", "waiting", "busy", "starting 1s"} \cup Inside

(* The receiving thread goes on, and starts nothing.                        *)
GoesOn == late' = late /\ \E place \in Inside : pc' = [pc EXCEPT !["udp"] = place]

(* A loop that is not late: its flag says whether its thread is at work, it *)
(* has one thread, and none is on the way once it was told to stop.         *)
FlagsTrue ==
  \A th \in Thread \ {"arq"} : Of(th) \notin late =>
    /\ pc[th] \in Alive => Of(th) \in isStart
    /\ th = Again => pc[th] = "none"
    /\ app > StopAt(Of(th)) => pc[th] # "created"

(* What was joined has left its loop.                                       *)
JoinedLeft ==
  \A th \in Thread \ {"arq"} :
    Beyond(Of(th)) /\ Of(th) \notin late => pc[th] \in {"none", "left", "ended"}

(* Parts are freed in order, after the loops that use them.                 *)
FreedLate ==
  /\ freed # {} => Beyond("tm_1s") /\ Beyond("tm_100ms")
  /\ freed \cap {"udp", "dtls", "session"} # {} => Beyond("udp")

IInv == TypeOK /\ FlagsTrue /\ JoinedLeft /\ FreedLate /\ StaleOnlyKnown

USE DEF Timer, Loop, Again, Place, Inside

-----------------------------------------------------------------------------

LEMMA Threads ==
  /\ Thread = {"udp", "tm_1s", "tm_100ms", Again, "arq"}
  /\ Loop = {"udp", "tm_1s", "tm_100ms"}
  /\ \A th \in Thread \ {"arq"} : Of(th) \in Loop
  /\ Of("udp") = "udp" /\ Of("tm_1s") = "tm_1s"
  /\ Of("tm_100ms") = "tm_100ms" /\ Of(Again) = "tm_100ms"
BY DEF Thread, Of

(* The application's steps, in numbers.                                     *)
LEMMA Steps ==
  /\ Idle = 0 /\ Up = 1 /\ Deactivating = 2 /\ Ended = 15
  /\ \A l \in Loop : StopAt(l) \in 3 .. 10 /\ JoinAt(l) = StopAt(l) + 1
  /\ \A k, l \in Loop : k = l \/ StopAt(k) + 2 <= StopAt(l) \/ StopAt(l) + 2 <= StopAt(k)
  /\ StopAt("tm_1s") = 3 /\ StopAt("tm_100ms") = 5 /\ StopAt("udp") = 10
  /\ JoinAt("tm_1s") = 4 /\ JoinAt("tm_100ms") = 6 /\ JoinAt("udp") = 11
  /\ \A p \in Part : FreeAt(p) \in 7 .. 14
  /\ \A p \in {"udp", "dtls", "session"} : FreeAt(p) \in 12 .. 14
BY DEF Idle, Up, Deactivating, Ended, StopAt, JoinAt, FreeAt, Part

LEMMA Apart ==
  ASSUME NEW l \in Loop, NEW th \in Thread \ {"arq"}
  PROVE  /\ Of(th) \in Loop
         /\ StopAt(Of(th)) \in 3 .. 10 /\ JoinAt(Of(th)) = StopAt(Of(th)) + 1
         /\ \/ Of(th) = l
            \/ StopAt(Of(th)) + 2 <= StopAt(l)
            \/ StopAt(l) + 2 <= StopAt(Of(th))
<1>1. Of(th) \in Loop
  BY Threads
<1> QED
  BY <1>1, Steps

LEMMA Initially == Init => IInv
<1> SUFFICES ASSUME Init PROVE IInv
  OBVIOUS
<1>1. TypeOK
  <2>1. app \in Idle .. Ended /\ state \in {0, 1}
    BY Steps DEF Init
  <2>2. pc \in [Thread -> Place]
    BY DEF Init
  <2> QED
    BY <2>1, <2>2, Zenon DEF Init, TypeOK
<1>2. FlagsTrue /\ JoinedLeft
  BY Threads, Steps DEF Init, FlagsTrue, JoinedLeft, Alive
<1>3. FreedLate /\ StaleOnlyKnown
  BY DEF Init, FreedLate, StaleOnlyKnown
<1> QED
  BY <1>1, <1>2, <1>3 DEF IInv

LEMMA AppTypes ==
  ASSUME TypeOK, App
  PROVE  TypeOK'
<1>0. app \in 0 .. 15 /\ state \in {0, 1}
  BY Steps DEF TypeOK
<1>1. CASE StartRtc \/ Close \/ Deactivate
  <2>1. app' \in Idle .. Ended /\ state' \in {0, 1}
    BY <1>0, <1>1, Steps DEF StartRtc, Close, Deactivate
  <2>2. pc' \in [Thread -> Place]
    BY <1>1 DEF StartRtc, Close, Deactivate, TypeOK, flags
  <2> QED
    BY <1>1, <2>1, <2>2, Zenon DEF TypeOK, StartRtc, Close, Deactivate, flags, NoUse
<1>2. ASSUME NEW l \in Loop, Stop(l) PROVE TypeOK'
  <2>1. app' \in Idle .. Ended
    BY <1>0, <1>2, Steps DEF Stop
  <2>2. isLoop' \subseteq Loop /\ late' \subseteq Loop
    BY <1>2 DEF Stop, TypeOK
  <2> QED
    BY <1>2, <2>1, <2>2, Zenon DEF TypeOK, Stop, fields, NoUse
<1>3. ASSUME NEW l \in Loop, Join(l) PROVE TypeOK'
  <2>1. app' \in Idle .. Ended
    BY <1>0, <1>3, Steps DEF Join
  <2> QED
    BY <1>3, <2>1, Zenon DEF TypeOK, Join, flags, fields, NoUse
<1>4. ASSUME NEW p \in Part, Free(p) PROVE TypeOK'
  <2>1. app' \in Idle .. Ended
    BY <1>0, <1>4, Steps DEF Free
  <2> QED
    BY <1>4, <2>1, Zenon DEF TypeOK, Free, flags, fields, NoUse
<1> QED
  BY <1>1, <1>2, <1>3, <1>4, Zenon DEF App

LEMMA StartedTypes ==
  ASSUME TypeOK, NEW tm \in Timer, NEW next \in Inside, Started(tm, next)
  PROVE  /\ pc' \in [Thread -> Place]
         /\ late' \subseteq Loop
         /\ late \subseteq late'
BY Threads DEF Started, TypeOK, Place, Inside

LEMMA UsesTypes ==
  ASSUME NEW th \in Thread, NEW parts, Uses(th, parts), freed \subseteq Part
  PROVE  stale' \subseteq Thread \X Part
BY DEF Uses

LEMMA ThreadTypes ==
  ASSUME TypeOK, NEW th \in Thread, ThreadStep(th)
  PROVE  TypeOK'
<1>1. CASE Mark(th)
  BY <1>1, Threads, UsesTypes DEF TypeOK, Mark, fields, Place
<1>2. CASE Enter(th)
  BY <1>2, Threads, UsesTypes DEF TypeOK, Enter, fields, Place
<1>3. CASE Test(th)
  BY <1>3, Threads, UsesTypes DEF TypeOK, Test, Leaves, fields, Place
<1>4. CASE Timeout(th)
  BY <1>4, Threads DEF TypeOK, Timeout, fields, NoUse, Place
<1>5. CASE Task(th)
  BY <1>5, Threads, UsesTypes DEF TypeOK, Task, fields, Place
<1> QED
  BY <1>1, <1>2, <1>3, <1>4, <1>5 DEF ThreadStep

(* What handling a packet may do to the threads: the receiving thread is    *)
(* back in its loop, and it may have started one other thread.              *)
LEMMA HandleFacts ==
  ASSUME TypeOK, Handle
  PROVE  /\ pc["udp"] = "busy"
         /\ \/ GoesOn
            \/ late' = late /\ pc' = [pc EXCEPT !["udp"] = "looping", !["arq"] = "busy"]
         /\ state' \in {0, 1} /\ isSendDtls' \in BOOLEAN
         /\ \E parts : Uses("udp", parts)
<1>1. ASSUME NEW parts, Succeed(parts)
      PROVE  /\ GoesOn
             /\ state' = state /\ isSendDtls' = isSendDtls
             /\ \E some : Uses("udp", some)
  BY <1>1 DEF Succeed, GoesOn, Inside
<1>2. isSendDtls \in BOOLEAN /\ state \in {0, 1}
  BY DEF TypeOK
<1>3. CASE OnRtp
  BY <1>2, <1>3 DEF OnRtp, Done, GoesOn, Inside
<1>4. CASE OnStun
  BY <1>2, <1>4 DEF OnStun, GoesOn, Inside
<1>5. CASE OnDtls
  BY <1>1, <1>2, <1>5 DEF OnDtls, Done, GoesOn, Inside
<1>6. CASE OnOther
  BY <1>1, <1>2, <1>6 DEF OnOther
<1> QED
  BY <1>3, <1>4, <1>5, <1>6, Zenon DEF Handle

(* The steps that start a timer, and those around them.                     *)
LEMMA StartFacts ==
  ASSUME TypeOK, StartStunTimer \/ StartTimer
  PROVE  /\ pc["udp"] \in {"starting 1s", "starting"}
         /\ \E tm \in Timer, next \in Inside : Started(tm, next)
         /\ Uses("udp", {"timers", "session"})
         /\ UNCHANGED <<fields, app, isStart, isLoop, packet, freed>>
BY DEF StartStunTimer, StartTimer, Inside, Started

LEMMA ConnectFacts ==
  ASSUME TypeOK, AskTimer \/ Connect
  PROVE  /\ pc["udp"] \in {"asking", "connecting"}
         /\ GoesOn
         /\ Uses("udp", {"timers", "session"}) \/ Uses("udp", {"config", "session"})
         /\ UNCHANGED <<isServer, twcc, activeState, isSendDtls, app, isStart,
                        isLoop, packet, freed>>
         /\ state' \in {0, 1}
BY DEF AskTimer, Connect, Connected, GoesOn, Inside, TypeOK, fields

LEMMA GoesOnTypes ==
  ASSUME TypeOK, GoesOn
  PROVE  pc' \in [Thread -> Place] /\ late' \subseteq Loop
BY Threads DEF GoesOn, Inside, TypeOK, Place

LEMMA OtherTypes ==
  ASSUME TypeOK, Udp \/ Repeat \/ \E kind \in Packet : Receive(kind)
  PROVE  TypeOK'
<1>1. CASE CloseSocket
  BY <1>1, Threads, UsesTypes DEF TypeOK, CloseSocket, fields, Place
<1>2. CASE Repeat
  BY <1>2, Threads, UsesTypes DEF TypeOK, Repeat, fields, Place
<1>3. ASSUME NEW kind \in Packet, Receive(kind) PROVE TypeOK'
  BY <1>3, Threads, UsesTypes DEF TypeOK, Receive, fields, Place
<1>4. CASE Handle
  <2>1. pc' \in [Thread -> Place] /\ late' \subseteq Loop
    <3>1. CASE late' = late /\ pc' = [pc EXCEPT !["udp"] = "looping", !["arq"] = "busy"]
      BY <3>1, Threads DEF TypeOK, Place
    <3> QED
      BY <1>4, <3>1, HandleFacts, GoesOnTypes
  <2>2. stale' \subseteq Thread \X Part
    BY <1>4, HandleFacts, UsesTypes, Threads DEF TypeOK
  <2>3. state' \in {0, 1} /\ isSendDtls' \in BOOLEAN
    BY <1>4, HandleFacts
  <2> QED
    BY <1>4, <2>1, <2>2, <2>3 DEF TypeOK, Handle
<1>5. CASE StartStunTimer \/ StartTimer
  <2>1. pc' \in [Thread -> Place] /\ late' \subseteq Loop
    BY <1>5, StartFacts, StartedTypes
  <2>2. stale' \subseteq Thread \X Part
    BY <1>5, StartFacts, UsesTypes, Threads DEF TypeOK
  <2> QED
    BY <1>5, <2>1, <2>2, StartFacts DEF TypeOK, fields
<1>6. CASE AskTimer \/ Connect
  <2>1. stale' \subseteq Thread \X Part
    BY <1>6, ConnectFacts, UsesTypes, Threads DEF TypeOK
  <2> QED
    BY <1>6, <2>1, ConnectFacts, GoesOnTypes DEF TypeOK
<1> QED
  BY <1>1, <1>2, <1>3, <1>4, <1>5, <1>6 DEF Udp

LEMMA TypeStep == TypeOK /\ [Next]_vars => TypeOK'
<1>1. CASE UNCHANGED vars
  BY <1>1, Zenon DEF vars, fields, flags, TypeOK
<1> QED
  BY <1>1, AppTypes, ThreadTypes, OtherTypes DEF Next

-----------------------------------------------------------------------------
(* The flags. *)

LEMMA AppFlags ==
  ASSUME IInv, App
  PROVE  FlagsTrue' /\ JoinedLeft' /\ FreedLate' /\ StaleOnlyKnown'
<1> USE DEF IInv
<1>0. StaleOnlyKnown'
  <2>1. stale' = {}
    BY DEF App, StartRtc, Close, Deactivate, Stop, Join, Free, NoUse
  <2> QED
    BY <2>1 DEF StaleOnlyKnown
<1>a. app \in 0 .. 15
  BY Steps DEF TypeOK
<1>1. CASE StartRtc \/ Close \/ Deactivate
  <2>1. /\ app < 3 /\ app' \in 0 .. 3 /\ isStart' = isStart /\ late' = late /\ freed' = freed
        /\ \/ pc' = pc
           \/ pc' = [pc EXCEPT !["udp"] = "created"]
    BY <1>1, Steps DEF StartRtc, Close, Deactivate, flags
  <2>2. FreedLate'
    BY <2>1, <1>a, Steps DEF FreedLate, Beyond
  <2>3. ASSUME NEW th \in Thread \ {"arq"}
        PROVE  /\ ~(app' > StopAt(Of(th))) /\ ~(app' > JoinAt(Of(th)))
               /\ pc'[th] = pc[th] \/ (th = "udp" /\ pc'[th] = "created")
    <3>1. pc'[th] = pc[th] \/ (th = "udp" /\ pc'[th] = "created")
      <4>1. pc \in [Thread -> Place]
        BY DEF TypeOK
      <4>2. pc' = pc \/ pc' = [pc EXCEPT !["udp"] = "created"]
        BY <2>1
      <4>3. CASE pc' = pc
        BY <4>3
      <4>4. CASE pc' = [pc EXCEPT !["udp"] = "created"]
        BY <4>1, <4>4, Threads
      <4> QED
        BY <4>2, <4>3, <4>4
    <3> QED
      BY <3>1, <2>1, Apart
  <2>4. JoinedLeft' /\ FlagsTrue'
    BY <2>1, <2>3 DEF JoinedLeft, Beyond, FlagsTrue, Alive
  <2> QED
    BY <1>0, <2>2, <2>4
<1>2. ASSUME NEW l \in Loop, Stop(l)
      PROVE  FlagsTrue' /\ JoinedLeft' /\ FreedLate'
  <2>1. /\ app = StopAt(l) /\ app' \in {StopAt(l) + 1, StopAt(l) + 2} /\ app' \in 4 .. 12
        /\ isStart' = isStart /\ freed' = freed /\ pc' = pc /\ late \subseteq late'
        /\ app' = StopAt(l) + 2 => l \in Timer /\ l \notin isStart
    BY <1>2, Steps DEF Stop
  <2>2. FreedLate'
    BY <2>1, <1>a, Steps DEF FreedLate, Beyond
  <2>3. ASSUME NEW th \in Thread \ {"arq"}, Of(th) \notin late'
        PROVE  app' > StopAt(Of(th)) => pc[th] # "created"
    <3>1. Of(th) = l => pc[th] # "created"
      BY <1>2, <2>3 DEF Stop, Runs
    <3>2. app' > StopAt(Of(th)) => Of(th) = l \/ app > StopAt(Of(th))
      <4>1. /\ app = StopAt(l) /\ app' \in {StopAt(l) + 1, StopAt(l) + 2}
            /\ StopAt(l) \in 3 .. 10
        BY <2>1, Steps
      <4> QED
        BY <4>1, Apart
    <3> QED
      BY <3>1, <3>2, <2>1, <2>3 DEF FlagsTrue
  <2>4. FlagsTrue'
    BY <2>1, <2>3 DEF FlagsTrue
  <2>5. JoinedLeft'
    <3> SUFFICES ASSUME NEW th \in Thread \ {"arq"}, app' > JoinAt(Of(th)),
                        Of(th) \notin late'
                 PROVE  pc[th] \in {"none", "left", "ended"}
      BY <2>1 DEF JoinedLeft, Beyond
    <3>1. CASE app > JoinAt(Of(th))
      BY <3>1, <2>1 DEF JoinedLeft, Beyond
    <3>2. CASE Of(th) = l
      <4>1. l \notin isStart
        BY <3>2, <2>1, Steps
      <4>2. app' > StopAt(Of(th)) /\ Of(th) \notin isStart
        BY <3>2, <4>1, <2>1, Steps
      <4>3. pc[th] \notin Alive /\ pc[th] # "created"
        BY <4>2, <2>1, <2>3 DEF FlagsTrue
      <4> QED
        BY <4>3 DEF TypeOK, Alive
    <3> QED
      BY <3>1, <3>2, <2>1, <1>a, Apart
  <2> QED
    BY <2>2, <2>4, <2>5
<1>3. ASSUME NEW l \in Loop, Join(l)
      PROVE  FlagsTrue' /\ JoinedLeft' /\ FreedLate'
  <2>1. /\ app = StopAt(l) + 1 /\ app' = StopAt(l) + 2 /\ l \notin isStart
        /\ isStart' = isStart /\ freed' = freed /\ pc' = pc /\ late' = late
    BY <1>3, Steps DEF Join, flags
  <2>2. FreedLate'
    BY <2>1, <1>a, Steps DEF FreedLate, Beyond
  <2>3. ASSUME NEW th \in Thread \ {"arq"}
        PROVE  app' > StopAt(Of(th)) => app > StopAt(Of(th))
    <3>1. app = StopAt(l) + 1 /\ app' = StopAt(l) + 2 /\ StopAt(l) \in 3 .. 10
      BY <2>1, Steps
    <3> QED
      BY <3>1, Apart
  <2>4. FlagsTrue'
    BY <2>1, <2>3 DEF FlagsTrue
  <2>5. JoinedLeft'
    <3> SUFFICES ASSUME NEW th \in Thread \ {"arq"}, app' > JoinAt(Of(th)),
                        Of(th) \notin late
                 PROVE  pc[th] \in {"none", "left", "ended"}
      BY <2>1 DEF JoinedLeft, Beyond
    <3>1. CASE app > JoinAt(Of(th))
      BY <3>1 DEF JoinedLeft, Beyond
    <3>2. CASE Of(th) = l
      <4>1. app > StopAt(Of(th)) /\ Of(th) \notin isStart
        BY <3>2, <2>1, Steps
      <4>2. pc[th] \notin Alive /\ pc[th] # "created"
        BY <4>1 DEF FlagsTrue
      <4> QED
        BY <4>2 DEF TypeOK, Alive
    <3>3. Of(th) = l \/ app > JoinAt(Of(th))
      <4>1. app = StopAt(l) + 1 /\ app' = StopAt(l) + 2 /\ StopAt(l) \in 3 .. 10
        BY <2>1, Steps
      <4> QED
        BY <4>1, Apart
    <3> QED
      BY <3>1, <3>2, <3>3
  <2> QED
    BY <2>2, <2>4, <2>5
<1>4. ASSUME NEW p \in Part, Free(p)
      PROVE  FlagsTrue' /\ JoinedLeft' /\ FreedLate'
  <2>1. /\ app = FreeAt(p) /\ app' = app + 1 /\ app \in 7 .. 14
        /\ isStart' = isStart /\ freed' = freed \cup {p} /\ pc' = pc /\ late' = late
    BY <1>4, Steps DEF Free, flags
  <2>2. ASSUME NEW l \in Loop
        PROVE  /\ app' > StopAt(l) => app > StopAt(l)
               /\ app' > StopAt(l) + 1 => app > StopAt(l) + 1
    <3>1. FreeAt(p) \in {7, 8, 9, 12, 13, 14} /\ StopAt(l) \in {3, 5, 10}
      BY DEF FreeAt, StopAt
    <3> QED
      BY <3>1, <2>1
  <2>3. FlagsTrue'
    BY <2>1, <2>2, Threads DEF FlagsTrue
  <2>4. JoinedLeft'
    <3>1. ASSUME NEW th \in Thread \ {"arq"}, app' > JoinAt(Of(th))
          PROVE  app > JoinAt(Of(th))
      BY <3>1, <2>2, Threads, Steps
    <3> QED
      BY <3>1, <2>1 DEF JoinedLeft, Beyond
  <2>5. FreedLate'
    BY <2>1, Steps DEF FreedLate, Beyond
  <2> QED
    BY <2>3, <2>4, <2>5
<1> QED
  BY <1>0, <1>1, <1>2, <1>3, <1>4 DEF App

(* A thread that is at work holds what it works with.                       *)
LEMMA NotFreed ==
  ASSUME IInv, NEW th \in Thread \ {"arq"}, Of(th) \notin late,
         pc[th] \notin {"none", "left", "ended"}
  PROVE  /\ th = "udp" => freed \cap {"udp", "dtls", "session"} = {}
         /\ th # "udp" => freed = {}
<1>1. ~Beyond(Of(th))
  BY DEF IInv, JoinedLeft
<1>2. CASE th = "udp"
  BY <1>1, <1>2, Threads DEF IInv, FreedLate
<1>3. CASE th # "udp"
  <2>1. Of(th) \in {"tm_1s", "tm_100ms"}
    BY <1>3, Threads
  <2> QED
    BY <1>1, <1>3, <2>1 DEF IInv, FreedLate
<1> QED
  BY <1>2, <1>3

(* What a step of one thread may do to any thread of a loop that is not     *)
(* late, without harm to the flags.                                         *)
Moves(th) ==
  \/ pc'[th] = pc[th] /\ (pc[th] \in Alive /\ Of(th) \in isStart => Of(th) \in isStart')
  \/ /\ pc[th] \notin {"none", "left", "ended"}
     /\ pc'[th] \in Alive /\ Of(th) \in isStart'
  \/ pc[th] # "none" /\ pc'[th] \in {"left", "ended"}
  \/ th # Again /\ pc'[th] = "created" /\ ~(app > StopAt(Of(th)))

LEMMA MovesKeep ==
  ASSUME IInv, app' = app, freed' = freed, late \subseteq late',
         \A th \in Thread \ {"arq"} : Of(th) \notin late' => Moves(th)
  PROVE  FlagsTrue' /\ JoinedLeft' /\ FreedLate'
<1>1. FreedLate'
  BY DEF IInv, FreedLate, Beyond
<1> SUFFICES ASSUME NEW th \in Thread \ {"arq"}, Of(th) \notin late'
             PROVE  /\ pc'[th] \in Alive => Of(th) \in isStart'
                    /\ th = Again => pc'[th] = "none"
                    /\ app > StopAt(Of(th)) => pc'[th] # "created"
                    /\ app > JoinAt(Of(th)) => pc'[th] \in {"none", "left", "ended"}
  BY <1>1 DEF FlagsTrue, JoinedLeft, Beyond
<1>2. /\ pc[th] \in Alive => Of(th) \in isStart
      /\ th = Again => pc[th] = "none"
      /\ app > StopAt(Of(th)) => pc[th] # "created"
      /\ app > JoinAt(Of(th)) => pc[th] \in {"none", "left", "ended"}
  BY DEF IInv, FlagsTrue, JoinedLeft, Beyond
<1>3. app > JoinAt(Of(th)) => app > StopAt(Of(th))
  <2>1. app \in 0 .. 15
    BY Steps DEF IInv, TypeOK
  <2>2. Of(th) \in Loop
    BY Threads
  <2> QED
    BY <2>1, <2>2, Steps
<1>4. Moves(th)
  OBVIOUS
<1> QED
  BY <1>2, <1>3, <1>4 DEF Moves, Alive

LEMMA StartedMoves ==
  ASSUME IInv, NEW tm \in Timer, NEW next \in Inside, Started(tm, next),
         pc["udp"] \in {"starting 1s", "starting"},
         isStart' = isStart
  PROVE  /\ late \subseteq late'
         /\ \A th \in Thread \ {"arq"} : Of(th) \notin late' => Moves(th)
<1>1. late \subseteq late'
  BY DEF Started
<1>2. pc \in [Thread -> Place]
  BY DEF IInv, TypeOK
<1>3. ASSUME NEW th \in Thread \ {"arq"}, Of(th) \notin late'
      PROVE  Moves(th)
  <2>1. th \in Thread /\ Of(th) \notin late
    BY <1>1, <1>3
  <2>2. CASE th = "udp"
    <3>1. pc'[th] \in Inside
      BY <1>2, <2>1, <2>2, Threads DEF Started
    <3>2. Of(th) \in isStart
      BY <2>1, <2>2 DEF IInv, FlagsTrue, Alive
    <3> QED
      BY <2>2, <3>1, <3>2 DEF Moves, Alive
  <2>3. CASE th # "udp"
    <3>1. \/ pc'[th] = pc[th]
          \/ /\ pc'[th] = "created" /\ Of(th) = tm
             /\ th = Again \/ app > StopAt(tm) => tm \in late'
      BY <1>2, <2>1, <2>3, Threads DEF Started
    <3> QED
      BY <1>3, <3>1, Threads DEF Moves
  <2> QED
    BY <2>2, <2>3
<1> QED
  BY <1>1, <1>3

LEMMA ThreadFlags ==
  ASSUME IInv, NEW th \in Thread, ThreadStep(th)
  PROVE  FlagsTrue' /\ JoinedLeft' /\ FreedLate'
<1>1. pc \in [Thread -> Place]
  BY DEF IInv, TypeOK
<1>2. app' = app /\ freed' = freed
  BY DEF ThreadStep, Mark, Enter, Test, Timeout, Task
<1>3. th \in Thread \ {"arq"}
  BY DEF ThreadStep, Mark, Enter, Test, Timeout, Task
<1>4. CASE Mark(th)
  <2>1. late' = late /\ pc' = [pc EXCEPT ![th] = "marked"] /\ isStart' = isStart \cup {Of(th)}
        /\ pc[th] = "created"
    BY <1>4 DEF Mark
  <2>2. ASSUME NEW w \in Thread \ {"arq"} PROVE Moves(w)
    BY <1>1, <2>1 DEF Moves, Alive
  <2> QED
    BY <1>2, <2>1, <2>2, MovesKeep
<1>5. CASE Enter(th)
  <2>1. /\ late' = late /\ isStart' = isStart /\ pc[th] = "marked"
        /\ \E place \in {"starting 1s", "looping"} : pc' = [pc EXCEPT ![th] = place]
    BY <1>5 DEF Enter
  <2>2. ASSUME NEW w \in Thread \ {"arq"}, Of(w) \notin late PROVE Moves(w)
    <3>1. w = th => Of(w) \in isStart
      BY <2>1, <2>2 DEF IInv, FlagsTrue, Alive
    <3> QED
      BY <1>1, <2>1, <3>1 DEF Moves, Alive, Inside
  <2> QED
    BY <1>2, <2>1, <2>2, MovesKeep
<1>6. CASE Test(th)
  <2>1. pc[th] = "looping" /\ late' = late
    BY <1>6 DEF Test
  <2>2. \/ pc' = [pc EXCEPT ![th] = "waiting"] /\ isStart' = isStart
        \/ /\ pc' = [pc EXCEPT ![th] = "left"] \/ pc' = [pc EXCEPT ![th] = "ended"]
           /\ isStart' = isStart \ {Of(th)}
    BY <1>6 DEF Test, Leaves
  <2>3. ASSUME NEW w \in Thread \ {"arq"}, Of(w) \notin late PROVE Moves(w)
    <3>1. CASE w = th
      <4>1. Of(w) \in isStart
        BY <2>1, <2>3, <3>1 DEF IInv, FlagsTrue, Alive
      <4> QED
        BY <1>1, <2>1, <2>2, <3>1, <4>1 DEF Moves, Alive
    <3>2. CASE w # th
      <4>1. Of(w) = Of(th) => w = Again \/ th = Again
        BY <1>3, <3>2, Threads
      <4>2. Of(w) = Of(th) => pc[w] \notin Alive
        BY <1>3, <2>1, <2>3, <4>1 DEF IInv, FlagsTrue, Alive
      <4>3. pc'[w] = pc[w]
        BY <1>1, <2>2, <3>2
      <4> QED
        BY <2>2, <4>2, <4>3 DEF Moves
    <3> QED
      BY <3>1, <3>2
  <2> QED
    BY <1>2, <2>1, <2>3, MovesKeep
<1>7. CASE Timeout(th) \/ Task(th)
  <2>1. pc[th] = "waiting" /\ late' = late /\ isStart' = isStart
        /\ pc' = [pc EXCEPT ![th] = "looping"]
    BY <1>7 DEF Timeout, Task
  <2>2. ASSUME NEW w \in Thread \ {"arq"}, Of(w) \notin late PROVE Moves(w)
    <3>1. w = th => Of(w) \in isStart
      BY <2>1, <2>2 DEF IInv, FlagsTrue, Alive
    <3> QED
      BY <1>1, <2>1, <3>1 DEF Moves, Alive
  <2> QED
    BY <1>2, <2>1, <2>2, MovesKeep
<1> QED
  BY <1>4, <1>5, <1>6, <1>7 DEF ThreadStep

LEMMA OtherFlags ==
  ASSUME IInv, Udp \/ Repeat \/ \E kind \in Packet : Receive(kind)
  PROVE  FlagsTrue' /\ JoinedLeft' /\ FreedLate'
<1>1. pc \in [Thread -> Place]
  BY DEF IInv, TypeOK
<1>2. app' = app /\ freed' = freed /\ isStart' = isStart
  BY DEF Udp, CloseSocket, Handle, StartStunTimer, AskTimer, StartTimer, Connect,
         Repeat, Receive
<1>3. ASSUME pc["udp"] \in {"waiting", "busy", "asking", "connecting"}, late' = late,
             \A w \in Thread \ {"arq"} :
               pc'[w] = pc[w] \/ (w = "udp" /\ pc'[w] \in Inside \cup {"busy"})
      PROVE  FlagsTrue' /\ JoinedLeft' /\ FreedLate'
  <2>1. ASSUME NEW w \in Thread \ {"arq"}, Of(w) \notin late PROVE Moves(w)
    <3>1. w = "udp" => Of(w) \in isStart
      BY <1>3, <2>1 DEF IInv, FlagsTrue, Alive
    <3> QED
      BY <1>2, <1>3, <3>1 DEF Moves, Alive
  <2> QED
    BY <1>2, <1>3, <2>1, MovesKeep
<1>4. CASE CloseSocket
  <2>1. ASSUME NEW w \in Thread \ {"arq"} PROVE Moves(w)
    BY <1>1, <1>2, <1>4 DEF CloseSocket, Moves
  <2>2. late' = late
    BY <1>4 DEF CloseSocket
  <2> QED
    BY <1>2, <2>1, <2>2, MovesKeep
<1>5. ASSUME GoesOn, pc["udp"] \in {"waiting", "busy", "asking", "connecting"}
      PROVE  FlagsTrue' /\ JoinedLeft' /\ FreedLate'
  BY <1>1, <1>3, <1>5 DEF GoesOn
<1>8. CASE Handle
  <2>1. CASE late' = late /\ pc' = [pc EXCEPT !["udp"] = "looping", !["arq"] = "busy"]
    BY <1>1, <1>3, <1>8, <2>1, HandleFacts DEF IInv, Inside
  <2> QED
    BY <1>5, <1>8, <2>1, HandleFacts DEF IInv
<1>9. CASE StartStunTimer \/ StartTimer
  BY <1>2, <1>9, StartFacts, StartedMoves, MovesKeep DEF IInv
<1>10. CASE AskTimer \/ Connect
  BY <1>5, <1>10, ConnectFacts DEF IInv
<1>6. CASE Repeat
  <2>1. ASSUME NEW w \in Thread \ {"arq"} PROVE Moves(w)
    BY <1>1, <1>2, <1>6 DEF Repeat, Moves
  <2>2. late' = late
    BY <1>6 DEF Repeat
  <2> QED
    BY <1>2, <2>1, <2>2, MovesKeep
<1>7. ASSUME NEW kind \in Packet, Receive(kind)
      PROVE  FlagsTrue' /\ JoinedLeft' /\ FreedLate'
  BY <1>1, <1>3, <1>7 DEF Receive
<1> QED
  BY <1>4, <1>6, <1>7, <1>8, <1>9, <1>10 DEF Udp

(* The uses of freed parts.                                                 *)
LEMMA Stale ==
  ASSUME IInv, NEW th \in Thread, NEW parts, Uses(th, parts), late \subseteq late',
         \/ th # "arq" /\ Of(th) \in late
         \/ \A q \in parts \cap freed : <<th, q>> \in Known
  PROVE  StaleOnlyKnown'
<1> SUFFICES ASSUME NEW use \in stale', use \notin Known
             PROVE  Of(use[1]) \in late'
  BY DEF StaleOnlyKnown
<1>1. PICK q \in parts \cap freed : use = <<th, q>>
  BY DEF Uses
<1> QED
  BY <1>1

LEMMA ThreadStale ==
  ASSUME IInv, NEW th \in Thread, ThreadStep(th)
  PROVE  StaleOnlyKnown'
<1>1. th \in Thread \ {"arq"}
  BY DEF ThreadStep, Mark, Enter, Test, Timeout, Task
<1>2. late \subseteq late'
  BY DEF ThreadStep, Mark, Enter, Test, Timeout, Task
<1>3. pc[th] \notin {"none", "left", "ended"}
  BY DEF ThreadStep, Mark, Enter, Test, Timeout, Task
<1>4. Holder(Of(th)) = IF th = "udp" THEN "udp" ELSE "timers"
  BY <1>1, Threads DEF Holder
<1>5. CASE Timeout(th)
  BY <1>5 DEF Timeout, NoUse, StaleOnlyKnown
<1>6. CASE Mark(th) \/ Enter(th) \/ Test(th) \/ Task(th)
  <2>1. PICK parts : /\ Uses(th, parts)
                     /\ th = "udp" => parts \subseteq {"udp", "session"}
    BY <1>4, <1>6, Zenon DEF Mark, Enter, Test, Task
  <2> QED
    BY <1>1, <1>2, <1>3, <2>1, NotFreed, Stale
<1> QED
  BY <1>5, <1>6 DEF ThreadStep

LEMMA OtherStale ==
  ASSUME IInv, Udp \/ Repeat \/ \E kind \in Packet : Receive(kind)
  PROVE  StaleOnlyKnown'
<1>1. late \subseteq late'
  BY DEF Udp, CloseSocket, Handle, OnRtp, OnStun, OnDtls, OnOther, Succeed, Done,
         StartStunTimer, AskTimer, StartTimer, Connect, Started, Repeat, Receive
<1>2. "udp" \in Thread \ {"arq"} /\ "arq" \in Thread /\ Of("udp") = "udp"
  BY Threads
<1>3. CASE CloseSocket
  <2>1. Uses("udp", {"udp"})
    BY <1>3 DEF CloseSocket
  <2> QED
    BY <1>1, <1>2, <2>1, Stale DEF Known
<1>4. CASE Repeat
  <2>1. PICK parts \in {{"dtls"}, {"dtls", "udp"}} : Uses("arq", parts)
    BY <1>4 DEF Repeat
  <2> QED
    BY <1>1, <1>2, <2>1, Stale DEF Known
<1>5. ASSUME NEW kind \in Packet, Receive(kind)
      PROVE  StaleOnlyKnown'
  <2>1. pc["udp"] = "waiting" /\ Uses("udp", {"udp", "session"})
    BY <1>5 DEF Receive
  <2> QED
    BY <1>1, <1>2, <2>1, NotFreed, Stale
<1>6. CASE Handle
  <2>1. pc["udp"] = "busy"
    BY <1>6, HandleFacts DEF IInv
  <2>2. PICK parts \in SUBSET {"media", "config", "udp", "dtls", "session"} :
          Uses("udp", parts)
    <3>1. ASSUME NEW some \in SUBSET {"dtls", "media", "udp"}, Succeed(some)
          PROVE  Uses("udp", some \cup {"config", "session"})
      BY <3>1 DEF Succeed
    <3>2. CASE OnRtp
      BY <3>2 DEF OnRtp
    <3>3. CASE OnStun
      BY <3>3 DEF OnStun
    <3>4. CASE OnDtls
      <4>1. CASE Succeed({"dtls", "media", "udp"})
        <5>1. Uses("udp", {"dtls", "media", "udp"} \cup {"config", "session"})
          BY <3>1, <4>1
        <5> QED
          BY <5>1
      <4>2. CASE Uses("udp", {"dtls", "media", "udp", "session"})
        BY <4>2
      <4> QED
        BY <3>4, <4>1, <4>2 DEF OnDtls
    <3>5. CASE OnOther
      <4>1. Succeed({}) /\ {} \in SUBSET {"dtls", "media", "udp"}
        BY <3>5 DEF OnOther
      <4>2. Uses("udp", {} \cup {"config", "session"})
        BY <3>1, <4>1
      <4> QED
        BY <4>2
    <3> QED
      BY <1>6, <3>2, <3>3, <3>4, <3>5 DEF Handle
  <2> QED
    BY <1>1, <1>2, <2>1, <2>2, NotFreed, Stale DEF Known
<1>7. CASE StartStunTimer \/ StartTimer \/ AskTimer \/ Connect
  <2>1. /\ pc["udp"] \notin {"none", "left", "ended"}
        /\ Uses("udp", {"timers", "session"}) \/ Uses("udp", {"config", "session"})
    BY <1>7, StartFacts, ConnectFacts DEF IInv
  <2> QED
    BY <1>1, <1>2, <2>1, NotFreed, Stale DEF Known
<1> QED
  BY <1>3, <1>4, <1>5, <1>6, <1>7 DEF Udp

LEMMA Inductive == IInv /\ [Next]_vars => IInv'
<1> SUFFICES ASSUME IInv, [Next]_vars PROVE IInv'
  OBVIOUS
<1>1. CASE UNCHANGED vars
  BY <1>1, Zenon DEF vars, fields, flags, IInv, TypeOK, FlagsTrue, JoinedLeft,
                     FreedLate, StaleOnlyKnown, Beyond
<1>2. CASE Next
  <2>1. TypeOK'
    BY TypeStep DEF IInv
  <2> QED
    BY <1>2, <2>1, AppFlags, ThreadFlags, ThreadStale, OtherFlags, OtherStale
    DEF Next, IInv
<1> QED
  BY <1>1, <1>2

-----------------------------------------------------------------------------

LEMMA Invariant == Spec => []IInv
BY Initially, Inductive, PTL DEF Spec

(* yang_destroy_rtcConnection and the threads' flags: the variables stay in *)
(* their types.                                                             *)
THEOREM Typing == Spec => []TypeOK
<1>1. IInv => TypeOK
  BY DEF IInv
<1> QED
  BY <1>1, Invariant, PTL

(* Only the uses of freed parts that Known names happen, for any            *)
(* interleaving of the session's threads and of the thread that destroys it,*)
(* but for a loop that was stopped before it started, or started late.      *)
THEOREM OnlyKnownUses == Spec => []StaleOnlyKnown
<1>1. IInv => StaleOnlyKnown
  BY DEF IInv
<1> QED
  BY <1>1, Invariant, PTL

(* When yang_destroy_rtcConnection has returned, no timer of the session is *)
(* at work and the receiving thread has left its loop, unless it was late.  *)
THEOREM NothingRuns == Spec => []NoOrphan
<1>1. IInv => NoOrphan
  <2> SUFFICES ASSUME IInv, app = Ended, NEW th \in Thread \ {"arq"},
                      Of(th) \notin late
               PROVE  pc[th] \in {"none", "left", "ended"}
    BY DEF NoOrphan
  <2>1. Beyond(Of(th))
    <3>1. Of(th) \in Loop
      BY Threads
    <3>2. StopAt(Of(th)) \in 3 .. 10 /\ JoinAt(Of(th)) = StopAt(Of(th)) + 1 /\ app = 15
      BY <3>1, Steps
    <3> QED
      BY <3>2 DEF Beyond
  <2> QED
    BY <2>1 DEF IInv, JoinedLeft
<1> QED
  BY <1>1, Invariant, PTL

-----------------------------------------------------------------------------
(* The loop of the system messages, YangSysMessageHandle, with its own      *)
(* variables: for any number of posters it sleeps over a message, or over   *)
(* its own end, only if the poster is about to signal or had looked too     *)
(* early.                                                                   *)

AtWork == {"test", "mark", "wait", "drain"}
Settled == {"enter", "test", "mark", "wait", "asleep"}  \* the queue was empty

(* The loop has the lock while it works; nobody posts before it began, and  *)
(* nobody signals before it has the lock.                                   *)
LockHeld ==
  /\ sys \in AtWork => m_lock = Sys
  /\ sys = "begin" => m_sysMessages = <<>> /\ m_loop = FALSE
  /\ sys \in {"begin", "enter"} =>
       m_waitState = FALSE /\ \A p \in Poster : posting[p] # "signal"

(* m_loop says whether the loop was told to stop, but for a stop before it  *)
(* began; and then the one who told it is on the way, or the stop missed.   *)
Told ==
  /\ told /\ m_loop => "early stop" \in missed
  /\ told /\ sys = "begin" => "early stop" \in missed

(* NoneSleptOver holds from the moment the loop found the queue empty: of   *)
(* the end, from the moment it read m_loop.                                 *)
NothingLost ==
  /\ sys \in Settled /\ m_sysMessages # <<>> => Signalling \/ "message" \in missed
  /\ sys \in {"mark", "wait", "asleep"} /\ told =>
       posting[Stopper] # "no" \/ {"stop", "early stop"} \cap missed # {}

MsgIInv == MsgTypeOK /\ LockHeld /\ Told /\ NothingLost

-----------------------------------------------------------------------------

LEMMA MsgInitially ==
  ASSUME MsgInit
  PROVE  MsgIInv
<1>1. MsgTypeOK
  <2>1. posts \in [Poster -> 0 .. MaxPosts]
    BY PosterAssumption DEF MsgInit
  <2>2. m_sysMessages \in Seq(Message)
    BY DEF MsgInit
  <2> QED
    BY <2>1, <2>2, Zenon DEF MsgInit, MsgTypeOK
<1>2. LockHeld /\ Told /\ NothingLost
  BY DEF MsgInit, LockHeld, Told, NothingLost, AtWork, Settled
<1> QED
  BY <1>1, <1>2 DEF MsgIInv

LEMMA MsgTypeStep ==
  ASSUME MsgTypeOK, MsgNext
  PROVE  MsgTypeOK'
<1> USE PosterAssumption
<1>1. CASE LoopStep \/ Spurious
  <2>1. CASE HandleOne
    <3>1. Tail(m_sysMessages) \in Seq(Message)
      <4>1. m_sysMessages \in Seq(Message) /\ m_sysMessages # <<>>
        BY <2>1 DEF HandleOne, MsgTypeOK
      <4> QED
        BY <4>1
    <3> QED
      BY <2>1, <3>1 DEF HandleOne, MsgTypeOK
  <2>2. CASE Drained
    BY <2>2 DEF Drained, MsgTypeOK
  <2>3. CASE Begin \/ TakeLock \/ TestLoop
    BY <2>3, Zenon DEF Begin, TakeLock, TestLoop, MsgTypeOK
  <2>4. CASE MarkWaiting \/ Wait \/ Wake \/ Spurious
    BY <2>4, Zenon DEF MarkWaiting, Wait, Wake, Spurious, MsgTypeOK
  <2> QED
    BY <1>1, <2>1, <2>2, <2>3, <2>4 DEF LoopStep
<1>2. CASE StopLoop
  BY <1>2 DEF MsgTypeOK, StopLoop
<1>3. ASSUME NEW p \in Poster, Post(p) PROVE MsgTypeOK'
  <2>1. posts' \in [Poster -> 0 .. MaxPosts]
    <3>1. posts \in [Poster -> 0 .. MaxPosts] /\ posts[p] < MaxPosts
          /\ posts' = [posts EXCEPT ![p] = @ + 1]
      BY <1>3 DEF Post, MsgTypeOK
    <3>2. posts[p] + 1 \in 0 .. MaxPosts
      BY <3>1
    <3> QED
      BY <3>1, <3>2
  <2>2. Append(m_sysMessages, "message") \in Seq(Message)
    <3>1. "message" \in Message
      BY DEF Message
    <3>2. m_sysMessages \in Seq(Message)
      BY DEF MsgTypeOK
    <3> QED
      BY <3>1, <3>2
  <2>3. [posting EXCEPT ![p] = "look"] \in [Poster -> {"no", "look", "signal"}]
    BY DEF MsgTypeOK
  <2> QED
    BY <1>3, <2>1, <2>2, <2>3, Zenon DEF Post, MsgTypeOK
<1>4. ASSUME NEW p \in Poster, Look(p) PROVE MsgTypeOK'
  BY <1>4 DEF MsgTypeOK, Look, Unsignalled
<1>5. ASSUME NEW p \in Poster, Signal(p) PROVE MsgTypeOK'
  BY <1>5 DEF MsgTypeOK, Signal
<1> QED
  BY <1>1, <1>2, <1>3, <1>4, <1>5 DEF MsgNext

LEMMA LockStep ==
  ASSUME MsgIInv, MsgNext
  PROVE  LockHeld'
<1> USE DEF MsgIInv, LockHeld, AtWork
<1>1. CASE LoopStep \/ Spurious
  BY <1>1 DEF LoopStep, Begin, TakeLock, TestLoop, MarkWaiting, Wait, Wake, HandleOne,
              Drained, Spurious
<1>2. CASE StopLoop
  BY <1>2 DEF StopLoop, MsgTypeOK
<1>3. ASSUME NEW p \in Poster, Post(p) \/ Look(p) \/ Signal(p) PROVE LockHeld'
  BY <1>3 DEF Post, Look, Signal, MayLock, MsgTypeOK
<1> QED
  BY <1>1, <1>2, <1>3 DEF MsgNext

LEMMA ToldStep ==
  ASSUME MsgIInv, MsgNext
  PROVE  Told'
<1> USE DEF MsgIInv, Told
<1>1. CASE Drained
  BY <1>1 DEF Drained
<1>2. CASE Begin
  BY <1>2 DEF Begin
<1>3. CASE TakeLock \/ TestLoop \/ MarkWaiting \/ Wait \/ Wake \/ HandleOne \/ Spurious
  <2>1. told' = told /\ m_loop' = m_loop /\ missed' = missed
    BY <1>3 DEF TakeLock, TestLoop, MarkWaiting, Wait, Wake, HandleOne, Spurious
  <2>2. sys' = "begin" => sys = "begin"
    BY <1>3 DEF TakeLock, TestLoop, MarkWaiting, Wait, Wake, HandleOne, Spurious
  <2> QED
    BY <2>1, <2>2
<1>4. CASE StopLoop
  BY <1>4 DEF StopLoop
<1>5. ASSUME NEW p \in Poster, Post(p) \/ Look(p) \/ Signal(p) PROVE Told'
  <2>1. told' = told /\ m_loop' = m_loop /\ missed \subseteq missed'
    BY <1>5 DEF Post, Look, Signal
  <2>2. sys' = "begin" => sys = "begin"
    BY <1>5 DEF Post, Look, Signal
  <2> QED
    BY <2>1, <2>2
<1> QED
  BY <1>1, <1>2, <1>3, <1>4, <1>5 DEF MsgNext, LoopStep

(* A poster that is still on its way, or was not needed.                    *)
LEMMA LostStep ==
  ASSUME MsgIInv, MsgNext
  PROVE  NothingLost'
<1> USE DEF MsgIInv, NothingLost, Settled
<1>1. CASE LoopStep \/ Spurious
  <2>1. CASE Begin \/ TakeLock \/ HandleOne
    BY <2>1 DEF Begin, TakeLock, HandleOne, LockHeld, Signalling
  <2>2. CASE TestLoop
    BY <2>2 DEF TestLoop, Told, Signalling
  <2>3. CASE MarkWaiting \/ Wait \/ Wake \/ Spurious
    <3>1. UNCHANGED <<m_loop, m_sysMessages, posting, told, missed>>
      BY <2>3 DEF MarkWaiting, Wait, Wake, Spurious
    <3>2. /\ sys' \in Settled => sys \in Settled
          /\ sys' \in {"mark", "wait", "asleep"} => sys \in {"mark", "wait", "asleep"}
      BY <2>3 DEF MarkWaiting, Wait, Wake, Spurious
    <3> QED
      BY <3>1, <3>2 DEF Signalling
  <2>4. CASE Drained
    BY <2>4 DEF Drained, Signalling
  <2> QED
    BY <1>1, <2>1, <2>2, <2>3, <2>4 DEF LoopStep
<1>2. CASE StopLoop
  <2>1. posting'[Stopper] = "look"
    BY <1>2, PosterAssumption DEF StopLoop, MsgTypeOK
  <2> QED
    BY <2>1, PosterAssumption DEF Signalling
<1>3. ASSUME NEW p \in Poster, Post(p) PROVE NothingLost'
  <2>1. CASE m_loop
    <3>1. Signalling' /\ (posting[Stopper] # "no" => posting'[Stopper] # "no")
      BY <1>3, <2>1, PosterAssumption DEF Post, Signalling, MsgTypeOK
    <3> QED
      BY <1>3, <3>1 DEF Post
  <2>2. CASE ~m_loop
    BY <1>3, <2>2 DEF Post, Signalling
  <2> QED
    BY <2>1, <2>2
<1>4. ASSUME NEW p \in Poster, Look(p) PROVE NothingLost'
  <2>1. CASE m_waitState
    <3>1. Signalling' /\ (posting[Stopper] # "no" => posting'[Stopper] # "no")
      BY <1>4, <2>1, PosterAssumption DEF Look, Signalling, MsgTypeOK
    <3> QED
      BY <1>4, <2>1, <3>1 DEF Look
  <2>2. CASE ~m_waitState
    <3>1. /\ UNCHANGED <<m_loop, m_sysMessages, sys, told>>
          /\ missed' = missed \cup Unsignalled(p)
          /\ posting' = [posting EXCEPT ![p] = "no"]
      BY <1>4, <2>2 DEF Look
    <3>2. m_sysMessages # <<>> => "message" \in missed'
      BY <3>1 DEF Unsignalled
    <3>3. told => posting'[Stopper] = posting[Stopper]
                  \/ {"stop", "early stop"} \cap missed' # {}
      <4>1. CASE p = Stopper
        BY <3>1, <4>1 DEF Unsignalled, Told, MsgTypeOK
      <4>2. CASE p # Stopper
        BY <3>1, <4>2, PosterAssumption DEF MsgTypeOK
      <4> QED
        BY <4>1, <4>2
    <3> QED
      BY <3>1, <3>2, <3>3
  <2> QED
    BY <2>1, <2>2
<1>5. ASSUME NEW p \in Poster, Signal(p) PROVE NothingLost'
  <2>1. sys \notin AtWork
    BY <1>5 DEF Signal, MayLock, LockHeld, Nobody, Sys
  <2>2. sys \notin {"begin", "enter"}
    BY <1>5 DEF Signal, LockHeld
  <2> QED
    BY <1>5, <2>1, <2>2 DEF Signal, AtWork, MsgTypeOK
<1> QED
  BY <1>1, <1>2, <1>3, <1>4, <1>5 DEF MsgNext

LEMMA MsgInductive ==
  ASSUME MsgIInv, [MsgNext]_msgVars
  PROVE  MsgIInv'
<1>1. CASE UNCHANGED msgVars
  BY <1>1 DEF msgVars, MsgIInv, MsgTypeOK, LockHeld, Told, NothingLost, Signalling
<1>2. CASE MsgNext
  BY <1>2, MsgTypeStep, LockStep, ToldStep, LostStep DEF MsgIInv
<1> QED
  BY <1>1, <1>2

-----------------------------------------------------------------------------

LEMMA MsgInvariant == MsgSpec => []MsgIInv
<1>1. MsgInit => MsgIInv
  BY MsgInitially
<1>2. MsgIInv /\ [MsgNext]_msgVars => MsgIInv'
  BY MsgInductive
<1>3. QED
  BY <1>1, <1>2, PTL DEF MsgSpec

(* YangSysMessageHandle: the variables stay in their types; in particular   *)
(* no poster keeps m_lock.                                                  *)
THEOREM MsgTyping == MsgSpec => []MsgTypeOK
<1>1. MsgIInv => MsgTypeOK
  BY DEF MsgIInv
<1> QED
  BY <1>1, MsgInvariant, PTL

(* YangSysMessageHandle::startLoop and putMessage: for any number of        *)
(* posters, a message or a stop is slept over only if it is about to be     *)
(* signalled, or if the poster saw m_waitState before the loop had set it,  *)
(* or if the stop came before startLoop set m_loop.                         *)
THEOREM OnlyEarlyLooksAreLost == MsgSpec => []NoneSleptOver
<1>1. MsgIInv => NoneSleptOver
  BY DEF MsgIInv, NothingLost, NoneSleptOver, Settled
<1> QED
  BY <1>1, MsgInvariant, PTL

=============================================================================
