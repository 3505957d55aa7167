----------------------------- MODULE SysMessage -----------------------------
(***************************************************************************)
(* YangSysMessageHandle: a queue of messages, the loop of the one thread   *)
(* that handles them, the threads that post and the one that stops it.     *)
(* The loop holds m_lock except while it waits on the condition variable;  *)
(* a poster takes m_lock only to signal, and only if it sees m_waitState   *)
(* set.  What handling a message does is left open: the modules of the     *)
(* handlers model it.  The names begin with Msg where SessionLife, whose   *)
(* proofs share a module with these, has its own.                          *)
(***************************************************************************)
EXTENDS Naturals, Sequences

CONSTANTS Poster,       \* the threads that post; one of them ...
          Stopper,      \* ... also stops the loop
          MaxPosts      \* bound: messages of each poster

ASSUME PosterAssumption == Stopper \in Poster /\ MaxPosts \in Nat

Sys  == "sys"           \* the thread of the loop
Nobody == "free"          \* the lock when nobody holds it
Message == {"message"}    \* messages are told apart nowhere

VARIABLES
  m_loop,
  m_sysMessages,
  m_waitState, m_lock,
  sys,                  \* where the loop is
  posting,              \* where each poster is in putMessage or stopLoop
  posts,                \* how many messages it posted
  told,                 \* history: stopLoop was called
  missed                \* history: what was left to the loop without a signal,
                        \* "message" or "stop", and an "early stop"

msgVars == <<m_loop, m_sysMessages, m_waitState, m_lock, sys, posting, posts,
             told, missed>>

MsgInit ==
  /\ m_loop = FALSE /\ m_sysMessages = <<>> /\ m_waitState = FALSE
  /\ m_lock = Nobody /\ sys = "begin"
  /\ posting = [p \in Poster |-> "no"] /\ posts = [p \in Poster |-> 0]
  /\ told = FALSE /\ missed = {}

-----------------------------------------------------------------------------
(* The loop. *)

(* startLoop sets m_loop, whatever it was, and only then takes the lock.    *)
Begin ==
  /\ sys = "begin"
  /\ sys' = "enter" /\ m_loop' = TRUE
  /\ UNCHANGED <<m_sysMessages, m_waitState, m_lock, posting, posts, told, missed>>
TakeLock ==
  /\ sys = "enter" /\ m_lock = Nobody
  /\ sys' = "test" /\ m_lock' = Sys
  /\ UNCHANGED <<m_loop, m_sysMessages, m_waitState, posting, posts, told, missed>>

TestNothing ==
  /\ sys = "test"
  /\ sys' = "mark"
  /\ UNCHANGED <<m_loop, m_sysMessages, m_waitState, m_lock, posting, posts, told, missed>>
TestLoop ==
  /\ sys = "test"
  /\ IF m_loop THEN sys' = "mark" /\ UNCHANGED m_lock
               ELSE sys' = "over" /\ m_lock' = Nobody
  /\ UNCHANGED <<m_loop, m_sysMessages, m_waitState, posting, posts, told, missed>>

MarkWaiting ==
  /\ sys = "mark"
  /\ sys' = "wait" /\ m_waitState' = TRUE
  /\ UNCHANGED <<m_loop, m_sysMessages, m_lock, posting, posts, told, missed>>

(* pthread_cond_wait, from which a thread may return unsignalled.           *)
Wait ==
  /\ sys = "wait"
  /\ sys' = "asleep" /\ m_lock' = Nobody
  /\ UNCHANGED <<m_loop, m_sysMessages, m_waitState, posting, posts, told, missed>>
Spurious ==
  /\ sys = "asleep"
  /\ sys' = "woken"
  /\ UNCHANGED <<m_loop, m_sysMessages, m_waitState, m_lock, posting, posts, told, missed>>
Wake ==
  /\ sys = "woken" /\ m_lock = Nobody
  /\ sys' = "drain" /\ m_lock' = Sys /\ m_waitState' = FALSE
  /\ UNCHANGED <<m_loop, m_sysMessages, posting, posts, told, missed>>

(* The messages are handled one after the other; a message is erased when   *)
(* its handler is done.                                                     *)
HandleOne ==
  /\ sys = "drain" /\ m_sysMessages # <<>>
  /\ m_sysMessages' = Tail(m_sysMessages)
  /\ UNCHANGED <<m_loop, m_waitState, m_lock, sys, posting, posts, told, missed>>
Drained ==
  /\ sys = "drain" /\ m_sysMessages = <<>>
  /\ sys' = "test" /\ missed' = missed \ {"message"}
  /\ UNCHANGED <<m_loop, m_sysMessages, m_waitState, m_lock, posting, posts, told>>

LoopStep == Begin \/ TakeLock \/ TestLoop \/ MarkWaiting \/ Wait \/ Wake
              \/ HandleOne \/ Drained

-----------------------------------------------------------------------------
(* putMessage, and stopLoop. *)

(* A message posted while there is no loop is dropped.                      *)
Post(p) ==
  /\ posting[p] = "no" /\ posts[p] < MaxPosts
  /\ posts' = [posts EXCEPT ![p] = @ + 1]
  /\ IF m_loop
     THEN /\ m_sysMessages' = Append(m_sysMessages, "message")
          /\ posting' = [posting EXCEPT ![p] = "look"]
     ELSE UNCHANGED <<m_sysMessages, posting>>
  /\ UNCHANGED <<m_loop, m_waitState, m_lock, sys, told, missed>>

(* A stop that comes before startLoop has set m_loop is overwritten.        *)
StopLoop ==
  /\ posting[Stopper] = "no"
  /\ m_loop' = FALSE /\ told' = TRUE
  /\ posting' = [posting EXCEPT ![Stopper] = "look"]
  /\ missed' = IF sys = "begin" THEN missed \cup {"early stop"}
               ELSE missed \ {"early stop"}
  /\ UNCHANGED <<m_sysMessages, m_waitState, m_lock, sys, posts>>

Unsignalled(p) ==
  (IF m_sysMessages = <<>> THEN {} ELSE {"message"}) \cup
  (IF p = Stopper /\ ~m_loop THEN {"stop"} ELSE {})
Look(p) ==
  /\ posting[p] = "look"
  /\ IF m_waitState
     THEN posting' = [posting EXCEPT ![p] = "signal"] /\ UNCHANGED missed
     ELSE posting' = [posting EXCEPT ![p] = "no"] /\ missed' = missed \cup Unsignalled(p)
  /\ UNCHANGED <<m_loop, m_sysMessages, m_waitState, m_lock, sys, posts, told>>

Unlocked == TRUE
MayLock == m_lock = Nobody
SignalKeepsLock(p) ==
  /\ posting[p] = "signal" /\ m_lock = Nobody
  /\ posting' = [posting EXCEPT ![p] = "no"]
  /\ sys' = IF sys = "asleep" THEN "woken" ELSE sys
  /\ m_lock' = p
  /\ UNCHANGED <<m_loop, m_sysMessages, m_waitState, posts, told, missed>>
Signal(p) ==
  /\ posting[p] = "signal" /\ MayLock
  /\ posting' = [posting EXCEPT ![p] = "no"]
  /\ sys' = IF sys = "asleep" THEN "woken" ELSE sys
  /\ UNCHANGED <<m_loop, m_sysMessages, m_waitState, m_lock, posts, told, missed>>

MsgNext ==
  \/ LoopStep \/ Spurious \/ StopLoop
  \/ \E p \in Poster : Post(p) \/ Look(p) \/ Signal(p)

MsgSpec == MsgInit /\ [][MsgNext]_msgVars

(* The scheduler runs the loop, and the threads inside putMessage.          *)
MsgFairness ==
  /\ WF_msgVars(LoopStep)
  /\ \A p \in Poster : WF_msgVars(Look(p)) /\ SF_msgVars(Signal(p))
MsgFairSpec == MsgSpec /\ MsgFairness

-----------------------------------------------------------------------------

MsgTypeOK ==
  /\ m_loop \in BOOLEAN /\ m_waitState \in BOOLEAN
  /\ m_sysMessages \in Seq(Message)
  /\ m_lock \in {Nobody, Sys}
  /\ sys \in {"begin", "enter", "test", "mark", "wait", "asleep", "woken", "drain", "over"}
  /\ posting \in [Poster -> {"no", "look", "signal"}]
  /\ posts \in [Poster -> 0 .. MaxPosts]
  /\ told \in BOOLEAN /\ missed \subseteq {"message", "stop", "early stop"}

(* The loop sleeps over a message only if whoever posted it is still on the *)
(* way to signal, or looked at m_waitState before the loop had set it; and  *)
(* over its own end only so, or if it was told before it began.  A signal   *)
(* is never sent between the loop's test and its sleep.                     *)
Signalling == \E p \in Poster : posting[p] # "no"
NoneSleptOver ==
  sys = "asleep" =>
    /\ m_sysMessages # <<>> => Signalling \/ "message" \in missed
    /\ told => posting[Stopper] # "no" \/ {"stop", "early stop"} \cap missed # {}

(* A message that is not missed is handled.  A loop that is told to stop    *)
(* ends, unless the stop was missed, or came before startLoop set m_loop and*)
(* was not repeated: that one never ends the loop, and the destructor, which*)
(* stops once and waits for m_isStart, with it.                             *)
Served ==
  /\ (m_sysMessages # <<>>) ~> (m_sysMessages = <<>> \/ "message" \in missed)
  /\ told ~> (sys = "over" \/ {"stop", "early stop"} \cap missed # {})
=============================================================================
