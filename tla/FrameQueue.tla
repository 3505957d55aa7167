---------------------------- MODULE FrameQueue ----------------------------
(***************************************************************************)
(* What a YangMediaBuffer promises to the two ends of a media pipeline: a  *)
(* queue of at most Capacity frames, read in the order they were put, that *)
(* loses a frame only by not taking it.                                    *)
(*                                                                         *)
(* Where several threads put (the peers of a p2p session, each with its    *)
(* own receiving thread) the promise is weaker by one frame for each       *)
(* further thread: up to Slack frames may be put over the capacity, and    *)
(* each of them takes the place of a frame that was not read yet.          *)
(***************************************************************************)
EXTENDS Naturals, Sequences

CONSTANTS Frame, Capacity, Slack

VARIABLES
  queue,  \* the frames the consumer will read, the next one first
  out     \* the frame it was handed last

vars == <<queue, out>>

Init == queue = <<>> /\ out \in Frame

Put(f) ==
  /\ Len(queue) < Capacity
  /\ queue' = Append(queue, f)
  /\ UNCHANGED out

(* The frame Capacity places before the new one is overwritten by it; and   *)
(* if there are more threads than places, so are those further before.      *)
Overrun(f) ==
  /\ Capacity <= Len(queue) /\ Len(queue) < Capacity + Slack
  /\ queue' = Append([k \in DOMAIN queue |->
                       IF (Len(queue) + 1 - k) % Capacity = 0 THEN f ELSE queue[k]], f)
  /\ UNCHANGED out

Get ==
  /\ queue # <<>>
  /\ out' = Head(queue)
  /\ queue' = Tail(queue)

Clear == queue' = <<>> /\ UNCHANGED out

Next == (\E f \in Frame : Put(f) \/ Overrun(f)) \/ Get \/ Clear

Spec == Init /\ [][Next]_vars

=============================================================================
