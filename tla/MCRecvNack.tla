----------------------------- MODULE MCRecvNack -----------------------------
(* The loss tracker on a circle of a few sequence numbers. *)
EXTENDS RecvNack

MCRtts == {1, 14}

=============================================================================
