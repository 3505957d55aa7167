----------------------------- MODULE MCRtcpNack -----------------------------
(* The NACK codec with masks of three bits. *)
EXTENDS RtcpNack

MCForeignPids == {0, 2, 3, 15}

=============================================================================
