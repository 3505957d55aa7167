-------------------------- MODULE MCRtcHandshake --------------------------
(* Two packets may be lost and one flight repeated too early.               *)
EXTENDS RtcHandshake
CONSTANTS client, server
=============================================================================
