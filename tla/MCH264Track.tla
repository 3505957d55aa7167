---------------------------- MODULE MCH264Track -----------------------------
(* The video track with a cache of five or six packets. *)
EXTENDS H264Track

=============================================================================
