--------------------------- MODULE MCPublishVideo ---------------------------
(* The sending side with a queue of five packets. *)
EXTENDS PublishVideo

MCFrameSizes == {1, 3, 4, 6}

=============================================================================
