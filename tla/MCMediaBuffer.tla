--------------------------- MODULE MCMediaBuffer ---------------------------
(* Two peers fill a ring of three slots, one thread reads it.                *)
EXTENDS MediaBuffer
CONSTANTS p1, p2, c, none, f1, f2, torn
MCProducers == {p1, p2}
MCFrame == {f1, f2}
=============================================================================
