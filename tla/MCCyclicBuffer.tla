--------------------------- MODULE MCCyclicBuffer ---------------------------
(* Small instances of CyclicBuffer for TLC. *)
EXTENDS CyclicBuffer
=============================================================================
