------------------------------- MODULE MCTimer -------------------------------
(* Small instances of Timer for TLC. *)
EXTENDS Timer

CONSTANTS a, b
=============================================================================
