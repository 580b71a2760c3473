------------------------------ MODULE MCWatchDog ------------------------------
(* A small instance of WatchDog for TLC. *)
EXTENDS WatchDog
=============================================================================
