--------------------------- MODULE MCRemoteProcess ---------------------------
(* Small instances of RemoteProcess for TLC. *)
EXTENDS RemoteProcess
=============================================================================
