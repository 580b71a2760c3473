--------------------------- MODULE MCPluginService ---------------------------
(* Small instances of PluginService for TLC. *)
EXTENDS PluginService

CONSTANTS network, time
=============================================================================
