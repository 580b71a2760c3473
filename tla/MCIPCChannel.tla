---------------------------- MODULE MCIPCChannel ----------------------------
(* Small instances of IPCChannel for TLC: the first two callers send the same *)
(* message, a third one and the announcement messages of their own.          *)
EXTENDS IPCChannel

CONSTANTS c1, c2, c3

InvokeLabel(x) == IF x \in {c1, c2} THEN "invoke" ELSE IF x = c3 THEN "object" ELSE "announce"
MCLabel == [x \in Callers \cup {Announcer} |-> InvokeLabel(x)]
=============================================================================
