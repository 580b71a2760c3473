------------------------------- MODULE MCQueue -------------------------------
(* Small instances of Queue for TLC. *)
EXTENDS Queue, TLC

CONSTANTS p1, p2, c1, c2, owner

\* Every operation: two producers (one of them also posts past the limit and
\* revokes), one consumer, and an owner that disables, flushes and enables.
FullCalls ==
    p1 :> {"Insert", "Post", "Remove"} @@ p2 :> {"Insert"} @@ c1 :> {"Extract"}
        @@ c2 :> {"Extract"} @@ owner :> {"Disable", "Flush", "Enable"}

\* Producers, consumers and a shutdown that is final.
PlainCalls ==
    p1 :> {"Insert"} @@ p2 :> {"Insert"} @@ c1 :> {"Extract"}
        @@ c2 :> {"Extract"} @@ owner :> {"Disable", "Flush"}
=============================================================================
