------------------------------ MODULE MCThread ------------------------------
(* Small instances of Thread for TLC. *)
EXTENDS Thread, SequencesExt

CONSTANTS c1, c2

\* Every sequence of up to two calls, by each controller, followed by nothing, by
\* a wait for the thread to stop working, or by the destructor.
Calls == {"Init", "Run", "Block", "Stop"}
AllScripts ==
    LET prefix == SeqOf(Calls, 2)
    IN  prefix \cup {Append(s, last) : s \in prefix, last \in {"Wait", "Terminate"}}

\* What ThreadPoolType does to a unit: run it, block it and wait for it.
BlockScripts == {<<"Run", "Block", "Wait">>}
=============================================================================
