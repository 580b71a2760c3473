--------------------------- MODULE MCStateTrigger ---------------------------
(* Small instances of StateTrigger for TLC. *)
EXTENDS StateTrigger

\* The masks the queue and the thread wait for are like these: one accepting a
\* single state, one accepting the others.
MCGoals == LET s == CHOOSE s \in States : TRUE IN {{s}, States \ {s}}
=============================================================================
