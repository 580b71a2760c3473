------------------------------ MODULE JobPool ------------------------------
(***************************************************************************)
(* What a pool of workers promises about jobs: a job that is submitted is  *)
(* run at most once for it, by one worker, unless it is revoked or dropped *)
(* before; and a revocation that returns leaves the job out of the pool,   *)
(* save when its time was over.                                            *)
(***************************************************************************)
CONSTANTS Jobs, Clients, Timed, NoJob

VARIABLES status,    \* what the pool has to do with each job
          revoking   \* the job whose end each client waits for

vars == <<status, revoking>>

Init ==
    /\ status = [j \in Jobs |-> "idle"]
    /\ revoking = [c \in Clients |-> NoJob]

Moves(j, from, to) == status[j] = from /\ status' = [status EXCEPT ![j] = to]

Submit(j) == Moves(j, "idle", "queued") /\ UNCHANGED revoking
Start(j) == Moves(j, "queued", "running") /\ UNCHANGED revoking
Finish(j) == Moves(j, "running", "idle") /\ UNCHANGED revoking
Cancel(j) == Moves(j, "queued", "idle") /\ UNCHANGED revoking

\* Everything that has not been started is dropped.
Drop ==
    /\ status' = [j \in Jobs |-> IF status[j] = "queued" THEN "idle" ELSE status[j]]
    /\ UNCHANGED revoking

\* A revocation that comes too late to cancel waits for the end of the job.
Revoke(c, j) ==
    /\ revoking[c] = NoJob
    /\ status[j] # "queued"
    /\ revoking' = [revoking EXCEPT ![c] = j]
    /\ UNCHANGED status

Return(c) ==
    /\ revoking[c] # NoJob
    /\ status[revoking[c]] = "idle" \/ c \in Timed
    /\ revoking' = [revoking EXCEPT ![c] = NoJob]
    /\ UNCHANGED status

Next ==
    \/ \E j \in Jobs : Submit(j) \/ Start(j) \/ Finish(j) \/ Cancel(j)
    \/ Drop
    \/ \E c \in Clients : Return(c) \/ \E j \in Jobs : Revoke(c, j)

Spec == Init /\ [][Next]_vars
=============================================================================
