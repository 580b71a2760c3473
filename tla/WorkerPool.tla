----------------------------- MODULE WorkerPool -----------------------------
(***************************************************************************)
(* PluginHost::WorkerPool (Source/plugins/Service.h): the pool of units of *)
(* ThreadPool and a timer whose entries, when they are due, submit their   *)
(* job to it.  Clients submit, schedule and revoke jobs; a job may         *)
(* schedule itself again while it is dispatched, as the one that closes    *)
(* idle channels does (Source/WPEFramework/PluginServer.h:2137-2140).      *)
(*                                                                         *)
(* The timer is used as Timer.tla shows it: it serves one entry at a time, *)
(* without its lock, and Revoke removes every entry of the job that is     *)
(* still listed.  When an entry is due is left open.                       *)
(***************************************************************************)
EXTENDS ThreadPool

CONSTANTS Repeating,   \* jobs whose Dispatch() schedules them again
          MaxTimed     \* bound of the model on the entries of a job in the timer

ASSUME RepeatingAssumption == Repeating \subseteq Jobs /\ MaxTimed \in Nat

VARIABLES timed,   \* how often each job is in m_PendingQueue
          hand,    \* the job whose Timed() runs
          taken    \* the job each client has taken out of the timer, in Revoke

timerVars == <<timed, hand, taken>>
poolVars == <<queue, disabled, unitVars, clientVars, ownerVars>>
allVars == <<poolVars, timerVars>>

WorkerTypeOK ==
    /\ TypeOK
    /\ timed \in [Jobs -> 0..MaxTimed]
    /\ hand \in Jobs \cup {NoJob}
    /\ taken \in [Clients -> Jobs \cup {NoJob}]
    /\ \A c \in Clients : taken[c] # NoJob => at[c] = "idle"

WorkerInit ==
    /\ Init
    /\ timed = [j \in Jobs |-> 0]
    /\ hand = NoJob
    /\ taken = [c \in Clients |-> NoJob]

Idle(c) == at[c] = "idle" /\ taken[c] = NoJob

\* One more entry of j in the timer.
AddTimed(j) ==
    /\ timed[j] < MaxTimed
    /\ timed' = [timed EXCEPT ![j] = @ + 1]
    /\ UNCHANGED <<poolVars, hand, taken>>

Schedule(c, j) == Idle(c) /\ AddTimed(j)

SubmitJob(c, j) == Idle(c) /\ Submit(c, j) /\ UNCHANGED timerVars

\* The Dispatch() of a repeating job schedules it.
Repeat(u) == pc[u] = "dispatch" /\ executing[u] \in Repeating /\ AddTimed(executing[u])

\* The timer takes an entry that is due out of its list and calls Timed() ...
Fire(j) ==
    /\ hand = NoJob
    /\ timed[j] > 0
    /\ hand' = j
    /\ timed' = [timed EXCEPT ![j] = @ - 1]
    /\ UNCHANGED <<poolVars, taken>>

\* Mutant: the job is not submitted.
ExpireOnly ==
    /\ hand # NoJob
    /\ hand' = NoJob
    /\ UNCHANGED <<poolVars, timed, taken>>

\* ... which submits the job, in vain to a disabled queue.
Expire ==
    /\ hand # NoJob
    /\ disabled \/ Len(queue) < MaxQueue
    /\ queue' = IF disabled THEN queue ELSE Append(queue, hand)
    /\ hand' = NoJob
    /\ UNCHANGED <<disabled, unitVars, clientVars, ownerVars, timed, taken>>

\* Revoke: first the timer ...
RevokeTimed(c, j) ==
    /\ Idle(c)
    /\ timed' = [timed EXCEPT ![j] = 0]
    /\ taken' = [taken EXCEPT ![c] = j]
    /\ UNCHANGED <<poolVars, hand>>

\* ... then the pool: its queue, or its units.
RevokePool(c) ==
    /\ taken[c] # NoJob
    /\ RevokeQueued(c, taken[c]) \/ RevokeScan(c, taken[c])
    /\ taken' = [taken EXCEPT ![c] = NoJob]
    /\ UNCHANGED <<timed, hand>>

TimerThread == Expire \/ \E j \in Jobs : Fire(j)

WorkerNext ==
    \/ (\E u \in Units : Unit(u)) /\ UNCHANGED timerVars
    \/ (\E c \in Clients : Client(c)) /\ UNCHANGED timerVars
    \/ (Owner \/ \E p \in Plans : Begin(p)) /\ UNCHANGED timerVars
    \/ \E c \in Clients, j \in Jobs : Schedule(c, j) \/ SubmitJob(c, j) \/ RevokeTimed(c, j)
    \/ \E c \in Clients : RevokePool(c)
    \/ \E u \in Units : Repeat(u)
    \/ TimerThread

WorkerSpec == WorkerInit /\ [][WorkerNext]_allVars

\* The units run, and an entry of the timer comes to be served (EntryLeaves of
\* Timer.tla): strongly, for MaxQueue, a bound of the model, and the entries before
\* it hold it up.
FairWorkerSpec ==
    /\ WorkerSpec
    /\ \A u \in Units : WF_allVars(Unit(u) /\ UNCHANGED timerVars)
    /\ SF_allVars(Expire)
    /\ \A j \in Jobs : SF_allVars(Fire(j))
    /\ WF_allVars(Owner /\ UNCHANGED timerVars)

-----------------------------------------------------------------------------
\* A scheduled job is handed to the pool and taken up there, unless it is revoked
\* or the pool is blocked (Service.h:82-89, :128-131).
ScheduledRuns ==
    \A j \in Jobs : timed[j] > 0 ~>
        \/ disabled
        \/ \E u \in Units : Executes(u, j)
        \/ \E c \in Clients : taken[c] = j

\* Where a job can be.
InPool(j) == timed[j] > 0 \/ hand = j \/ Queued(j) \/ \E u \in Units : Executes(u, j)

\* Revoke takes the job out of both: "First check the timer if it can be removed
\* from there. Also make sure it is taken of the WorkerPool, if applicable."
\* (Service.h:134-137)  TLC finds this violated (README, "Divergences").
RevokedIsOut ==
    [][\A c \in Clients, j \in Jobs :
         (taken[c] = j \/ job[c] = j) /\ taken'[c] = NoJob /\ job'[c] = NoJob => ~InPool(j)']_allVars
=============================================================================
