----------------------------- MODULE ThreadPool -----------------------------
(***************************************************************************)
(* Core::ThreadPoolType (Source/core/Thread.h): units, each a Thread whose *)
(* Worker() takes a job from the shared queue, dispatches it and returns 0 *)
(* to be called again; clients that submit and revoke jobs; an owner that  *)
(* blocks, runs and destroys the pool, or blocks it and waits for the      *)
(* units, as the server does when it ends (PluginServer.cpp:622-631).      *)
(*                                                                         *)
(* Composed of: the queue as BoundedBuffer promises it (a section under    *)
(* m_Admin is one step; its limit is Queue's subject, MaxQueue is a bound  *)
(* of the model), and the loop of Thread.tla from Worker() to Worker() for *)
(* a thread that is never stopped.  A unit's Event is the one of Sync.cpp: *)
(* PulseEvent sets the condition, yields and resets it, and a waiter that  *)
(* does not look in between misses it.                                     *)
(***************************************************************************)
EXTENDS Integers, Sequences

CONSTANTS N,          \* THREADCOUNT
          Clients,    \* the threads that submit and revoke
          Jobs,       \* CONTEXT
          MaxQueue,   \* bound of the model on the queue
          Timed,      \* clients that revoke with a finite waitTime
          Plans,      \* what the owner may do: "Block", "Run", "Stop", "Destroy"
          Resubmit,   \* jobs are submitted while in the pool or being revoked
          NoJob       \* RUNCONTEXT(): no job

ASSUME CountAssumption == N \in Nat \ {0} /\ MaxQueue \in Nat
ASSUME JobsAssumption == NoJob \notin Jobs
ASSUME PlansAssumption == Plans \subseteq {"Block", "Run", "Stop", "Destroy"} /\ Resubmit \in BOOLEAN

Units == 1..N

VARIABLES queue,      \* _queue
          disabled,   \* _queue is DISABLED
          state,      \* m_enumState of each unit
          pc,         \* where each unit is
          delay,      \* what Worker() returned
          executing,  \* _executing of each unit
          signal,     \* _signal of each unit is set
          at,         \* where each client is
          job,        \* the job a client revokes
          count,      \* the unit a client or the owner is at
          plan,       \* what the owner is doing
          ownerCount  \* teller of the owner

unitVars == <<state, pc, delay, executing, signal>>
clientVars == <<at, job, count>>
ownerVars == <<plan, ownerCount>>
vars == <<queue, disabled, unitVars, clientVars, ownerVars>>

TypeOK ==
    /\ queue \in Seq(Jobs)
    /\ disabled \in BOOLEAN
    /\ state \in [Units -> {"RUNNING", "DEACTIVATE", "BLOCKED"}]
    /\ pc \in [Units -> {"wait", "pulse", "reset", "extract", "dispatch", "worked"}]
    /\ delay \in [Units -> {"zero", "infinite"}]
    /\ executing \in [Units -> Jobs \cup {NoJob}]
    /\ signal \in [Units -> BOOLEAN]
    /\ at \in [Clients -> {"idle", "scan", "signal"}]
    /\ job \in [Clients -> Jobs \cup {NoJob}]
    /\ count \in [Clients -> 0..N]
    /\ plan \in {"none", "Block", "Run", "Stop", "Destroy", "Flush", "Wait", "done"}
    /\ ownerCount \in 0..N

\* Every unit has been run by its constructor.
Init ==
    /\ queue = <<>>
    /\ disabled = FALSE
    /\ state = [u \in Units |-> "RUNNING"]
    /\ pc = [u \in Units |-> "wait"]
    /\ delay = [u \in Units |-> "infinite"]
    /\ executing = [u \in Units |-> NoJob]
    /\ signal = [u \in Units |-> FALSE]
    /\ at = [c \in Clients |-> "idle"]
    /\ job = [c \in Clients |-> NoJob]
    /\ count = [c \in Clients |-> 0]
    /\ plan = "none"
    /\ ownerCount = 0

Queued(j) == \E i \in DOMAIN queue : queue[i] = j
Executes(u, j) == executing[u] = j
Revoked(j) == \E c \in Clients : job[c] = j

-----------------------------------------------------------------------------
\* A unit

UnitGoTo(u, location) == pc' = [pc EXCEPT ![u] = location]

\* Mutant: a unit is woken by its delay only.
WokeByDelay(u) ==
    /\ pc[u] = "wait"
    /\ delay[u] = "zero"
    /\ state' = [state EXCEPT ![u] = "RUNNING"]
    /\ UnitGoTo(u, "pulse")
    /\ UNCHANGED <<queue, disabled, delay, executing, signal, clientVars, ownerVars>>

\* WaitState(RUNNING | STOPPED | STOPPING, delayed) returns, the thread takes its
\* lock, makes BLOCKED RUNNING and looks whether to call Worker().
Woke(u) ==
    /\ pc[u] = "wait"
    /\ state[u] = "RUNNING" \/ delay[u] = "zero"
    /\ IF state[u] = "DEACTIVATE"
         THEN delay' = [delay EXCEPT ![u] = "infinite"] /\ UNCHANGED <<state, pc>>
         ELSE state' = [state EXCEPT ![u] = "RUNNING"] /\ UnitGoTo(u, "pulse") /\ UNCHANGED delay
    /\ UNCHANGED <<queue, disabled, executing, signal, clientVars, ownerVars>>

\* Worker(): _signal.PulseEvent(), its two halves.
Pulse(u) ==
    /\ pc[u] = "pulse"
    /\ signal' = [signal EXCEPT ![u] = TRUE]
    /\ UnitGoTo(u, "reset")
    /\ UNCHANGED <<queue, disabled, state, delay, executing, clientVars, ownerVars>>

\* Mutant: the event is not reset.
PulseKeeps(u) ==
    /\ pc[u] = "reset"
    /\ UnitGoTo(u, "extract")
    /\ UNCHANGED <<queue, disabled, state, delay, executing, signal, clientVars, ownerVars>>

PulseReset(u) ==
    /\ pc[u] = "reset"
    /\ signal' = [signal EXCEPT ![u] = FALSE]
    /\ UnitGoTo(u, "extract")
    /\ UNCHANGED <<queue, disabled, state, delay, executing, clientVars, ownerVars>>

\* _queue.Extract(_executing, infinite) succeeds; _executing is assigned under
\* the lock of the queue.
Extract(u) ==
    /\ pc[u] = "extract"
    /\ ~disabled
    /\ queue # <<>>
    /\ executing' = [executing EXCEPT ![u] = Head(queue)]
    /\ queue' = Tail(queue)
    /\ UnitGoTo(u, "dispatch")
    /\ UNCHANGED <<disabled, state, delay, signal, clientVars, ownerVars>>

\* _executing.Dispatch() is over, the job is released, Worker() returns 0.
Dispatched(u) ==
    /\ pc[u] = "dispatch"
    /\ executing' = [executing EXCEPT ![u] = NoJob]
    /\ delay' = [delay EXCEPT ![u] = "zero"]
    /\ UnitGoTo(u, "worked")
    /\ UNCHANGED <<queue, disabled, state, signal, clientVars, ownerVars>>

\* The queue is disabled: Worker() returns infinite.
ExtractFails(u) ==
    /\ pc[u] = "extract"
    /\ disabled
    /\ delay' = [delay EXCEPT ![u] = "infinite"]
    /\ UnitGoTo(u, "worked")
    /\ UNCHANGED <<queue, disabled, state, executing, signal, clientVars, ownerVars>>

\* Back in the loop of the thread, under its lock.
Worked(u) ==
    /\ pc[u] = "worked"
    /\ state' = [state EXCEPT ![u] = IF @ = "DEACTIVATE" THEN "BLOCKED" ELSE @]
    /\ UnitGoTo(u, "wait")
    /\ UNCHANGED <<queue, disabled, delay, executing, signal, clientVars, ownerVars>>

Unit(u) ==
    \/ Woke(u) \/ Pulse(u) \/ PulseReset(u) \/ Extract(u)
    \/ Dispatched(u) \/ ExtractFails(u) \/ Worked(u)

-----------------------------------------------------------------------------
\* A client

Submit(c, j) ==
    /\ at[c] = "idle"
    /\ ~disabled
    /\ Len(queue) < MaxQueue
    /\ Resubmit \/ ~(Queued(j) \/ Revoked(j) \/ \E u \in Units : Executes(u, j))
    /\ queue' = Append(queue, j)
    /\ UNCHANGED <<disabled, unitVars, clientVars, ownerVars>>

Returns(c) ==
    /\ at' = [at EXCEPT ![c] = "idle"]
    /\ job' = [job EXCEPT ![c] = NoJob]
    /\ count' = [count EXCEPT ![c] = 0]

\* Revoke: _queue.Remove finds the first entry that is the job ...
RevokeQueued(c, j) ==
    /\ at[c] = "idle"
    /\ ~disabled
    /\ \E i \in DOMAIN queue :
          /\ queue[i] = j /\ \A k \in 1..(i - 1) : queue[k] # j
          /\ queue' = SubSeq(queue, 1, i - 1) \o SubSeq(queue, i + 1, Len(queue))
    /\ UNCHANGED <<disabled, unitVars, clientVars, ownerVars>>

\* Mutant: the last unit is not asked.
RevokeScanShort(c, j) ==
    /\ at[c] = "idle"
    /\ disabled \/ ~Queued(j)
    /\ at' = [at EXCEPT ![c] = "scan"]
    /\ job' = [job EXCEPT ![c] = j]
    /\ count' = [count EXCEPT ![c] = N - 1]
    /\ UNCHANGED <<queue, disabled, unitVars, ownerVars>>

\* ... or it does not (a disabled queue removes nothing), and the units are asked.
RevokeScan(c, j) ==
    /\ at[c] = "idle"
    /\ disabled \/ ~Queued(j)
    /\ at' = [at EXCEPT ![c] = "scan"]
    /\ job' = [job EXCEPT ![c] = j]
    /\ count' = [count EXCEPT ![c] = N]
    /\ UNCHANGED <<queue, disabled, unitVars, ownerVars>>

\* Executing(): the comparison, without a lock.
Compare(c) ==
    /\ at[c] = "scan"
    /\ count[c] > 0
    /\ IF Executes(count[c], job[c])
         THEN at' = [at EXCEPT ![c] = "signal"] /\ UNCHANGED count
         ELSE count' = [count EXCEPT ![c] = @ - 1] /\ UNCHANGED at
    /\ UNCHANGED <<queue, disabled, unitVars, job, ownerVars>>

\* No unit executes it: ERROR_UNAVAILABLE.
NotFound(c) ==
    /\ at[c] = "scan"
    /\ count[c] = 0
    /\ Returns(c)
    /\ UNCHANGED <<queue, disabled, unitVars, ownerVars>>

\* Executing(): _signal.Lock(waitTime) sees the event set.
Signalled(c) ==
    /\ at[c] = "signal"
    /\ signal[count[c]]
    /\ Returns(c)
    /\ UNCHANGED <<queue, disabled, unitVars, ownerVars>>

\* Executing(): _signal.Lock(waitTime) times out.
TimedOut(c) ==
    /\ at[c] = "signal"
    /\ c \in Timed
    /\ Returns(c)
    /\ UNCHANGED <<queue, disabled, unitVars, ownerVars>>

Client(c) == Compare(c) \/ NotFound(c) \/ Signalled(c) \/ TimedOut(c)

-----------------------------------------------------------------------------
\* The owner

Begin(p) ==
    /\ plan = "none"
    /\ p \in Plans
    /\ plan' = p
    /\ ownerCount' = N
    /\ UNCHANGED <<queue, disabled, unitVars, clientVars>>

Blocking == plan \in {"Block", "Stop", "Destroy"}

\* Mutant: a unit counts as blocked before Worker() has returned.
BlockUnitNow ==
    /\ Blocking
    /\ ownerCount > 0
    /\ state' = [state EXCEPT ![ownerCount] = IF @ = "RUNNING" THEN "BLOCKED" ELSE @]
    /\ ownerCount' = ownerCount - 1
    /\ UNCHANGED <<queue, disabled, pc, delay, executing, signal, clientVars, plan>>

\* _units[teller - 1].Block(): only a running unit is deactivated.
BlockUnit ==
    /\ Blocking
    /\ ownerCount > 0
    /\ state' = [state EXCEPT ![ownerCount] = IF @ = "RUNNING" THEN "DEACTIVATE" ELSE @]
    /\ ownerCount' = ownerCount - 1
    /\ UNCHANGED <<queue, disabled, pc, delay, executing, signal, clientVars, plan>>

\* The end of Block(): the queue is disabled, and the owner goes on.
DisableQueue ==
    /\ Blocking
    /\ ownerCount = 0
    /\ disabled' = TRUE
    /\ \/ plan = "Block" /\ plan' = "none" /\ UNCHANGED ownerCount
       \/ plan = "Destroy" /\ plan' = "Flush" /\ UNCHANGED ownerCount
       \/ plan = "Stop" /\ plan' = "Wait" /\ ownerCount' = N
    /\ UNCHANGED <<queue, unitVars, clientVars>>

\* _units[teller - 1].Run(); the queue is not enabled again.
RunUnit ==
    /\ plan = "Run"
    /\ IF ownerCount > 0
         THEN /\ state' = [state EXCEPT ![ownerCount] = "RUNNING"]
              /\ ownerCount' = ownerCount - 1
              /\ UNCHANGED plan
         ELSE plan' = "none" /\ UNCHANGED <<state, ownerCount>>
    /\ UNCHANGED <<queue, disabled, pc, delay, executing, signal, clientVars>>

\* The destructor: _queue.Flush() ...
FlushQueue ==
    /\ plan = "Flush"
    /\ queue' = <<>>
    /\ plan' = "Wait"
    /\ ownerCount' = N
    /\ UNCHANGED <<disabled, unitVars, clientVars>>

\* ... and, as in "Stop", Wait(BLOCKED | STOPPED, infinite), unit by unit.
AwaitUnit ==
    /\ plan = "Wait"
    /\ IF ownerCount > 0
         THEN state[ownerCount] = "BLOCKED" /\ ownerCount' = ownerCount - 1 /\ UNCHANGED plan
         ELSE plan' = "done" /\ UNCHANGED ownerCount
    /\ UNCHANGED <<queue, disabled, unitVars, clientVars>>

Owner == BlockUnit \/ DisableQueue \/ RunUnit \/ FlushQueue \/ AwaitUnit

Next ==
    \/ \E u \in Units : Unit(u)
    \/ \E c \in Clients : Client(c)
    \/ \E c \in Clients, j \in Jobs : Submit(c, j) \/ RevokeQueued(c, j) \/ RevokeScan(c, j)
    \/ \E p \in Plans : Begin(p)
    \/ Owner

Spec == Init /\ [][Next]_vars

\* Threads that can run do, and Dispatch() returns.
FairSpec ==
    /\ Spec
    /\ \A u \in Units : WF_vars(Unit(u))
    /\ \A c \in Clients : WF_vars(Client(c))
    /\ WF_vars(Owner)

-----------------------------------------------------------------------------
\* What is left in a disabled queue is dropped: the pool never enables it again.
Pool == INSTANCE JobPool
    WITH status <- [j \in Jobs |-> IF \E u \in Units : Executes(u, j) THEN "running"
                                   ELSE IF Queued(j) /\ ~disabled THEN "queued" ELSE "idle"],
         revoking <- job

\* For jobs that are in the pool at most once the pool keeps the promise of
\* JobPool; in particular a Revoke that returns in time leaves the job neither
\* queued nor running (Thread.h:551-568), although it looks at the queue and at
\* the units one after the other.
ImplementsJobPool == Pool!Spec

\* The event a unit pulses never tells of a job it still executes: a Revoke that
\* sees it may let go of the job (Thread.h:451-458).
SignalMeansDone == \A u \in Units : signal[u] => executing[u] = NoJob

\* A queued job leaves the queue, run or revoked, unless the pool is blocked
\* (Thread.h:454-474).
QueuedLeaves == \A j \in Jobs : Queued(j) ~> ~Queued(j) \/ disabled

\* A Revoke that waits for a running job returns: "just to make sure that the
\* gap, between the comparison of the Executing(.....) ended up in the lock,
\* before we pulse it" (Thread.h:466-468).  TLC finds this violated (README,
\* "Divergences").
RevokeReturns == \A c \in Clients : at[c] = "signal" ~> at[c] = "idle"

\* A Revoke that has returned has seen the job out: "Check if it is currently
\* being executed and wait till it is done." (Thread.h:558)
\* TLC finds this violated with Resubmit (README, "Divergences").
RevokeWaits ==
    [][\A c \in Clients, j \in Jobs :
         at[c] = "idle" /\ RevokeQueued(c, j) => \A u \in Units : ~Executes(u, j)]_vars

\* A unit whose end the owner has waited for has completed its work and takes up no
\* more: "Work in progress will be completed. Use the WaitState to wait for the actual
\* block." (Source/plugins/Service.h:115, PluginServer.cpp:624-630, Thread.h:510-519);
\* and that although a blocked unit wakes itself, and the timer, the clients and the
\* jobs go on submitting.
CompletedIsIdle ==
    plan \in {"Wait", "done"} => \A u \in Units : u > ownerCount => executing[u] = NoJob

\* Wait(BLOCKED | STOPPED, infinite) returns, and with it the destructor: "Wait till all
\* threads have reached completion" (Thread.h:517).  TLC finds this violated (README,
\* "Divergences").
WaitReturns == plan = "Wait" ~> plan = "done"

\* "If the method returns, the workers are accepting and handling work." (Source/plugins/
\* Service.h:109)  TLC finds this violated (README, "Divergences").
RunAccepts == [][plan = "Run" /\ plan' = "none" => ~disabled]_vars

\* A unit that is blocked stays so until it is run: "If the method returns, the
\* workers are all blocked, no new work will be accepted. Work in progress will be
\* completed. Use the WaitState to wait for the actual block." (Source/plugins/
\* Service.h:114-115)  TLC finds this violated (README, "Divergences").
BlockedStays ==
    [][\A u \in Units : state[u] = "BLOCKED" => state'[u] = "BLOCKED" \/ plan = "Run"]_vars
=============================================================================
