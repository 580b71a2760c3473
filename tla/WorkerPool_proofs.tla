--------------------------- MODULE WorkerPool_proofs ---------------------------
(***************************************************************************)
(* Proofs about ThreadPool, for any number of units, clients and jobs: its *)
(* types, that a signal never tells of a job that is still executed, and,  *)
(* for jobs that are in the pool once, that it implements JobPool; and     *)
(* about both it and the WorkerPool built from it, that a unit whose end   *)
(* the owner has waited for executes nothing any more.                     *)
(***************************************************************************)
EXTENDS WorkerPool, SequenceTheorems, TLAPS

\* A job in a queue, and a queue with no job twice.
In(q, j) == \E i \in 1..Len(q) : q[i] = j
Distinct(q) == \A i, k \in 1..Len(q) : q[i] = q[k] => i = k

\* A unit executes a job while it dispatches, and its event is set while it pulses.
Signals ==
    \A u \in Units : /\ signal[u] => pc[u] = "reset"
                     /\ executing[u] # NoJob <=> pc[u] = "dispatch"

IInv == TypeOK /\ Signals

\* The owner waits with the queue disabled, and a unit is blocked only out of Worker():
\* one that is found blocked may wake itself again, but takes up no job.
Ended ==
    /\ plan \in {"Flush", "Wait", "done"} => disabled
    /\ \A u \in Units : state[u] = "BLOCKED" => pc[u] = "wait"
    /\ CompletedIsIdle

\* A job is in the pool once, in the queue or with a unit.
Once ==
    /\ Distinct(queue)
    /\ \A u \in Units : executing[u] # NoJob =>
          /\ ~In(queue, executing[u])
          /\ \A v \in Units : executing[v] = executing[u] => v = u

\* Who revokes has not found its job in the queue, and will not; the units it has asked
\* do not execute it, and will not; when it waits for one no other does.
Asked ==
    \A c \in Clients :
        /\ at[c] = "idle" => job[c] = NoJob
        /\ at[c] # "idle" => job[c] \in Jobs /\ (disabled \/ ~In(queue, job[c]))
        /\ at[c] = "scan" => \A u \in Units : u > count[c] => executing[u] # job[c]
        /\ at[c] = "signal" =>
              /\ count[c] \in Units
              /\ \A u \in Units : u # count[c] => executing[u] # job[c]

OnceInv == IInv /\ Once /\ Asked

-----------------------------------------------------------------------------
(* What the operations of the queue do to the jobs in it.                  *)

\* A job is taken from the head.
LEMMA HeadOut ==
    ASSUME NEW q \in Seq(Jobs), q # <<>>
    PROVE  /\ Head(q) \in Jobs /\ Tail(q) \in Seq(Jobs) /\ In(q, Head(q))
           /\ Distinct(q) => /\ Distinct(Tail(q))
                             /\ \A j : In(Tail(q), j) <=> In(q, j) /\ j # Head(q)
<1>1. /\ Head(q) \in Jobs /\ Tail(q) \in Seq(Jobs) /\ Len(q) \in Nat \ {0}
      /\ Head(q) = q[1] /\ Len(Tail(q)) = Len(q) - 1
      /\ \A i \in 1..Len(Tail(q)) : Tail(q)[i] = q[i + 1]
  BY HeadTailProperties, EmptySeq, LenProperties
<1> DEFINE t == Tail(q)
<1> HIDE DEF t
<1>2. In(q, Head(q))
  BY <1>1 DEF In
<1>3. ASSUME Distinct(q) PROVE Distinct(t)
  BY <1>1, <1>3 DEF Distinct, t
<1>4. ASSUME Distinct(q), NEW j PROVE In(t, j) <=> In(q, j) /\ j # Head(q)
  <2>1. ASSUME In(t, j) PROVE In(q, j) /\ j # Head(q)
    <3>1. PICK i \in 1..Len(t) : t[i] = j
      BY <2>1 DEF In
    <3>2. i + 1 \in 1..Len(q) /\ q[i + 1] = j /\ 1 \in 1..Len(q) /\ i + 1 # 1
      BY <1>1, <3>1 DEF t
    <3>3. QED
      BY <1>1, <1>4, <3>2 DEF In, Distinct
  <2>2. ASSUME In(q, j), j # Head(q) PROVE In(t, j)
    <3>1. PICK i \in 1..Len(q) : q[i] = j
      BY <2>2 DEF In
    <3>2. i # 1
      BY <1>1, <2>2, <3>1
    <3>3. i - 1 \in 1..Len(t) /\ t[i - 1] = q[(i - 1) + 1] /\ (i - 1) + 1 = i
      BY <1>1, <3>2 DEF t
    <3>4. QED
      BY <3>1, <3>3 DEF In
  <2>3. QED
    BY <2>1, <2>2
<1>5. QED
  BY <1>1, <1>2, <1>3, <1>4 DEF t

\* A job is added that is not there.
LEMMA AppendIn ==
    ASSUME NEW q \in Seq(Jobs), NEW j \in Jobs
    PROVE  /\ Append(q, j) \in Seq(Jobs)
           /\ \A k : In(Append(q, j), k) <=> In(q, k) \/ k = j
           /\ Distinct(q) /\ ~In(q, j) => Distinct(Append(q, j))
<1> DEFINE a == Append(q, j)
<1>1. /\ a \in Seq(Jobs) /\ Len(a) = Len(q) + 1 /\ Len(q) \in Nat
      /\ \A i \in 1..Len(q) : a[i] = q[i]
      /\ a[Len(q) + 1] = j
  BY AppendProperties, LenProperties
<1> HIDE DEF a
<1>2. \A k : In(a, k) <=> In(q, k) \/ k = j
  BY <1>1 DEF In
<1>3. Distinct(q) /\ ~In(q, j) => Distinct(a)
  BY <1>1 DEF In, Distinct
<1>4. QED
  BY <1>1, <1>2, <1>3 DEF a

\* A job is removed from where it is.
LEMMA RemoveOut ==
    ASSUME NEW q \in Seq(Jobs), NEW i \in 1..Len(q)
    PROVE  LET r == SubSeq(q, 1, i - 1) \o SubSeq(q, i + 1, Len(q)) IN
           /\ r \in Seq(Jobs)
           /\ Distinct(q) => Distinct(r) /\ \A j : In(r, j) <=> In(q, j) /\ j # q[i]
<1> DEFINE f == SubSeq(q, 1, i - 1)
           l == SubSeq(q, i + 1, Len(q))
           r == f \o l
<1>1. Len(q) \in Nat /\ i \in Nat
  BY LenProperties
<1>2. f \in Seq(Jobs) /\ Len(f) = i - 1 /\ \A k \in 1..(i - 1) : f[k] = q[k]
  BY <1>1, SubSeqProperties
<1>3. l \in Seq(Jobs) /\ Len(l) = Len(q) - i /\ \A k \in 1..(Len(q) - i) : l[k] = q[i + k]
  BY <1>1, SubSeqProperties
<1> HIDE DEF f, l
<1>4. /\ r \in Seq(Jobs) /\ Len(r) = Len(q) - 1
      /\ \A k \in 1..(Len(q) - 1) : r[k] = IF k < i THEN q[k] ELSE q[k + 1]
  <2>1. r \in Seq(Jobs) /\ Len(r) = Len(f) + Len(l)
    BY <1>2, <1>3, ConcatProperties
  <2>2. \A k \in 1..Len(f) + Len(l) : r[k] = IF k <= Len(f) THEN f[k] ELSE l[k - Len(f)]
    BY <1>2, <1>3, ConcatProperties
  <2>3. Len(f) + Len(l) = Len(q) - 1
    BY <1>1, <1>2, <1>3
  <2>4. ASSUME NEW k \in 1..(Len(q) - 1) PROVE r[k] = IF k < i THEN q[k] ELSE q[k + 1]
    <3>1. CASE k < i
      BY <1>1, <1>2, <2>2, <2>3, <3>1
    <3>2. CASE ~(k < i)
      <4>1. k - (i - 1) \in 1..(Len(q) - i) /\ i + (k - (i - 1)) = k + 1
        BY <1>1, <3>2
      <4>2. r[k] = l[k - (i - 1)]
        BY <1>1, <1>2, <2>2, <2>3, <3>2
      <4>3. QED
        BY <1>3, <3>2, <4>1, <4>2
    <3>3. QED
      BY <3>1, <3>2
  <2>5. QED
    BY <2>1, <2>3, <2>4
<1> HIDE DEF r
<1>5. ASSUME Distinct(q) PROVE Distinct(r)
  BY <1>1, <1>4, <1>5 DEF Distinct
<1>6. ASSUME Distinct(q), NEW j PROVE In(r, j) <=> In(q, j) /\ j # q[i]
  <2>1. ASSUME In(r, j) PROVE In(q, j) /\ j # q[i]
    <3>1. PICK k \in 1..Len(r) : r[k] = j
      BY <2>1 DEF In
    <3>2. PICK m \in 1..Len(q) : q[m] = j /\ m # i
      BY <1>1, <1>4, <3>1
    <3>3. QED
      BY <1>6, <3>2 DEF In, Distinct
  <2>2. ASSUME In(q, j), j # q[i] PROVE In(r, j)
    <3>1. PICK k \in 1..Len(q) : q[k] = j
      BY <2>2 DEF In
    <3>2. k # i
      BY <2>2, <3>1
    <3>3. CASE k < i
      BY <1>1, <1>4, <3>1, <3>3 DEF In
    <3>4. CASE k > i
      <4>1. k - 1 \in 1..Len(r) /\ ~(k - 1 < i) /\ (k - 1) + 1 = k
        BY <1>1, <1>4, <3>4
      <4>2. r[k - 1] = q[k]
        BY <1>4, <4>1
      <4>3. QED
        BY <3>1, <4>1, <4>2 DEF In
    <3>5. QED
      BY <1>1, <3>2, <3>3, <3>4
  <2>3. QED
    BY <2>1, <2>2
<1>7. QED
  BY <1>4, <1>5, <1>6 DEF r, f, l

\* The empty queue.
LEMMA EmptyIn == Distinct(<<>>) /\ \A j : ~In(<<>>, j)
BY EmptySeq DEF Distinct, In

-----------------------------------------------------------------------------
(* Types and signals.                                                      *)

\* The steps of a unit.
LEMMA UnitStep == ASSUME IInv, NEW u \in Units, Unit(u) PROVE IInv'
<1> USE JobsAssumption DEF IInv, TypeOK, Signals, clientVars, ownerVars
<1>1. CASE Woke(u)
  <2>1. /\ UNCHANGED <<queue, disabled, executing, signal, at, job, count, plan, ownerCount>>
        /\ pc[u] = "wait"
    BY <1>1 DEF Woke
  <2>2. /\ state' \in [Units -> {"RUNNING", "DEACTIVATE", "BLOCKED"}]
        /\ delay' \in [Units -> {"zero", "infinite"}]
        /\ pc' = pc \/ pc' = [pc EXCEPT ![u] = "pulse"]
    BY <1>1 DEF Woke, UnitGoTo
  <2>3. QED
    BY <2>1, <2>2
<1>2. CASE Pulse(u) \/ PulseReset(u)
  <2>1. CASE Pulse(u)
    BY <2>1 DEF Pulse, UnitGoTo
  <2>2. CASE PulseReset(u)
    BY <2>2 DEF PulseReset, UnitGoTo
  <2>3. QED
    BY <1>2, <2>1, <2>2
<1>3. CASE Extract(u)
  <2>1. Head(queue) \in Jobs /\ Tail(queue) \in Seq(Jobs)
    BY <1>3, HeadOut DEF Extract
  <2>2. QED
    BY <1>3, <2>1 DEF Extract, UnitGoTo
<1>4. CASE Dispatched(u)
  BY <1>4 DEF Dispatched, UnitGoTo
<1>5. CASE ExtractFails(u)
  BY <1>5 DEF ExtractFails, UnitGoTo
<1>6. CASE Worked(u)
  BY <1>6 DEF Worked, UnitGoTo
<1>7. QED
  BY <1>1, <1>2, <1>3, <1>4, <1>5, <1>6 DEF Unit

\* The next unit to ask.
LEMMA NextUnit ==
    ASSUME NEW f \in [Clients -> 0..N], NEW c \in Clients, f[c] > 0
    PROVE  [f EXCEPT ![c] = f[c] - 1] \in [Clients -> 0..N]
<1>1. f[c] - 1 \in 0..N
  BY CountAssumption
<1>2. QED
  BY <1>1

\* The steps of a client.
LEMMA ClientStep ==
    ASSUME IInv, NEW c \in Clients,
           Client(c) \/ \E j \in Jobs : Submit(c, j) \/ RevokeQueued(c, j) \/ RevokeScan(c, j)
    PROVE  IInv'
<1>1. CASE Client(c)
  <2>1. UNCHANGED <<queue, disabled, state, pc, delay, executing, signal, plan, ownerCount>>
    BY <1>1 DEF Client, Compare, NotFound, Signalled, TimedOut, unitVars, ownerVars
  <2>2. 0 \in 0..N
    BY CountAssumption
  <2>3. /\ at' \in [Clients -> {"idle", "scan", "signal"}] /\ job' \in [Clients -> Jobs \cup {NoJob}]
        /\ count' \in [Clients -> 0..N]
    <3>1. CASE Compare(c)
      <4>1. /\ at' = at \/ at' = [at EXCEPT ![c] = "signal"]
            /\ job' = job
            /\ count' = count \/ (count[c] > 0 /\ count' = [count EXCEPT ![c] = count[c] - 1])
        BY <3>1 DEF Compare
      <4>2. count \in [Clients -> 0..N]
        BY DEF IInv, TypeOK
      <4>3. count' \in [Clients -> 0..N]
        BY <4>1, <4>2, NextUnit
      <4>4. QED
        BY <4>1, <4>3 DEF IInv, TypeOK
    <3>2. CASE NotFound(c) \/ Signalled(c) \/ TimedOut(c)
      BY <2>2, <3>2 DEF NotFound, Signalled, TimedOut, Returns, IInv, TypeOK
    <3>3. QED
      BY <1>1, <3>1, <3>2 DEF Client
  <2>4. QED
    BY <2>1, <2>3 DEF IInv, TypeOK, Signals
<1> USE JobsAssumption, CountAssumption DEF IInv, TypeOK, Signals, unitVars, clientVars, ownerVars, Units
<1>2. ASSUME NEW j \in Jobs, Submit(c, j) PROVE IInv'
  BY <1>2, AppendIn DEF Submit
<1>3. ASSUME NEW j \in Jobs, RevokeQueued(c, j) PROVE IInv'
  <2>1. PICK i \in 1..Len(queue) : queue' = SubSeq(queue, 1, i - 1) \o SubSeq(queue, i + 1, Len(queue))
    BY <1>3, LenProperties DEF RevokeQueued
  <2>2. queue' \in Seq(Jobs)
    BY <2>1, RemoveOut
  <2>3. QED
    BY <1>3, <2>2 DEF RevokeQueued
<1>4. ASSUME NEW j \in Jobs, RevokeScan(c, j) PROVE IInv'
  BY <1>4 DEF RevokeScan
<1>5. QED
  BY <1>1, <1>2, <1>3, <1>4

\* The steps of the owner.
LEMMA OwnerStep == ASSUME IInv, Owner \/ \E p \in Plans : Begin(p) PROVE IInv'
<1> USE CountAssumption, PlansAssumption DEF IInv, TypeOK, Signals, unitVars, clientVars, Units
<1>1. CASE \E p \in Plans : Begin(p)
  BY <1>1 DEF Begin
<1>2. CASE BlockUnit
  BY <1>2 DEF BlockUnit
<1>3. CASE DisableQueue
  BY <1>3 DEF DisableQueue
<1>4. CASE RunUnit
  BY <1>4 DEF RunUnit
<1>5. CASE FlushQueue
  BY <1>5, EmptySeq DEF FlushQueue
<1>6. CASE AwaitUnit
  BY <1>6 DEF AwaitUnit
<1>7. QED
  BY <1>1, <1>2, <1>3, <1>4, <1>5, <1>6 DEF Owner

LEMMA InitIInv == Init => IInv
<1> SUFFICES ASSUME Init PROVE IInv
  OBVIOUS
<1>1. <<>> \in Seq(Jobs) /\ 0 \in 0..N
  BY EmptySeq, CountAssumption
<1>2. TypeOK
  BY <1>1 DEF Init, TypeOK
<1>3. QED
  BY <1>2 DEF Init, IInv, Signals

\* The invariant is inductive, whatever jobs are submitted.
LEMMA Inductive == Spec => []IInv
<1>1. IInv /\ [Next]_vars => IInv'
  <2>1. IInv /\ UNCHANGED vars => IInv'
    BY DEF IInv, TypeOK, Signals, vars, unitVars, clientVars, ownerVars
  <2>2. QED
    BY <2>1, UnitStep, ClientStep, OwnerStep DEF Next
<1>2. QED
  BY <1>1, InitIInv, PTL DEF Spec

\* Every variable keeps its type.
THEOREM TypeCorrect == Spec => []TypeOK
BY Inductive, PTL DEF IInv

\* The event a unit pulses never tells of a job it still executes (Thread.h:451-474).
THEOREM SignalledIsDone == Spec => []SignalMeansDone
<1>1. IInv => SignalMeansDone
  BY DEF IInv, Signals, SignalMeansDone
<1>2. QED
  BY <1>1, Inductive, PTL

-----------------------------------------------------------------------------
(* Units whose end the owner has waited for.                               *)

\* Who does not touch the units, the plan and the switch of the queue ends nothing.
LEMMA EndedQuiet ==
    ASSUME Ended, UNCHANGED <<disabled, state, pc, executing, plan, ownerCount>>
    PROVE  Ended'
BY DEF Ended, CompletedIsIdle

\* The steps of a unit: Extract needs a queue that is not disabled.
LEMMA EndedUnit == ASSUME IInv, Ended, NEW u \in Units, Unit(u) PROVE Ended'
<1> USE JobsAssumption DEF IInv, TypeOK, ownerVars
<1>1. CASE Woke(u)
  <2>1. UNCHANGED <<disabled, executing, plan, ownerCount>>
    BY <1>1 DEF Woke
  <2>2. \A v \in Units : state'[v] = "BLOCKED" => pc'[v] = "wait"
    BY <1>1 DEF Woke, UnitGoTo, Ended
  <2>3. QED
    BY <2>1, <2>2 DEF Ended, CompletedIsIdle
<1>2. CASE Extract(u)
  <2>1. ~disabled /\ UNCHANGED <<disabled, state, plan, ownerCount>> /\ pc[u] = "extract"
    BY <1>2 DEF Extract
  <2>2. \A v \in Units : state'[v] = "BLOCKED" => pc'[v] = "wait"
    BY <1>2, <2>1 DEF Extract, UnitGoTo, Ended
  <2>3. QED
    BY <2>1, <2>2 DEF Ended, CompletedIsIdle
<1>3. CASE Pulse(u) \/ PulseReset(u) \/ Dispatched(u) \/ ExtractFails(u)
  <2>1. /\ UNCHANGED <<disabled, state, plan, ownerCount>> /\ pc[u] # "wait"
        /\ \A v \in Units : v # u => pc'[v] = pc[v]
        /\ \A v \in Units : executing'[v] = executing[v] \/ executing'[v] = NoJob
    BY <1>3 DEF Pulse, PulseReset, Dispatched, ExtractFails, UnitGoTo
  <2>2. \A v \in Units : state'[v] = "BLOCKED" => pc'[v] = "wait"
    BY <2>1 DEF Ended
  <2>3. CompletedIsIdle'
    BY <2>1 DEF Ended, CompletedIsIdle
  <2>4. QED
    BY <2>1, <2>2, <2>3 DEF Ended
<1>4. CASE Worked(u)
  <2>1. UNCHANGED <<disabled, executing, plan, ownerCount>>
    BY <1>4 DEF Worked
  <2>2. \A v \in Units : state'[v] = "BLOCKED" => pc'[v] = "wait"
    BY <1>4 DEF Worked, UnitGoTo, Ended
  <2>3. QED
    BY <2>1, <2>2 DEF Ended, CompletedIsIdle
<1>5. QED
  BY <1>1, <1>2, <1>3, <1>4 DEF Unit

\* The steps of the owner: it passes a unit only when it finds it blocked.
LEMMA EndedOwner == ASSUME IInv, Ended, Owner \/ \E p \in Plans : Begin(p) PROVE Ended'
<1> USE CountAssumption, PlansAssumption DEF IInv, TypeOK, unitVars, Units
<1>1. CASE \E p \in Plans : Begin(p)
  BY <1>1 DEF Begin, Ended, CompletedIsIdle
<1>2. CASE BlockUnit
  <2>1. UNCHANGED <<disabled, pc, executing, plan>> /\ plan \in {"Block", "Stop", "Destroy"}
    BY <1>2 DEF BlockUnit, Blocking
  <2>2. \A u \in Units : state'[u] = "BLOCKED" => state[u] = "BLOCKED"
    BY <1>2 DEF BlockUnit
  <2>3. QED
    BY <2>1, <2>2 DEF Ended, CompletedIsIdle
<1>3. CASE DisableQueue
  <2>1. disabled' /\ UNCHANGED <<state, pc, executing>>
    BY <1>3 DEF DisableQueue
  <2>2. plan' # "done" /\ (plan' = "Wait" => ownerCount' = N)
    BY <1>3 DEF DisableQueue, Blocking
  <2>3. CompletedIsIdle'
    BY <2>2 DEF CompletedIsIdle
  <2>4. QED
    BY <2>1, <2>3 DEF Ended
<1>4. CASE RunUnit
  <2>1. UNCHANGED <<disabled, pc, executing>> /\ plan' \in {"Run", "none"}
    BY <1>4 DEF RunUnit
  <2>2. \A u \in Units : state'[u] = "BLOCKED" => state[u] = "BLOCKED"
    BY <1>4 DEF RunUnit
  <2>3. QED
    BY <2>1, <2>2 DEF Ended, CompletedIsIdle
<1>5. CASE FlushQueue
  BY <1>5 DEF FlushQueue, Ended, CompletedIsIdle
<1>6. CASE AwaitUnit
  <2>1. UNCHANGED <<disabled, state, pc, executing>> /\ plan = "Wait" /\ plan' \in {"Wait", "done"}
    BY <1>6 DEF AwaitUnit
  <2>2. \A u \in Units : u > ownerCount' => u > ownerCount \/ (u = ownerCount /\ state[u] = "BLOCKED")
    BY <1>6 DEF AwaitUnit
  <2>3. \A u \in Units : state[u] = "BLOCKED" => executing[u] = NoJob
    BY DEF Ended, Signals
  <2>4. CompletedIsIdle'
    BY <2>1, <2>2, <2>3 DEF Ended, CompletedIsIdle
  <2>5. QED
    BY <2>1, <2>4 DEF Ended
<1>7. QED
  BY <1>1, <1>2, <1>3, <1>4, <1>5, <1>6 DEF Owner

\* The clients end nothing.
LEMMA EndedClient ==
    ASSUME Ended, NEW c \in Clients,
           Client(c) \/ \E j \in Jobs : Submit(c, j) \/ RevokeQueued(c, j) \/ RevokeScan(c, j)
    PROVE  Ended'
<1>1. UNCHANGED <<disabled, state, pc, executing, plan, ownerCount>>
  BY DEF Client, Compare, NotFound, Signalled, TimedOut, Submit, RevokeQueued, RevokeScan,
         unitVars, ownerVars
<1>2. QED
  BY <1>1, EndedQuiet

\* Nothing is ended at the start.
LEMMA EndedInit == Init => Ended
BY DEF Init, Ended, CompletedIsIdle

\* A unit whose end the owner has waited for executes nothing, and goes on to execute
\* nothing although it wakes itself (Thread.h:510-519, PluginServer.cpp:624-630).
THEOREM CompletedStaysIdle == Spec => []CompletedIsIdle
<1>1. Ended /\ IInv /\ [Next]_vars => Ended'
  <2>1. Ended /\ UNCHANGED vars => Ended'
    BY EndedQuiet DEF vars, unitVars, ownerVars
  <2>2. QED
    BY <2>1, EndedUnit, EndedClient, EndedOwner DEF Next
<1>2. Ended => CompletedIsIdle
  BY DEF Ended
<1>3. QED
  BY <1>1, <1>2, EndedInit, Inductive, PTL DEF Spec

-----------------------------------------------------------------------------
(* Jobs that are in the pool once.                                         *)

LEMMA QueuedIn == ASSUME IInv, NEW j PROVE Queued(j) <=> In(queue, j)
<1>1. DOMAIN queue = 1..Len(queue)
  BY LenProperties DEF IInv, TypeOK
<1>2. QED
  BY <1>1 DEF Queued, In

\* RevokeQueued removes its job and no other.
LEMMA Removed ==
    ASSUME IInv, Distinct(queue), NEW c \in Clients, NEW j \in Jobs, RevokeQueued(c, j)
    PROVE  /\ In(queue, j) /\ Distinct(queue')
           /\ \A k : In(queue', k) <=> In(queue, k) /\ k # j
<1>1. PICK i \in 1..Len(queue) :
         queue[i] = j /\ queue' = SubSeq(queue, 1, i - 1) \o SubSeq(queue, i + 1, Len(queue))
  BY LenProperties DEF RevokeQueued, IInv, TypeOK
<1>2. queue \in Seq(Jobs)
  BY DEF IInv, TypeOK
<1>3. Distinct(queue') /\ \A k : In(queue', k) <=> In(queue, k) /\ k # queue[i]
  BY <1>1, <1>2, RemoveOut
<1>4. QED
  BY <1>1, <1>3 DEF In

\* The jobs that are queued or executed stay so, or fewer are.
LEMMA OnceStays ==
    ASSUME Once, Distinct(queue'), \A j : In(queue', j) => In(queue, j),
           \A u \in Units : executing'[u] = executing[u] \/ executing'[u] = NoJob
    PROVE  Once'
BY DEF Once

\* A job is submitted when it is not in the pool, and moves from the queue to one unit.
LEMMA OnceStep == ASSUME ~Resubmit, OnceInv, [Next]_vars PROVE Once'
<1> USE DEF OnceInv, IInv, TypeOK
<1>0. /\ queue \in Seq(Jobs) /\ Distinct(queue)
      /\ UNCHANGED <<queue, executing>> => Once'
  BY DEF Once
<1>1. ASSUME NEW u \in Units, Unit(u) PROVE Once'
  <2>1. CASE Extract(u)
    <3> DEFINE h == Head(queue)
    <3>1. /\ queue # <<>> /\ queue' = Tail(queue) /\ executing' = [executing EXCEPT ![u] = h]
      BY <2>1 DEF Extract
    <3>2. /\ h \in Jobs /\ In(queue, h) /\ Distinct(queue')
          /\ \A j : In(queue', j) <=> In(queue, j) /\ j # h
      BY <1>0, <3>1, HeadOut
    <3>3. \A v \in Units : executing[v] # h
      BY <3>2, JobsAssumption DEF Once
    <3>4. executing'[u] = h /\ \A v \in Units : v # u => executing'[v] = executing[v]
      BY <3>1
    <3> HIDE DEF h
    <3>5. QED
      BY <3>2, <3>3, <3>4 DEF Once
  <2>2. CASE Dispatched(u)
    <3>1. queue' = queue /\ \A v \in Units : executing'[v] = executing[v] \/ executing'[v] = NoJob
      BY <2>2 DEF Dispatched
    <3>2. QED
      BY <1>0, <3>1, OnceStays
  <2>3. CASE Woke(u) \/ Pulse(u) \/ PulseReset(u) \/ ExtractFails(u) \/ Worked(u)
    BY <1>0, <2>3 DEF Woke, Pulse, PulseReset, ExtractFails, Worked
  <2>4. QED
    BY <1>1, <2>1, <2>2, <2>3 DEF Unit
<1>2. ASSUME NEW c \in Clients, NEW j \in Jobs, Submit(c, j) PROVE Once'
  <2>1. queue' = Append(queue, j) /\ executing' = executing
    BY <1>2 DEF Submit, unitVars
  <2>2. ~In(queue, j) /\ \A u \in Units : executing[u] # j
    BY <1>2, QueuedIn DEF Submit, Executes
  <2>3. Distinct(queue') /\ \A k : In(queue', k) <=> In(queue, k) \/ k = j
    BY <1>0, <2>1, <2>2, AppendIn
  <2>4. QED
    BY <2>1, <2>2, <2>3 DEF Once
<1>3. ASSUME NEW c \in Clients, NEW j \in Jobs, RevokeQueued(c, j) PROVE Once'
  <2>1. executing' = executing
    BY <1>3 DEF RevokeQueued, unitVars
  <2>2. QED
    BY <1>0, <1>3, <2>1, Removed, OnceStays
<1>4. CASE \E c \in Clients : Client(c) \/ \E j \in Jobs : RevokeScan(c, j)
  BY <1>0, <1>4 DEF Client, Compare, NotFound, Signalled, TimedOut, RevokeScan, unitVars
<1>5. CASE FlushQueue
  <2>1. queue' = <<>> /\ executing' = executing
    BY <1>5 DEF FlushQueue, unitVars
  <2>2. QED
    BY <2>1, EmptyIn, OnceStays
<1>6. CASE (\E p \in Plans : Begin(p)) \/ BlockUnit \/ DisableQueue \/ RunUnit \/ AwaitUnit \/ UNCHANGED vars
  BY <1>0, <1>6 DEF Begin, BlockUnit, DisableQueue, RunUnit, AwaitUnit, vars, unitVars
<1>7. QED
  BY <1>1, <1>2, <1>3, <1>4, <1>5, <1>6 DEF Next, Owner

\* What a client has found out stays true while the others go on.
LEMMA AskedStays ==
    ASSUME Asked, NEW c \in Clients, UNCHANGED <<at, job, count>>, disabled => disabled',
           job[c] \in Jobs /\ (disabled \/ ~In(queue, job[c])) => disabled' \/ ~In(queue', job[c]),
           job[c] \in Jobs /\ (disabled \/ ~In(queue, job[c])) =>
               \A u \in Units : executing'[u] = job[c] => executing[u] = job[c]
    PROVE  /\ at'[c] = "idle" => job'[c] = NoJob
           /\ at'[c] # "idle" => job'[c] \in Jobs /\ (disabled' \/ ~In(queue', job'[c]))
           /\ at'[c] = "scan" => \A u \in Units : u > count'[c] => executing'[u] # job'[c]
           /\ at'[c] = "signal" =>
                 /\ count'[c] \in Units
                 /\ \A u \in Units : u # count'[c] => executing'[u] # job'[c]
BY DEF Asked

\* The others do not put the job of a client back, and its own steps ask one unit more.
LEMMA AskedStep == ASSUME ~Resubmit, OnceInv, [Next]_vars PROVE Asked'
<1> USE DEF OnceInv, IInv, TypeOK
<1>0. ASSUME UNCHANGED <<at, job, count>>, disabled => disabled',
             \A j \in Jobs : (\E c \in Clients : job[c] = j) /\ (disabled \/ ~In(queue, j)) =>
                 /\ disabled' \/ ~In(queue', j)
                 /\ \A u \in Units : executing'[u] = j => executing[u] = j
      PROVE  Asked'
  BY <1>0, AskedStays DEF Asked
<1>1. ASSUME NEW u \in Units, Unit(u) PROVE Asked'
  <2>1. CASE Extract(u)
    <3>1. /\ queue # <<>> /\ ~disabled /\ queue' = Tail(queue) /\ executing' = [executing EXCEPT ![u] = Head(queue)]
          /\ UNCHANGED <<disabled, at, job, count>>
      BY <2>1 DEF Extract, clientVars
    <3>2. In(queue, Head(queue)) /\ \A j : In(queue', j) => In(queue, j)
      BY <3>1, HeadOut DEF Once
    <3>3. QED
      BY <1>0, <3>1, <3>2
  <2>2. CASE Dispatched(u)
    <3>1. UNCHANGED <<queue, disabled, at, job, count>> /\ executing' = [executing EXCEPT ![u] = NoJob]
      BY <2>2 DEF Dispatched, clientVars
    <3>2. QED
      BY <1>0, <3>1, JobsAssumption
  <2>3. CASE Woke(u) \/ Pulse(u) \/ PulseReset(u) \/ ExtractFails(u) \/ Worked(u)
    <3>1. UNCHANGED <<queue, disabled, at, job, count, executing>>
      BY <2>3 DEF Woke, Pulse, PulseReset, ExtractFails, Worked, clientVars
    <3>2. QED
      BY <1>0, <3>1
  <2>4. QED
    BY <1>1, <2>1, <2>2, <2>3 DEF Unit
<1>2. ASSUME NEW c \in Clients, NEW j \in Jobs, Submit(c, j) PROVE Asked'
  <2>1. queue' = Append(queue, j) /\ UNCHANGED <<disabled, executing, at, job, count>>
    BY <1>2 DEF Submit, unitVars, clientVars
  <2>2. \A d \in Clients : job[d] # j
    BY <1>2 DEF Submit, Revoked
  <2>3. \A k : In(queue', k) <=> In(queue, k) \/ k = j
    BY <2>1, AppendIn
  <2>4. QED
    BY <1>0, <2>1, <2>2, <2>3
<1>3. ASSUME NEW c \in Clients, NEW j \in Jobs, RevokeQueued(c, j) PROVE Asked'
  <2>1. UNCHANGED <<disabled, executing, at, job, count>>
    BY <1>3 DEF RevokeQueued, unitVars, clientVars
  <2>2. \A k : In(queue', k) => In(queue, k)
    BY <1>3, Removed DEF Once
  <2>3. QED
    BY <1>0, <2>1, <2>2
<1>4. ASSUME NEW c \in Clients, NEW j \in Jobs, RevokeScan(c, j) PROVE Asked'
  <2>1. /\ UNCHANGED <<queue, disabled, executing>>
        /\ at' = [at EXCEPT ![c] = "scan"] /\ job' = [job EXCEPT ![c] = j] /\ count' = [count EXCEPT ![c] = N]
        /\ disabled \/ ~In(queue, j)
    BY <1>4, QueuedIn DEF RevokeScan, unitVars
  <2>2. \A u \in Units : ~(u > N)
    BY CountAssumption DEF Units
  <2>3. QED
    BY <2>1, <2>2 DEF Asked
<1>5. ASSUME NEW c \in Clients, Client(c) PROVE Asked'
  <2>1. UNCHANGED <<queue, disabled, executing>>
    BY <1>5 DEF Client, Compare, NotFound, Signalled, TimedOut, unitVars
  <2>2. CASE Compare(c)
    <3>1. /\ at[c] = "scan" /\ count[c] \in Units /\ job' = job
          /\ \A d \in Clients : d # c => at'[d] = at[d] /\ count'[d] = count[d]
      BY <2>2, CountAssumption DEF Compare, Units
    <3>2. CASE executing[count[c]] = job[c]
      <4>1. at'[c] = "signal" /\ count'[c] = count[c]
        BY <2>2, <3>2 DEF Compare, Executes
      <4>2. job[c] # NoJob
        BY <3>1, JobsAssumption DEF Asked
      <4>3. \A u \in Units : executing[u] = executing[count[c]] => u = count[c]
        BY <3>1, <3>2, <4>2 DEF Once
      <4>4. QED
        BY <2>1, <3>1, <3>2, <4>1, <4>3 DEF Asked
    <3>3. CASE executing[count[c]] # job[c]
      <4>1. at'[c] = "scan" /\ count'[c] = count[c] - 1
        BY <2>2, <3>1, <3>3 DEF Compare, Executes
      <4>2. \A u \in Units : u > count'[c] => u > count[c] \/ u = count[c]
        BY <3>1, <4>1, CountAssumption DEF Units
      <4>3. \A u \in Units : u > count'[c] => executing[u] # job[c]
        BY <3>1, <3>3, <4>2 DEF Asked
      <4>4. QED
        BY <2>1, <3>1, <4>1, <4>3 DEF Asked
    <3>4. QED
      BY <3>2, <3>3
  <2>3. CASE NotFound(c) \/ Signalled(c) \/ TimedOut(c)
    <3>1. Returns(c)
      BY <2>3 DEF NotFound, Signalled, TimedOut
    <3>2. QED
      BY <2>1, <3>1 DEF Returns, Asked
  <2>4. QED
    BY <1>5, <2>2, <2>3 DEF Client
<1>6. CASE DisableQueue
  <2>1. disabled' /\ UNCHANGED <<queue, executing, at, job, count>>
    BY <1>6 DEF DisableQueue, unitVars, clientVars
  <2>2. QED
    BY <1>0, <2>1
<1>7. CASE FlushQueue
  <2>1. queue' = <<>> /\ UNCHANGED <<disabled, executing, at, job, count>>
    BY <1>7 DEF FlushQueue, unitVars, clientVars
  <2>2. QED
    BY <1>0, <2>1, EmptyIn
<1>8. CASE (\E p \in Plans : Begin(p)) \/ BlockUnit \/ RunUnit \/ AwaitUnit \/ UNCHANGED vars
  <2>1. UNCHANGED <<queue, disabled, executing, at, job, count>>
    BY <1>8 DEF Begin, BlockUnit, RunUnit, AwaitUnit, vars, unitVars, clientVars
  <2>2. QED
    BY <1>0, <2>1
<1>9. QED
  BY <1>1, <1>2, <1>3, <1>4, <1>5, <1>6, <1>7, <1>8 DEF Next, Owner

-----------------------------------------------------------------------------
(* The refinement.                                                         *)

\* What the pool has to do with each job, as ThreadPool maps it.
Status == [j \in Jobs |-> IF \E u \in Units : Executes(u, j) THEN "running"
                          ELSE IF Queued(j) /\ ~disabled THEN "queued" ELSE "idle"]

LEMMA StatusIs ==
    ASSUME IInv, NEW j \in Jobs
    PROVE  /\ Status[j] = "running" <=> \E u \in Units : executing[u] = j
           /\ Status[j] = "queued" <=> (\A u \in Units : executing[u] # j) /\ In(queue, j) /\ ~disabled
           /\ Status[j] \in {"idle", "queued", "running"}
BY QueuedIn DEF Status, Executes

LEMMA StatusNext ==
    ASSUME IInv', NEW j \in Jobs
    PROVE  /\ Status'[j] = "running" <=> \E u \in Units : executing'[u] = j
           /\ Status'[j] = "queued" <=> (\A u \in Units : executing'[u] # j) /\ In(queue', j) /\ ~disabled'
           /\ Status'[j] \in {"idle", "queued", "running"}
<1>1. DOMAIN queue' = 1..Len(queue')
  BY LenProperties DEF IInv, TypeOK
<1>2. Queued(j)' <=> In(queue', j)
  BY <1>1 DEF Queued, In
<1>3. QED
  BY <1>2 DEF Status, Executes

\* A step that changes the status of one job.
LEMMA OneMoves ==
    ASSUME NEW j \in Jobs, NEW to, Status'[j] = to, \A k \in Jobs : k # j => Status'[k] = Status[k]
    PROVE  Status' = [Status EXCEPT ![j] = to]
BY DEF Status

\* A step that is none of the abstract pool.
LEMMA Stutters ==
    ASSUME IInv, IInv', job' = job, \A j : In(queue', j) <=> In(queue, j),
           UNCHANGED <<executing, disabled>>
    PROVE  [Pool!Next]_(Pool!vars)
<1>1. \A j \in Jobs : Status'[j] = Status[j]
  BY StatusIs, StatusNext
<1>2. Status' = Status
  BY <1>1 DEF Status
<1>3. QED
  BY <1>2 DEF Pool!vars, Status

\* A job that is in the pool once is queued, run and done, as JobPool says.
LEMMA UnitRefines ==
    ASSUME OnceInv, IInv', NEW u \in Units, Unit(u)
    PROVE  [Pool!Next]_(Pool!vars)
<1> USE JobsAssumption DEF OnceInv
<1>1. CASE Extract(u)
  <2> DEFINE h == Head(queue)
  <2>1. /\ queue # <<>> /\ queue' = Tail(queue) /\ executing' = [executing EXCEPT ![u] = h]
        /\ ~disabled /\ disabled' = disabled /\ job' = job /\ pc[u] = "extract"
    BY <1>1 DEF Extract, clientVars
  <2>2. h \in Jobs /\ In(queue, h) /\ \A j : In(queue', j) <=> In(queue, j) /\ j # h
    BY <2>1, HeadOut DEF IInv, TypeOK, Once
  <2>3. executing[u] = NoJob /\ \A v \in Units : executing[v] # h
    BY <2>1, <2>2 DEF IInv, Signals, Once
  <2>4. executing'[u] = h /\ \A v \in Units : v # u => executing'[v] = executing[v]
    BY <2>1 DEF IInv, TypeOK
  <2> HIDE DEF h
  <2>5. Status[h] = "queued"
    BY <2>1, <2>2, <2>3, StatusIs
  <2>6. Status'[h] = "running"
    BY <2>2, <2>4, StatusNext
  <2>7. ASSUME NEW k \in Jobs, k # h PROVE Status'[k] = Status[k]
    <3>1. (\E v \in Units : executing'[v] = k) <=> \E v \in Units : executing[v] = k
      BY <2>3, <2>4, <2>7
    <3>2. QED
      BY <2>1, <2>2, <2>7, <3>1, StatusIs, StatusNext
  <2>8. Status' = [Status EXCEPT ![h] = "running"]
    BY <2>2, <2>6, <2>7, OneMoves
  <2>9. Pool!Start(h)
    BY <2>1, <2>5, <2>8 DEF Pool!Start, Pool!Moves, Status
  <2>10. QED
    BY <2>2, <2>9 DEF Pool!Next
<1>2. CASE Dispatched(u)
  <2> DEFINE h == executing[u]
  <2>1. /\ queue' = queue /\ executing' = [executing EXCEPT ![u] = NoJob]
        /\ disabled' = disabled /\ job' = job /\ h \in Jobs
    BY <1>2 DEF Dispatched, clientVars, IInv, TypeOK, Signals
  <2>2. ~In(queue, h) /\ \A v \in Units : v # u => executing[v] # h
    BY <2>1 DEF Once
  <2>3. executing'[u] = NoJob /\ \A v \in Units : v # u => executing'[v] = executing[v]
    BY <2>1 DEF IInv, TypeOK
  <2>4. Status[h] = "running"
    BY <2>1, StatusIs
  <2> HIDE DEF h
  <2>5. \A v \in Units : executing'[v] # h
    BY <2>1, <2>2, <2>3
  <2>6. Status'[h] = "idle"
    BY <2>1, <2>2, <2>5, StatusNext
  <2>7. ASSUME NEW k \in Jobs, k # h PROVE Status'[k] = Status[k]
    <3>1. (\E v \in Units : executing'[v] = k) <=> \E v \in Units : executing[v] = k
      BY <2>1, <2>3, <2>7 DEF h
    <3>2. QED
      BY <2>1, <3>1, StatusIs, StatusNext
  <2>8. Status' = [Status EXCEPT ![h] = "idle"]
    BY <2>1, <2>6, <2>7, OneMoves
  <2>9. Pool!Finish(h)
    BY <2>1, <2>4, <2>8 DEF Pool!Finish, Pool!Moves, Status
  <2>10. QED
    BY <2>1, <2>9 DEF Pool!Next
<1>3. CASE Woke(u) \/ Pulse(u) \/ PulseReset(u) \/ ExtractFails(u) \/ Worked(u)
  <2>1. UNCHANGED <<queue, disabled, job, executing>>
    BY <1>3 DEF Woke, Pulse, PulseReset, ExtractFails, Worked, clientVars
  <2>2. QED
    BY <2>1, Stutters
<1>4. QED
  BY <1>1, <1>2, <1>3 DEF Unit

\* A revocation cancels, or waits until nobody executes the job.
LEMMA ClientRefines ==
    ASSUME ~Resubmit, OnceInv, IInv', NEW c \in Clients,
           Client(c) \/ \E j \in Jobs : Submit(c, j) \/ RevokeQueued(c, j) \/ RevokeScan(c, j)
    PROVE  [Pool!Next]_(Pool!vars)
<1> USE JobsAssumption DEF OnceInv
<1>1. ASSUME NEW j \in Jobs, Submit(c, j) PROVE [Pool!Next]_(Pool!vars)
  <2>1. /\ queue' = Append(queue, j) /\ UNCHANGED <<disabled, executing, job>> /\ ~disabled
        /\ ~In(queue, j) /\ \A u \in Units : executing[u] # j
    BY <1>1, QueuedIn DEF Submit, Executes, unitVars, clientVars
  <2>2. \A k : In(queue', k) <=> In(queue, k) \/ k = j
    BY <2>1, AppendIn DEF IInv, TypeOK
  <2>3. Status[j] = "idle" /\ Status'[j] = "queued"
    BY <2>1, <2>2, StatusIs, StatusNext
  <2>4. \A k \in Jobs : k # j => Status'[k] = Status[k]
    BY <2>1, <2>2, StatusIs, StatusNext
  <2>5. Status' = [Status EXCEPT ![j] = "queued"]
    BY <2>3, <2>4, OneMoves
  <2>6. Pool!Submit(j)
    BY <2>1, <2>3, <2>5 DEF Pool!Submit, Pool!Moves, Status
  <2>7. QED
    BY <2>6 DEF Pool!Next
<1>2. ASSUME NEW j \in Jobs, RevokeQueued(c, j) PROVE [Pool!Next]_(Pool!vars)
  <2>1. UNCHANGED <<disabled, executing, job>> /\ ~disabled
    BY <1>2 DEF RevokeQueued, unitVars, clientVars
  <2>2. In(queue, j) /\ \A k : In(queue', k) <=> In(queue, k) /\ k # j
    BY <1>2, Removed DEF Once
  <2>3. \A u \in Units : executing[u] # j
    BY <2>2 DEF Once
  <2>4. Status[j] = "queued" /\ Status'[j] = "idle"
    BY <2>1, <2>2, <2>3, StatusIs, StatusNext
  <2>5. \A k \in Jobs : k # j => Status'[k] = Status[k]
    BY <2>1, <2>2, StatusIs, StatusNext
  <2>6. Status' = [Status EXCEPT ![j] = "idle"]
    BY <2>4, <2>5, OneMoves
  <2>7. Pool!Cancel(j)
    BY <2>1, <2>4, <2>6 DEF Pool!Cancel, Pool!Moves, Status
  <2>8. QED
    BY <2>7 DEF Pool!Next
<1>3. ASSUME UNCHANGED <<queue, disabled, executing>> PROVE Status' = Status
  BY <1>3 DEF Status, Queued, Executes
<1>4. ASSUME NEW j \in Jobs, RevokeScan(c, j) PROVE [Pool!Next]_(Pool!vars)
  <2>1. /\ UNCHANGED <<queue, disabled, executing>> /\ job' = [job EXCEPT ![c] = j]
        /\ job[c] = NoJob /\ (disabled \/ ~In(queue, j))
    BY <1>4, QueuedIn DEF RevokeScan, unitVars, Asked
  <2>2. Status[j] # "queued"
    BY <2>1, StatusIs
  <2>3. Pool!Revoke(c, j)
    BY <1>3, <2>1, <2>2 DEF Pool!Revoke, Status
  <2>4. QED
    BY <2>3 DEF Pool!Next
<1>5. CASE Compare(c)
  <2>1. UNCHANGED <<queue, disabled, executing, job>>
    BY <1>5 DEF Compare, unitVars
  <2>2. QED
    BY <2>1, Stutters
<1>6. CASE NotFound(c) \/ Signalled(c) \/ TimedOut(c)
  <2>1. UNCHANGED <<queue, disabled, executing>> /\ job' = [job EXCEPT ![c] = NoJob] /\ job[c] \in Jobs
    BY <1>6 DEF NotFound, Signalled, TimedOut, Returns, unitVars, Asked
  <2>2. Status[job[c]] = "idle" \/ c \in Timed
    <3>1. CASE NotFound(c)
      <4>1. disabled \/ ~In(queue, job[c])
        BY <3>1 DEF NotFound, Asked
      <4>2. \A u \in Units : u > 0
        BY DEF Units
      <4>3. \A u \in Units : executing[u] # job[c]
        BY <3>1, <4>2 DEF NotFound, Asked
      <4>4. QED
        BY <2>1, <4>1, <4>3, StatusIs
    <3>2. CASE Signalled(c)
      <4>1. disabled \/ ~In(queue, job[c])
        BY <3>2 DEF Signalled, Asked
      <4>2. executing[count[c]] = NoJob
        BY <3>2 DEF Signalled, Asked, IInv, Signals
      <4>3. \A u \in Units : executing[u] # job[c]
        BY <2>1, <3>2, <4>2 DEF Signalled, Asked
      <4>4. QED
        BY <2>1, <4>1, <4>3, StatusIs
    <3>3. CASE TimedOut(c)
      BY <3>3 DEF TimedOut
    <3>4. QED
      BY <1>6, <3>1, <3>2, <3>3
  <2>3. Pool!Return(c)
    BY <1>3, <2>1, <2>2 DEF Pool!Return, Status
  <2>4. QED
    BY <2>3 DEF Pool!Next
<1>7. QED
  BY <1>1, <1>2, <1>4, <1>5, <1>6 DEF Client

\* Disabling the queue, and emptying it, drops what is queued.
LEMMA OwnerRefines ==
    ASSUME OnceInv, IInv', Owner \/ (\E p \in Plans : Begin(p)) \/ UNCHANGED vars
    PROVE  [Pool!Next]_(Pool!vars)
<1> USE DEF OnceInv
<1>1. CASE DisableQueue \/ FlushQueue
  <2>1. /\ UNCHANGED <<executing, job>> /\ (disabled => disabled')
        /\ disabled' \/ queue' = <<>>
    BY <1>1 DEF DisableQueue, FlushQueue, unitVars, clientVars
  <2>2. \A j \in Jobs : Status'[j] = IF Status[j] = "queued" THEN "idle" ELSE Status[j]
    BY <2>1, EmptyIn, StatusIs, StatusNext
  <2>3. Status' = [j \in Jobs |-> IF Status[j] = "queued" THEN "idle" ELSE Status[j]]
    BY <2>2 DEF Status
  <2>4. Pool!Drop
    BY <2>1, <2>3 DEF Pool!Drop, Status
  <2>5. QED
    BY <2>4 DEF Pool!Next
<1>2. CASE (\E p \in Plans : Begin(p)) \/ BlockUnit \/ RunUnit \/ AwaitUnit \/ UNCHANGED vars
  <2>1. UNCHANGED <<queue, disabled, executing, job>>
    BY <1>2 DEF Begin, BlockUnit, RunUnit, AwaitUnit, vars, unitVars, clientVars
  <2>2. QED
    BY <2>1, Stutters
<1>3. QED
  BY <1>1, <1>2 DEF Owner

\* For jobs that are in the pool at most once the pool of threads implements JobPool: a
\* job is run at most once for a submission, by one unit, and a Revoke that returns in time
\* leaves it neither queued nor running, though it looks at the queue and at the units one
\* after the other (Thread.h:551-568).
THEOREM PoolImplementsJobPool == ASSUME ~Resubmit PROVE Spec => ImplementsJobPool
<1>1. Init => OnceInv
  <2> SUFFICES ASSUME Init PROVE OnceInv
    OBVIOUS
  <2>1. <<>> \in Seq(Jobs) /\ 0 \in 0..N
    BY EmptySeq, CountAssumption
  <2>2. IInv
    BY <2>1 DEF Init, IInv, TypeOK, Signals
  <2>3. Once /\ Asked
    BY EmptyIn DEF Init, Once, Asked
  <2>4. QED
    BY <2>2, <2>3 DEF OnceInv
<1>2. IInv /\ [Next]_vars => IInv'
  <2>1. IInv /\ UNCHANGED vars => IInv'
    BY DEF IInv, TypeOK, Signals, vars, unitVars, clientVars, ownerVars
  <2>2. QED
    BY <2>1, UnitStep, ClientStep, OwnerStep DEF Next
<1>3. OnceInv /\ [Next]_vars => OnceInv'
  BY <1>2, OnceStep, AskedStep DEF OnceInv
<1>4. Init => Pool!Init
  <2> SUFFICES ASSUME Init PROVE Pool!Init
    OBVIOUS
  <2>1. \A j \in Jobs : ~Queued(j) /\ \A u \in Units : ~Executes(u, j)
    BY JobsAssumption DEF Init, Queued, Executes
  <2>2. QED
    BY <2>1 DEF Init, Pool!Init
<1>5. OnceInv /\ [Next]_vars => [Pool!Next]_(Pool!vars)
  <2> SUFFICES ASSUME OnceInv, [Next]_vars PROVE [Pool!Next]_(Pool!vars)
    OBVIOUS
  <2>1. IInv'
    BY <1>2 DEF OnceInv
  <2>2. QED
    BY <2>1, UnitRefines, ClientRefines, OwnerRefines DEF Next
<1>6. QED
  BY <1>1, <1>3, <1>4, <1>5, PTL DEF Spec, ImplementsJobPool, Pool!Spec

-----------------------------------------------------------------------------
(* The worker pool: the pool, and a timer that submits to it.              *)

WorkerInv == IInv /\ Ended /\ WorkerTypeOK

\* The steps of the pool leave the timer alone, and a client that is between the timer
\* and the pool starts nothing else.
LEMMA PoolStep ==
    ASSUME WorkerInv, UNCHANGED timerVars,
           \/ \E u \in Units : Unit(u)
           \/ \E c \in Clients : Client(c) \/ \E j \in Jobs : SubmitJob(c, j)
           \/ Owner \/ \E p \in Plans : Begin(p)
    PROVE  WorkerInv'
<1> USE DEF WorkerInv
<1>1. CASE \E u \in Units : Unit(u)
  <2>1. PICK u \in Units : Unit(u)
    BY <1>1
  <2>2. IInv' /\ Ended'
    BY <2>1, UnitStep, EndedUnit
  <2>3. UNCHANGED at
    BY <2>1 DEF Unit, Woke, Pulse, PulseReset, Extract, Dispatched, ExtractFails, Worked, clientVars
  <2>4. QED
    BY <2>2, <2>3 DEF WorkerTypeOK, timerVars, IInv
<1>2. CASE \E c \in Clients : Client(c)
  <2>1. PICK c \in Clients : Client(c)
    BY <1>2
  <2>2. IInv' /\ Ended'
    BY <2>1, ClientStep, EndedClient
  <2>3. at[c] # "idle" /\ \A d \in Clients : d # c => at'[d] = at[d]
    BY <2>1 DEF Client, Compare, NotFound, Signalled, TimedOut, Returns, unitVars, IInv, TypeOK
  <2>4. QED
    BY <2>2, <2>3 DEF WorkerTypeOK, timerVars, IInv
<1>3. CASE \E c \in Clients, j \in Jobs : SubmitJob(c, j)
  <2>1. PICK c \in Clients, j \in Jobs : Submit(c, j)
    BY <1>3 DEF SubmitJob
  <2>2. IInv' /\ Ended'
    BY <2>1, ClientStep, EndedClient
  <2>3. UNCHANGED at
    BY <2>1 DEF Submit, unitVars, clientVars
  <2>4. QED
    BY <2>2, <2>3 DEF WorkerTypeOK, timerVars, IInv
<1>4. CASE Owner \/ \E p \in Plans : Begin(p)
  <2>1. IInv' /\ Ended'
    BY <1>4, OwnerStep, EndedOwner
  <2>2. UNCHANGED at
    BY <1>4 DEF Owner, BlockUnit, DisableQueue, RunUnit, FlushQueue, AwaitUnit, Begin, unitVars, clientVars
  <2>3. QED
    BY <2>1, <2>2 DEF WorkerTypeOK, timerVars, IInv
<1>5. QED
  BY <1>1, <1>2, <1>3, <1>4

\* An entry is listed, is taken out when it is due, and submits its job.
LEMMA TimerStep ==
    ASSUME WorkerInv, NEW j \in Jobs, AddTimed(j) \/ Fire(j) \/ Expire
    PROVE  WorkerInv'
<1> USE DEF WorkerInv
<1>1. timed \in [Jobs -> 0..MaxTimed] /\ MaxTimed \in Nat /\ hand \in Jobs \cup {NoJob}
  BY RepeatingAssumption DEF WorkerTypeOK
<1>2. CASE AddTimed(j) \/ Fire(j)
  <2>1. UNCHANGED poolVars /\ UNCHANGED taken /\ hand' \in Jobs \cup {NoJob}
    BY <1>1, <1>2 DEF AddTimed, Fire
  <2>2. timed' \in [Jobs -> 0..MaxTimed]
    <3>1. CASE AddTimed(j)
      <4>1. timed[j] + 1 \in 0..MaxTimed /\ timed' = [timed EXCEPT ![j] = timed[j] + 1]
        BY <1>1, <3>1 DEF AddTimed
      <4>2. QED
        BY <1>1, <4>1
    <3>2. CASE Fire(j)
      <4>1. timed[j] - 1 \in 0..MaxTimed /\ timed' = [timed EXCEPT ![j] = timed[j] - 1]
        BY <1>1, <3>2 DEF Fire
      <4>2. QED
        BY <1>1, <4>1
    <3>3. QED
      BY <1>2, <3>1, <3>2
  <2>3. IInv' /\ Ended' /\ UNCHANGED at
    BY <2>1, EndedQuiet DEF poolVars, unitVars, clientVars, ownerVars, IInv, TypeOK, Signals
  <2>4. QED
    BY <2>1, <2>2, <2>3 DEF WorkerTypeOK, IInv
<1>3. CASE Expire
  <2>1. queue' = queue \/ queue' = Append(queue, hand)
    BY <1>3 DEF Expire
  <2>2. queue' \in Seq(Jobs)
    BY <1>1, <1>3, <2>1 DEF Expire, IInv, TypeOK
  <2>3. UNCHANGED <<disabled, state, pc, delay, executing, signal, at, job, count, plan, ownerCount, timed, taken>>
        /\ hand' = NoJob
    BY <1>3 DEF Expire, unitVars, clientVars, ownerVars
  <2>4. IInv' /\ Ended'
    BY <2>2, <2>3, EndedQuiet DEF IInv, TypeOK, Signals
  <2>5. QED
    BY <2>3, <2>4 DEF WorkerTypeOK, IInv
<1>4. QED
  BY <1>2, <1>3

\* The two halves of Revoke.
LEMMA RevokeStep ==
    ASSUME WorkerInv, NEW c \in Clients,
           RevokePool(c) \/ \E j \in Jobs : RevokeTimed(c, j)
    PROVE  WorkerInv'
<1> USE DEF WorkerInv
<1>1. CASE RevokePool(c)
  <2>1. taken \in [Clients -> Jobs \cup {NoJob}] /\ taken[c] \in Jobs
    BY <1>1 DEF RevokePool, WorkerTypeOK
  <2>2. RevokeQueued(c, taken[c]) \/ RevokeScan(c, taken[c])
    BY <1>1 DEF RevokePool
  <2>3. IInv' /\ Ended'
    BY <2>1, <2>2, ClientStep, EndedClient
  <2>4. \A d \in Clients : d # c => at'[d] = at[d]
    BY <2>2 DEF RevokeQueued, RevokeScan, unitVars, clientVars, IInv, TypeOK
  <2>5. taken' = [taken EXCEPT ![c] = NoJob] /\ UNCHANGED <<timed, hand>>
    BY <1>1 DEF RevokePool
  <2>6. QED
    BY <2>1, <2>3, <2>4, <2>5 DEF WorkerTypeOK, IInv
<1>2. ASSUME NEW j \in Jobs, RevokeTimed(c, j) PROVE WorkerInv'
  <2>1. /\ UNCHANGED poolVars /\ UNCHANGED hand /\ at[c] = "idle"
        /\ taken' = [taken EXCEPT ![c] = j] /\ timed' = [timed EXCEPT ![j] = 0]
    BY <1>2 DEF RevokeTimed, Idle
  <2>2. IInv' /\ Ended' /\ UNCHANGED at
    BY <2>1, EndedQuiet DEF poolVars, unitVars, clientVars, ownerVars, IInv, TypeOK, Signals
  <2>3. 0 \in 0..MaxTimed
    BY RepeatingAssumption
  <2>4. /\ timed' \in [Jobs -> 0..MaxTimed] /\ taken' \in [Clients -> Jobs \cup {NoJob}]
        /\ hand' \in Jobs \cup {NoJob}
    BY <2>1, <2>3 DEF WorkerTypeOK
  <2>5. \A d \in Clients : taken'[d] # NoJob => at'[d] = "idle"
    BY <2>1, <2>2 DEF WorkerTypeOK
  <2>6. QED
    BY <2>2, <2>4, <2>5 DEF WorkerTypeOK, IInv
<1>3. QED
  BY <1>1, <1>2

LEMMA WorkerStep ==
    WorkerInv /\ [WorkerNext]_allVars => WorkerInv'
<1> SUFFICES ASSUME WorkerInv, [WorkerNext]_allVars PROVE WorkerInv'
  OBVIOUS
<1>1. CASE \/ (\E u \in Units : Unit(u)) /\ UNCHANGED timerVars
           \/ (\E c \in Clients : Client(c)) /\ UNCHANGED timerVars
           \/ (Owner \/ \E p \in Plans : Begin(p)) /\ UNCHANGED timerVars
           \/ \E c \in Clients, j \in Jobs : SubmitJob(c, j)
  <2>1. UNCHANGED timerVars
    BY <1>1 DEF SubmitJob
  <2>2. QED
    BY <1>1, <2>1, PoolStep
<1>2. CASE (\E c \in Clients, j \in Jobs : Schedule(c, j)) \/ (\E u \in Units : Repeat(u)) \/ TimerThread
  <2>1. \E j \in Jobs : AddTimed(j) \/ Fire(j) \/ Expire
    <3>1. ASSUME NEW u \in Units, Repeat(u) PROVE \E j \in Jobs : AddTimed(j)
      BY <3>1, RepeatingAssumption DEF Repeat
    <3>2. CASE Expire
      BY <3>2 DEF Expire, WorkerInv, WorkerTypeOK
    <3>3. QED
      BY <1>2, <3>1, <3>2 DEF Schedule, TimerThread
  <2>2. QED
    BY <2>1, TimerStep
<1>3. CASE \E c \in Clients : RevokePool(c) \/ \E j \in Jobs : RevokeTimed(c, j)
  BY <1>3, RevokeStep
<1>4. CASE UNCHANGED allVars
  BY <1>4, EndedQuiet DEF allVars, poolVars, timerVars, unitVars, clientVars, ownerVars,
              WorkerInv, WorkerTypeOK, IInv, TypeOK, Signals
<1>5. QED
  BY <1>1, <1>2, <1>3, <1>4 DEF WorkerNext

LEMMA WorkerInductive == WorkerSpec => []WorkerInv
<1>1. WorkerInit => WorkerInv
  <2> SUFFICES ASSUME WorkerInit PROVE WorkerInv
    OBVIOUS
  <2>1. IInv /\ Ended
    BY InitIInv, EndedInit DEF WorkerInit
  <2>2. 0 \in 0..MaxTimed
    BY RepeatingAssumption
  <2>3. QED
    BY <2>1, <2>2 DEF WorkerInit, WorkerInv, WorkerTypeOK, IInv
<1>2. QED
  BY <1>1, WorkerStep, PTL DEF WorkerSpec

\* Every variable keeps its type, and a client that has taken a job out of the timer
\* does nothing before it goes on to the pool.
THEOREM WorkerTypeCorrect == WorkerSpec => []WorkerTypeOK
BY WorkerInductive, PTL DEF WorkerInv

\* A unit's event never tells of a job it still executes, also when the timer and the
\* jobs themselves submit (Thread.h:451-474).
THEOREM WorkerSignalledIsDone == WorkerSpec => []SignalMeansDone
<1>1. WorkerInv => SignalMeansDone
  BY DEF WorkerInv, IInv, Signals, SignalMeansDone
<1>2. QED
  BY <1>1, WorkerInductive, PTL

\* A unit whose end the owner has waited for executes nothing, also when the timer and
\* the jobs themselves go on submitting (Service.h:114-122).
THEOREM WorkerCompletedStaysIdle == WorkerSpec => []CompletedIsIdle
<1>1. WorkerInv => CompletedIsIdle
  BY DEF WorkerInv, Ended
<1>2. QED
  BY <1>1, WorkerInductive, PTL
=============================================================================
