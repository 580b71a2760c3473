------------------------- MODULE StateTrigger_proofs -------------------------
(***************************************************************************)
(* Proofs about StateTrigger for any number of threads and any states, and *)
(* about Thread, which waits for its own states with one.                  *)
(* The inductive invariant says, besides the properties themselves, what   *)
(* the half-finished m_InterestCount++ knows: the thread between load and  *)
(* store holds the lock, so the registered waiters can only have become    *)
(* fewer since it loaded, and the state is still one it does not accept.   *)
(***************************************************************************)
EXTENDS StateTrigger, Thread, FiniteSetTheorems, SequenceTheorems, TLAPS

StoreKnows ==
    \A t \in Threads : pc[t] = "store" =>
        /\ lock = t
        /\ loaded[t] >= Cardinality(Registered)
        /\ state \notin goal[t]

SpinHolds == \A t \in Threads : pc[t] = "spin" => lock = t /\ event

\* While the event is set, the thread that set it holds the lock, so nobody can
\* register and be let through by an event meant for others (StateTrigger.h:151-163).
EventIsGuarded == event => \E t \in Threads : pc[t] = "spin" /\ lock = t

IInv ==
    /\ TypeOK
    /\ InterestCovers
    /\ StoreKnows
    /\ SpinHolds
    /\ EventIsGuarded
    /\ NoLostWakeup

\* The registered waiters are finitely many.
LEMMA RegisteredFinite ==
    /\ IsFiniteSet(Registered)
    /\ Cardinality(Registered) \in Nat
    /\ Cardinality(Registered) = 0 => Registered = {}
  <1>1. IsFiniteSet(Registered)
    BY FS_Subset, ThreadsAssumption DEF Registered
  <1>2. QED
    BY <1>1, FS_CardinalityType, FS_EmptySet

\* What the count of registered waiters becomes when one registers or leaves.
LEMMA RegisteredChanges ==
    ASSUME NEW t \in Threads
    PROVE  /\ Registered' = Registered \cup {t} /\ t \notin Registered
                => Cardinality(Registered') = Cardinality(Registered) + 1
           /\ Registered' = Registered \ {t} /\ t \in Registered
                => Cardinality(Registered') = Cardinality(Registered) - 1
  BY RegisteredFinite, FS_AddElement, FS_RemoveElement

\* The constructor establishes the invariant.
LEMMA InitHolds == Init => IInv
  <1> SUFFICES ASSUME Init PROVE IInv
    OBVIOUS
  <1>1. TypeOK
    BY DEF Init, TypeOK, Locations
  <1>2. Registered = {}
    BY DEF Init, Registered
  <1>3. InterestCovers
    BY <1>2, FS_EmptySet DEF Init, InterestCovers
  <1>4. StoreKnows /\ SpinHolds /\ EventIsGuarded /\ NoLostWakeup
    BY DEF Init, StoreKnows, SpinHolds, EventIsGuarded, NoLostWakeup
  <1>5. QED
    BY <1>1, <1>3, <1>4 DEF IInv

\* A step that leaves the registered waiters as they are.
LEMMA SameRegistered ==
    ASSUME TypeOK, NEW t \in Threads, NEW l,
           pc' = [pc EXCEPT ![t] = l],
           pc[t] \in {"sleep", "leave"} <=> l \in {"sleep", "leave"}
    PROVE  Registered' = Registered
  BY DEF TypeOK, Registered

\* A waiter takes the lock, and either finds a state it accepts or goes on to register.
LEMMA WaitHolds ==
    ASSUME IInv, NEW t \in Threads, NEW S \in Goals, Wait(t, S)
    PROVE  IInv'
  <1> USE DEF IInv
  <1>1. TypeOK'
    BY StatesAssumption DEF TypeOK, Wait, GoTo, Locations
  <1>2. Registered' = Registered
    BY SameRegistered DEF Wait, GoTo
  <1>3. InterestCovers' /\ StoreKnows'
    BY <1>2 DEF InterestCovers, StoreKnows, Wait, GoTo, TypeOK
  <1>4. SpinHolds' /\ EventIsGuarded' /\ NoLostWakeup'
    BY DEF SpinHolds, EventIsGuarded, NoLostWakeup, Wait, GoTo, TypeOK
  <1>5. QED
    BY <1>1, <1>3, <1>4

\* SetState takes the lock, stores the state and sets the event if somebody waits.
LEMMA SetStateHolds ==
    ASSUME IInv, NEW t \in Threads, NEW s \in States, SetState(t, s)
    PROVE  IInv'
  <1> USE DEF IInv
  <1>1. TypeOK'
    BY DEF TypeOK, SetState, GoTo, Locations
  <1>2. Registered' = Registered
    BY DEF SetState, GoTo, Registered, TypeOK
  <1>3. InterestCovers'
    BY <1>2 DEF InterestCovers, SetState
  <1>4. \A u \in Threads : pc[u] # "store" /\ pc[u] # "spin"
    BY ThreadsAssumption DEF StoreKnows, SpinHolds, SetState
  <1>5. StoreKnows' /\ SpinHolds' /\ EventIsGuarded'
    BY <1>4 DEF StoreKnows, SpinHolds, EventIsGuarded, SetState, GoTo, TypeOK
  <1>6. NoLostWakeup'
    <2>1. CASE interest > 0
      BY <2>1 DEF NoLostWakeup, SetState, GoTo, TypeOK
    <2>2. CASE ~(interest > 0)
      <3>1. Registered = {}
        BY <2>2, RegisteredFinite DEF InterestCovers, TypeOK
      <3>2. QED
        BY <2>2, <3>1 DEF NoLostWakeup, SetState, Registered, TypeOK
    <2>3. QED
      BY <2>1, <2>2
  <1>7. QED
    BY <1>1, <1>3, <1>5, <1>6

\* A waiter that is satisfied releases the lock.
LEMMA WaitReturnHolds ==
    ASSUME IInv, NEW t \in Threads, WaitReturn(t)
    PROVE  IInv'
  <1> USE DEF IInv
  <1>1. TypeOK'
    BY DEF TypeOK, WaitReturn, GoTo, Locations
  <1>2. Registered' = Registered
    BY SameRegistered DEF WaitReturn, GoTo
  <1>3. InterestCovers' /\ StoreKnows'
    BY <1>2 DEF InterestCovers, StoreKnows, WaitReturn, GoTo, TypeOK
  <1>4. SpinHolds' /\ EventIsGuarded' /\ NoLostWakeup'
    BY DEF SpinHolds, EventIsGuarded, NoLostWakeup, WaitReturn, GoTo, TypeOK
  <1>5. QED
    BY <1>1, <1>3, <1>4

\* The first half of m_InterestCount++.
LEMMA InterestLoadHolds ==
    ASSUME IInv, NEW t \in Threads, InterestLoad(t)
    PROVE  IInv'
  <1> USE DEF IInv
  <1>1. TypeOK'
    BY DEF TypeOK, InterestLoad, GoTo, Locations
  <1>2. Registered' = Registered
    BY SameRegistered DEF InterestLoad, GoTo
  <1>3. \A u \in Threads : pc[u] # "store" /\ pc[u] # "spin"
    BY ThreadsAssumption DEF StoreKnows, SpinHolds, InterestLoad
  <1>4. InterestCovers' /\ StoreKnows'
    BY <1>2, <1>3 DEF InterestCovers, StoreKnows, InterestLoad, GoTo, TypeOK
  <1>5. SpinHolds' /\ EventIsGuarded' /\ NoLostWakeup'
    BY <1>3 DEF SpinHolds, EventIsGuarded, NoLostWakeup, InterestLoad, GoTo, TypeOK
  <1>6. QED
    BY <1>1, <1>4, <1>5

\* The second half of m_InterestCount++: what decrements lost in between only leaves the count higher.
LEMMA InterestStoreHolds ==
    ASSUME IInv, NEW t \in Threads, InterestStore(t)
    PROVE  IInv'
  <1> USE DEF IInv
  <1>1. TypeOK'
    BY DEF TypeOK, InterestStore, GoTo, Locations
  <1>2. lock = t /\ loaded[t] >= Cardinality(Registered) /\ state \notin goal[t]
    BY DEF StoreKnows, InterestStore
  <1>3. Registered' = Registered \cup {t} /\ t \notin Registered
    BY DEF InterestStore, GoTo, Registered, TypeOK
  <1>4. Cardinality(Registered') = Cardinality(Registered) + 1
    BY <1>3, RegisteredChanges
  <1>5. InterestCovers'
    BY <1>2, <1>4, RegisteredFinite DEF InterestCovers, InterestStore, TypeOK
  <1>6. \A u \in Threads : u # t => pc[u] # "store" /\ pc[u] # "spin"
    BY <1>2 DEF StoreKnows, SpinHolds
  <1>7. StoreKnows' /\ SpinHolds'
    BY <1>6 DEF StoreKnows, SpinHolds, InterestStore, GoTo, TypeOK
  <1>8. ~event
    BY <1>2, <1>6 DEF EventIsGuarded, InterestStore
  <1>9. EventIsGuarded' /\ NoLostWakeup'
    BY <1>2, <1>8 DEF EventIsGuarded, NoLostWakeup, InterestStore, GoTo, TypeOK
  <1>10. QED
    BY <1>1, <1>5, <1>7, <1>9

\* The event wait ends, by the event or by the time.
LEMMA AwakenHolds ==
    ASSUME IInv, NEW t \in Threads, Wake(t) \/ Expire(t)
    PROVE  IInv'
  <1> USE DEF IInv
  <1>1. TypeOK'
    BY DEF TypeOK, Wake, Expire, GoTo, Locations
  <1>2. Registered' = Registered
    BY SameRegistered DEF Wake, Expire, GoTo
  <1>3. InterestCovers' /\ StoreKnows'
    BY <1>2 DEF InterestCovers, StoreKnows, Wake, Expire, GoTo, TypeOK
  <1>4. SpinHolds' /\ EventIsGuarded' /\ NoLostWakeup'
    BY DEF SpinHolds, EventIsGuarded, NoLostWakeup, Wake, Expire, GoTo, TypeOK
  <1>5. QED
    BY <1>1, <1>3, <1>4

\* A waiter takes itself out of the count.
LEMMA InterestDecrementHolds ==
    ASSUME IInv, NEW t \in Threads, InterestDecrement(t)
    PROVE  IInv'
  <1> USE DEF IInv
  <1>1. Registered' = Registered \ {t} /\ t \in Registered
    BY DEF InterestDecrement, GoTo, Registered, TypeOK
  <1>2. Cardinality(Registered') = Cardinality(Registered) - 1
    BY <1>1, RegisteredChanges
  <1>3. Cardinality(Registered) \in Nat /\ Cardinality(Registered) # 0
    BY <1>1, RegisteredFinite
  <1>4. TypeOK'
    BY <1>3 DEF InterestCovers, TypeOK, InterestDecrement, GoTo, Locations
  <1>5. InterestCovers'
    BY <1>2, <1>3 DEF InterestCovers, InterestDecrement, TypeOK
  <1>6. StoreKnows'
    BY <1>2, <1>3 DEF StoreKnows, InterestDecrement, GoTo, TypeOK
  <1>7. SpinHolds' /\ EventIsGuarded' /\ NoLostWakeup'
    BY DEF SpinHolds, EventIsGuarded, NoLostWakeup, InterestDecrement, GoTo, TypeOK
  <1>8. QED
    BY <1>4, <1>5, <1>6, <1>7

\* The count is zero: SetState resets the event and releases the lock.
LEMMA SetStateDoneHolds ==
    ASSUME IInv, NEW t \in Threads, SetStateDone(t)
    PROVE  IInv'
  <1> USE DEF IInv
  <1>1. TypeOK'
    BY DEF TypeOK, SetStateDone, GoTo, Locations
  <1>2. Registered = {}
    BY RegisteredFinite DEF InterestCovers, SetStateDone
  <1>3. Registered' = Registered
    BY SameRegistered DEF SetStateDone, GoTo
  <1>4. InterestCovers'
    BY <1>3 DEF InterestCovers, SetStateDone
  <1>5. \A u \in Threads : u # t => pc[u] # "store" /\ pc[u] # "spin"
    BY DEF StoreKnows, SpinHolds, SetStateDone
  <1>6. StoreKnows' /\ SpinHolds' /\ EventIsGuarded'
    BY <1>5 DEF StoreKnows, SpinHolds, EventIsGuarded, SetStateDone, GoTo, TypeOK
  <1>7. NoLostWakeup'
    BY <1>2, <1>3 DEF NoLostWakeup, Registered
  <1>8. QED
    BY <1>1, <1>4, <1>6, <1>7

\* Every step keeps the invariant: one case per action.
LEMMA StepHolds == IInv /\ [Next]_vars => IInv'
  <1> SUFFICES ASSUME IInv, [Next]_vars PROVE IInv'
    OBVIOUS
  <1>1. CASE UNCHANGED vars
    BY <1>1 DEF IInv, vars, TypeOK, InterestCovers, StoreKnows, SpinHolds,
                EventIsGuarded, NoLostWakeup, Registered
  <1>2. ASSUME NEW t \in Threads, NEW S \in Goals, Wait(t, S) PROVE IInv'
    BY <1>2, WaitHolds
  <1>3. ASSUME NEW t \in Threads, NEW s \in States, SetState(t, s) PROVE IInv'
    BY <1>3, SetStateHolds
  <1>4. ASSUME NEW t \in Threads, Step(t) PROVE IInv'
    BY <1>4, WaitReturnHolds, InterestLoadHolds, InterestStoreHolds, AwakenHolds,
       InterestDecrementHolds, SetStateDoneHolds DEF Step
  <1>5. QED
    BY <1>1, <1>2, <1>3, <1>4 DEF Next

\* The invariant holds in every reachable state.
LEMMA Invariance == Spec => []IInv
  BY InitHolds, StepHolds, PTL DEF Spec

\* Type correctness: in particular m_InterestCount, an unsigned integer, is
\* never decremented below zero (StateTrigger.h:101, :129).
THEOREM TypeCorrect == Spec => []TypeOK
  BY Invariance, PTL DEF IInv

\* The count covers the registered waiters whatever the race on the increment
\* (StateTrigger.h:95, :101).
THEOREM CountCovers == Spec => []InterestCovers
  BY Invariance, PTL DEF IInv

\* No waiter sleeps through a state it accepts (StateTrigger.h:94-104, :146-160).
THEOREM WakeupsKept == Spec => []NoLostWakeup
  BY Invariance, PTL DEF IInv

\* The state does not change while a SetState releases the waiters
\* (StateTrigger.h:144-163).
THEOREM StableWhileSpinning == Spec => StateStableWhileSpinning
  <1>1. IInv /\ [Next]_vars => [event => state' = state]_vars
    <2> SUFFICES ASSUME IInv, [Next]_vars, event PROVE state' = state \/ UNCHANGED vars
      OBVIOUS
    <2>1. PICK u \in Threads : pc[u] = "spin" /\ lock = u
      BY DEF IInv, EventIsGuarded
    <2>2. ASSUME NEW t \in Threads, NEW s \in States PROVE ~SetState(t, s)
      BY <2>1, ThreadsAssumption DEF SetState
    <2>3. QED
      BY <2>2 DEF Next, Step, Wait, WaitReturn, InterestLoad, InterestStore, Wake,
                  Expire, InterestDecrement, SetStateDone
  <1>2. QED
    BY <1>1, Invariance, PTL DEF Spec, StateStableWhileSpinning
-----------------------------------------------------------------------------
(* The thread.                                                             *)

\* A controller inside a call knows which; the change it has checked is still allowed
\* when it makes it, unless the thread, that takes no lock for it, has just stopped.
Chosen ==
    \A c \in Controllers :
        /\ at[c] # "idle" => todo[c] # <<>>
        /\ at[c] = "set" =>
              /\ Head(todo[c]) \in DOMAIN Target
              /\ \/ Target[Head(todo[c])] \in Allowed[enumState]
                 \/ place \in {"stopped", "gone"}
                 \/ trigger = "held"

\* Only the end of the thread makes it STOPPED.
StoppedEnds ==
    enumState = "STOPPED" =>
        place \in {"stopped", "gone"} \/ (place = "stop" /\ trigger = "held")

ThreadInv == ThreadTypeOK /\ Chosen /\ StoppedEnds /\ BlockedMeansIdle

\* The thread is out of Worker() and does not come back.
Out ==
    /\ place # "work"
    /\ enumState \in {"STOPPING", "STOPPED"} \/ place \in {"exit", "stop", "stopped", "gone"}

\* What may be asked for, and from where.
LEMMA Targets ==
    /\ DOMAIN Target = {"Init", "Run", "Block", "Stop", "Terminate"}
    /\ \A r \in DOMAIN Target :
          /\ Target[r] \in {"INITIALIZED", "RUNNING", "DEACTIVATE", "STOPPING"}
          /\ Target[r] \in Allowed["STOPPING"] => Target[r] = "STOPPING"
BY DEF Target, Allowed

\* What a controller does after its call keeps the types of the scripts.
LEMMA Leaving ==
    ASSUME ThreadInv, NEW c \in Controllers, todo[c] # <<>>,
           GoOn(c) \/ (MoveTo(c, "idle") /\ Done(c))
    PROVE  /\ todo' \in [Controllers -> Seq(Requests)]
           /\ at' \in [Controllers -> {"idle", "set", "wait", "join"}]
           /\ at'[c] \in {"idle", "join"} /\ (at'[c] = "join" => todo'[c] = todo[c])
           /\ \A d \in Controllers : d # c => at'[d] = at[d] /\ todo'[d] = todo[d]
<1>1. todo[c] \in Seq(Requests) /\ Tail(todo[c]) \in Seq(Requests)
  BY HeadTailProperties DEF ThreadInv, ThreadTypeOK
<1>2. QED
  BY <1>1 DEF ThreadInv, ThreadTypeOK, GoOn, MoveTo, Done

\* A step of a controller.
LEMMA ControllerStep == ASSUME ThreadInv, NEW c \in Controllers, Controller(c) PROVE ThreadInv'
<1> USE NoOneAssumption
<1>1. CASE Check(c) /\ Target[Head(todo[c])] \in Allowed[enumState]
  <2>1. /\ UNCHANGED <<enumState, trigger, place, delay, sigExit, todo>> /\ admin' = c /\ at' = [at EXCEPT ![c] = "set"]
        /\ todo[c] # <<>> /\ Head(todo[c]) \in DOMAIN Target /\ admin = NoOne
    BY <1>1 DEF Check, Asks, MoveTo
  <2>2. ThreadTypeOK'
    BY <2>1 DEF ThreadInv, ThreadTypeOK
  <2>3. Chosen'
    BY <1>1, <2>1 DEF ThreadInv, ThreadTypeOK, Chosen
  <2>4. QED
    BY <2>1, <2>2, <2>3 DEF ThreadInv, StoppedEnds, BlockedMeansIdle
<1>2. CASE Check(c) /\ Target[Head(todo[c])] \notin Allowed[enumState]
  <2>1. /\ UNCHANGED <<enumState, trigger, admin, place, delay, sigExit>> /\ admin = NoOne
        /\ todo[c] # <<>> /\ GoOn(c) /\ at[c] = "idle"
    BY <1>2 DEF Check, Asks
  <2>2. ThreadTypeOK'
    BY <2>1, Leaving DEF ThreadInv, ThreadTypeOK
  <2>3. Chosen'
    BY <2>1, Leaving DEF ThreadInv, ThreadTypeOK, Chosen
  <2>4. QED
    BY <2>1, <2>2, <2>3 DEF ThreadInv, StoppedEnds, BlockedMeansIdle
<1>3. CASE Set(c) /\ ChangeEnds
  <2>1. /\ UNCHANGED <<place, delay, sigExit>> /\ admin' = NoOne /\ admin = c
        /\ enumState' = Target[Head(todo[c])] /\ Head(todo[c]) \in DOMAIN Target
        /\ todo[c] # <<>> /\ GoOn(c) /\ trigger' = trigger
    BY <1>3 DEF Set, Change, ChangeEnds, ThreadInv, ThreadTypeOK, Chosen
  <2>2. enumState' \in {"INITIALIZED", "RUNNING", "DEACTIVATE", "STOPPING"}
    BY <2>1, Targets
  <2>3. \A d \in Controllers : at'[d] # "set"
    BY <2>1, Leaving DEF ThreadInv, ThreadTypeOK
  <2>4. ThreadTypeOK'
    BY <2>1, <2>2, <2>3, Leaving DEF ThreadInv, ThreadTypeOK, ThreadStates
  <2>5. Chosen'
    BY <2>1, <2>3, Leaving DEF ThreadInv, ThreadTypeOK, Chosen
  <2>6. QED
    BY <2>2, <2>4, <2>5 DEF ThreadInv, StoppedEnds, BlockedMeansIdle
<1>4. CASE WaitFor(c)
  <2>1. /\ UNCHANGED <<enumState, trigger, admin, place, delay, sigExit, todo>> /\ at' = [at EXCEPT ![c] = "wait"]
        /\ todo[c] # <<>> /\ at[c] = "idle"
    BY <1>4 DEF WaitFor, Asks, MoveTo
  <2>2. ThreadTypeOK'
    BY <2>1 DEF ThreadInv, ThreadTypeOK
  <2>3. Chosen'
    BY <2>1 DEF ThreadInv, ThreadTypeOK, Chosen
  <2>4. QED
    BY <2>1, <2>2, <2>3 DEF ThreadInv, StoppedEnds, BlockedMeansIdle
<1>5. CASE WaitedFor(c) \/ Join(c)
  <2>1. /\ UNCHANGED <<enumState, trigger, admin, place, delay>> /\ sigExit' = sigExit
        /\ todo[c] # <<>> /\ MoveTo(c, "idle") /\ Done(c) /\ at[c] # "set"
    BY <1>5 DEF WaitedFor, Join, ThreadInv, Chosen
  <2>2. ThreadTypeOK'
    BY <2>1, Leaving DEF ThreadInv, ThreadTypeOK
  <2>3. Chosen'
    <3>1. at'[c] \in {"idle", "join"} /\ at' = [at EXCEPT ![c] = "idle"]
      BY <2>1, Leaving DEF ThreadInv, ThreadTypeOK, MoveTo
    <3>2. at'[c] = "idle" /\ \A d \in Controllers : d # c => at'[d] = at[d] /\ todo'[d] = todo[d]
      BY <2>1, <3>1, Leaving DEF ThreadInv, ThreadTypeOK
    <3>3. QED
      BY <2>1, <3>2 DEF ThreadInv, Chosen
  <2>4. QED
    BY <2>1, <2>2, <2>3 DEF ThreadInv, StoppedEnds, BlockedMeansIdle
<1>6. CASE Set(c) /\ ~ChangeEnds
  <2>1. /\ UNCHANGED <<admin, place, delay, sigExit, todo, at>> /\ trigger' = "held"
        /\ enumState' = Target[Head(todo[c])] /\ Head(todo[c]) \in DOMAIN Target
    BY <1>6 DEF Set, Change, ChangeEnds, ThreadInv, Chosen
  <2>2. enumState' \in {"INITIALIZED", "RUNNING", "DEACTIVATE", "STOPPING"}
    BY <2>1, Targets
  <2>3. QED
    BY <2>1, <2>2 DEF ThreadInv, ThreadTypeOK, ThreadStates, Chosen, StoppedEnds, BlockedMeansIdle
<1>7. QED
  BY <1>1, <1>2, <1>3, <1>4, <1>5, <1>6 DEF Controller

\* A State() of the thread under m_syncAdmin, whether or not it ends.
LEMMA ChangeThenHolds ==
    ASSUME ThreadInv, NEW s \in ThreadStates \ {"STOPPED"}, NEW goOn, ChangeThen(s, goOn),
           goOn => /\ place' \in {"exit", "work", "wait"} /\ delay' \in {"finite", "infinite"}
                   /\ s = "BLOCKED" => place' # "work",
           s = "BLOCKED" => place # "work"
    PROVE  ThreadInv'
<1> USE NoOneAssumption
<1>1. /\ enumState' = s /\ UNCHANGED <<sigExit, todo, at>> /\ \A c \in Controllers : at[c] # "set"
      /\ admin' \in {NoOne, Self} /\ trigger' \in {"exact", "miscounted", "held"}
  BY DEF ChangeThen, Change, ThreadInv, ThreadTypeOK
<1>2. (place' = place /\ delay' = delay) \/ goOn
  BY DEF ChangeThen
<1>3. ThreadTypeOK'
  BY <1>1, <1>2 DEF ThreadInv, ThreadTypeOK
<1>4. Chosen' /\ StoppedEnds' /\ BlockedMeansIdle'
  BY <1>1, <1>2 DEF ThreadInv, Chosen, StoppedEnds, BlockedMeansIdle
<1>5. QED
  BY <1>3, <1>4 DEF ThreadInv

\* A step of the thread that leaves the state alone.
LEMMA ThreadQuiet ==
    ASSUME ThreadInv, UNCHANGED <<enumState, admin, todo, at>>,
           trigger' \in {"exact", "miscounted"} \/ trigger' = trigger,
           place' \in {"init", "enter", "exit", "worked", "woke", "stop", "stopped", "gone"},
           delay' \in {"finite", "infinite"}, sigExit' \in BOOLEAN,
           trigger = "held" => trigger' = "held",
           place \in {"stopped", "gone"} => place' = "gone",
           place = "stop" => place' = "stop"
    PROVE  ThreadInv'
BY DEF ThreadInv, ThreadTypeOK, Chosen, StoppedEnds, BlockedMeansIdle

\* A step of the thread: under m_syncAdmin, quiet, or the change to STOPPED.
LEMMA ThreadStepHolds == ASSUME ThreadInv, ThreadStep PROVE ThreadInv'
<1>1. ThreadTypeOK
  BY DEF ThreadInv
<1>2. CASE Start \/ Initialize \/ SleepEnds \/ ExitCheck \/ WorkerReturn \/ SignalExit
  <2>1. delay' \in {"finite", "infinite"} /\ sigExit' \in BOOLEAN
        /\ UNCHANGED <<enumState, trigger, admin, todo, at>>
    BY <1>1, <1>2, WorkerAssumption
       DEF Start, Initialize, SleepEnds, ExitCheck, WorkerReturn, SignalExit, ThreadTypeOK
  <2>2. /\ place' \in {"init", "enter", "exit", "worked", "woke", "stop", "stopped", "gone"}
        /\ place \in {"stopped", "gone"} => place' = "gone"
        /\ place # "stop"
    BY <1>2 DEF Start, Initialize, SleepEnds, ExitCheck, WorkerReturn, SignalExit
  <2>3. QED
    BY <2>1, <2>2, ThreadQuiet
<1>3. CASE Enter \/ Woke
  <2>1. place \in {"enter", "woke"}
    BY <1>3 DEF Enter, Woke
  <2>2. PICK s \in ThreadStates : ChangeThen(s, Loop(enumState')) /\ (s = "STOPPED" => s = enumState)
    BY <1>1, <1>3 DEF Enter, Woke, ThreadTypeOK, ThreadStates
  <2>3. s # "STOPPED"
    BY <2>1, <2>2 DEF ThreadInv, StoppedEnds
  <2>4. enumState' = s
    BY <2>2 DEF ChangeThen, Change
  <2>5. Loop(enumState') => /\ place' \in {"exit", "work", "wait"}
                            /\ delay' \in {"finite", "infinite"}
                            /\ s = "BLOCKED" => place' # "work"
    BY <1>1, <2>4 DEF Loop, ThreadTypeOK
  <2>6. QED
    BY <2>1, <2>2, <2>3, <2>5, ChangeThenHolds
<1>4. CASE WorkerCall
  <2>1. PICK r \in WorkerCalls : ChangeThen(Target[r], UNCHANGED <<place, delay>>)
    BY <1>4 DEF WorkerCall
  <2>2. r \in DOMAIN Target /\ place = "work"
    BY <1>4, Targets, WorkerAssumption DEF WorkerCall
  <2>3. Target[r] \in {"INITIALIZED", "RUNNING", "DEACTIVATE", "STOPPING"}
    BY <2>2, Targets
  <2>4. Target[r] \in ThreadStates \ {"STOPPED"} /\ Target[r] # "BLOCKED"
    BY <2>3 DEF ThreadStates
  <2>5. UNCHANGED <<place, delay>> =>
            place' \in {"exit", "work", "wait"} /\ delay' \in {"finite", "infinite"}
    BY <1>1, <2>2 DEF ThreadTypeOK
  <2>6. QED
    BY <2>1, <2>4, <2>5, ChangeThenHolds
<1>5. CASE Worked
  <2>1. PICK s \in ThreadStates :
            ChangeThen(s, place' = "wait" /\ UNCHANGED delay) /\ (s = "STOPPED" => s = enumState)
    BY <1>1, <1>5 DEF Worked, ThreadTypeOK, ThreadStates
  <2>2. s # "STOPPED" /\ place = "worked"
    BY <1>5, <2>1 DEF ThreadInv, StoppedEnds, Worked
  <2>3. place' = "wait" /\ UNCHANGED delay =>
            /\ place' \in {"exit", "work", "wait"} /\ delay' \in {"finite", "infinite"}
            /\ s = "BLOCKED" => place' # "work"
    BY <1>1 DEF ThreadTypeOK
  <2>4. QED
    BY <2>1, <2>2, <2>3, ChangeThenHolds
<1>6. CASE ExitSet
  <2>1. /\ enumState' = "STOPPED" /\ UNCHANGED <<admin, delay, sigExit, todo, at>>
        /\ trigger' \in {"exact", "miscounted", "held"}
        /\ place' = "stopped" \/ (place' = "stop" /\ trigger' = "held")
    BY <1>1, <1>6 DEF ExitSet, Change, ChangeEnds, ThreadTypeOK
  <2>2. QED
    BY <2>1 DEF ThreadInv, ThreadTypeOK, ThreadStates, Chosen, StoppedEnds, BlockedMeansIdle
<1>7. QED
  BY <1>2, <1>3, <1>4, <1>5, <1>6 DEF ThreadStep

\* A decrement that is lost.
LEMMA LoseHolds == ASSUME ThreadInv, NEW c \in Controllers, LoseDecrement(c) PROVE ThreadInv'
<1>1. /\ UNCHANGED <<enumState, admin, delay, sigExit, todo, at>> /\ trigger # "held"
      /\ trigger' = "miscounted" /\ place = "wait" /\ place' = "woke"
  BY DEF LoseDecrement
<1>2. QED
  BY <1>1 DEF ThreadInv, ThreadTypeOK, Chosen, StoppedEnds, BlockedMeansIdle

\* The invariant is inductive.
LEMMA ThreadInductive == ThreadSpec => []ThreadInv
<1>1. ThreadInit => ThreadInv
  <2> SUFFICES ASSUME ThreadInit PROVE ThreadInv
    OBVIOUS
  <2>1. todo \in [Controllers -> Seq(Requests)]
    BY ScriptsAssumption DEF ThreadInit
  <2>2. QED
    BY <2>1, NoOneAssumption DEF ThreadInit, ThreadInv, ThreadTypeOK, Chosen, StoppedEnds,
                BlockedMeansIdle, ThreadStates
<1>2. ThreadInv /\ [ThreadNext]_threadVars => ThreadInv'
  <2>1. ThreadInv /\ UNCHANGED threadVars => ThreadInv'
    BY DEF ThreadInv, ThreadTypeOK, Chosen, StoppedEnds, BlockedMeansIdle, threadVars
  <2>2. QED
    BY <2>1, ControllerStep, ThreadStepHolds, LoseHolds DEF ThreadNext
<1>3. QED
  BY <1>1, <1>2, PTL DEF ThreadSpec

\* Every variable keeps its type, and the lock belongs to the controller that is between
\* its check and its change.
THEOREM ThreadTypeCorrect == ThreadSpec => []ThreadTypeOK
BY ThreadInductive, PTL DEF ThreadInv

\* A blocked thread is not in Worker() (Thread.cpp:135-163).
THEOREM BlockedIsIdle == ThreadSpec => []BlockedMeansIdle
BY ThreadInductive, PTL DEF ThreadInv

\* Who is out of Worker() and told to stop stays out.
LEMMA StaysOut == ThreadInv /\ Out /\ [ThreadNext]_threadVars => Out'
<1> SUFFICES ASSUME ThreadInv, Out, [ThreadNext]_threadVars PROVE Out'
  OBVIOUS
<1>1. CASE UNCHANGED threadVars
  BY <1>1 DEF Out, threadVars
<1>2. ASSUME NEW c \in Controllers, Controller(c) PROVE Out'
  <2>1. CASE Set(c)
    <3>1. /\ place' = place /\ enumState' = Target[Head(todo[c])] /\ Head(todo[c]) \in DOMAIN Target
          /\ Target[Head(todo[c])] \in Allowed[enumState] \/ place \in {"stopped", "gone"}
          /\ trigger # "held"
      BY <2>1 DEF Set, Change, ThreadInv, Chosen
    <3>2. enumState = "STOPPED" => place \in {"stopped", "gone"}
      BY <3>1 DEF ThreadInv, StoppedEnds
    <3>3. enumState = "STOPPING" => enumState' = "STOPPING" \/ place \in {"stopped", "gone"}
      BY <3>1, Targets
    <3>4. QED
      BY <3>1, <3>2, <3>3 DEF Out
  <2>2. CASE ~Set(c)
    <3>1. UNCHANGED <<enumState, place>>
      BY <1>2, <2>2 DEF Controller, Check, WaitFor, WaitedFor, Join
    <3>2. QED
      BY <3>1 DEF Out
  <2>3. QED
    BY <2>1, <2>2
<1>3. CASE Enter \/ Woke
  <2>1. enumState' = enumState /\ (place' = place \/ Loop(enumState'))
    BY <1>3 DEF Out, Enter, Woke, ChangeThen, Change
  <2>2. place # "work" /\ enumState \in {"STOPPING", "STOPPED"}
    BY <1>3 DEF Out, Enter, Woke
  <2>3. QED
    BY <2>1, <2>2 DEF Out, Loop
<1>4. CASE Start \/ Initialize \/ SleepEnds \/ ExitCheck \/ WorkerReturn \/ SignalExit
  BY <1>4 DEF Out, Start, Initialize, SleepEnds, ExitCheck, WorkerReturn, SignalExit
<1>5. CASE Worked \/ WorkerCall \/ ExitSet
  BY <1>5 DEF Out, Worked, WorkerCall, ExitSet, ChangeThen, Change
<1>6. ASSUME NEW c \in Controllers, LoseDecrement(c) PROVE Out'
  BY <1>6 DEF Out, LoseDecrement
<1>7. QED
  BY <1>1, <1>2, <1>3, <1>4, <1>5, <1>6 DEF ThreadNext, ThreadStep

\* Worker() is never called once the thread was told to stop outside it, whatever the
\* controllers ask for later (Thread.cpp:135-163, :301-336).
THEOREM NoWorkOnceStopped == ThreadSpec => NoWorkAfterStop
<1>1. enumState \in {"STOPPING", "STOPPED"} /\ place # "work" => Out
  BY DEF Out
<1>2. Out => place # "work"
  BY DEF Out
<1>3. QED
  BY <1>1, <1>2, ThreadInductive, StaysOut, PTL DEF ThreadSpec, NoWorkAfterStop
=============================================================================
