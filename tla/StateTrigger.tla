---------------------------- MODULE StateTrigger ----------------------------
(***************************************************************************)
(* Core::StateTrigger (Source/core/StateTrigger.h): a state that threads   *)
(* set and wait for.  A waiter registers itself in m_InterestCount under   *)
(* m_AdminLock, sleeps on a manual-reset Event without the lock and        *)
(* de-registers with an interlocked decrement.  SetState keeps the lock    *)
(* until the interest is zero again.  m_InterestCount++ is not interlocked *)
(* (StateTrigger.h:95, :123), so it is modelled as a load and a store.     *)
(* WaitState(mask) and WaitStateClear(mask) differ only in the set of      *)
(* states they accept: the mask, or its complement.                        *)
(***************************************************************************)
EXTENDS Integers, FiniteSets

CONSTANTS Threads,   \* the threads that share the trigger
          States,    \* the values of the enumerate
          Goals,     \* the sets of states a caller waits for
          Timed,     \* threads that wait with a finite a_Time
          MaxInterest, \* bound of the model on m_InterestCount
          NoThread   \* "m_AdminLock is free"

ASSUME ThreadsAssumption == IsFiniteSet(Threads) /\ Timed \subseteq Threads
                            /\ NoThread \notin Threads
ASSUME BoundAssumption == MaxInterest \in Nat
ASSUME StatesAssumption == States # {} /\ Goals \subseteq SUBSET States

VARIABLES state,     \* m_State
          interest,  \* m_InterestCount
          event,     \* m_StateChange.m_blCondition
          lock,      \* holder of m_AdminLock
          pc,        \* what each thread is doing
          goal,      \* the states an ongoing wait accepts
          timeout,   \* blTimeOut of each thread
          loaded     \* the value m_InterestCount++ has read

vars == <<state, interest, event, lock, pc, goal, timeout, loaded>>

Locations == {"idle", "test", "store", "sleep", "leave", "spin"}

TypeOK ==
    /\ state \in States
    /\ interest \in Nat
    /\ event \in BOOLEAN
    /\ lock \in Threads \cup {NoThread}
    /\ pc \in [Threads -> Locations]
    /\ goal \in [Threads -> SUBSET States]
    /\ timeout \in [Threads -> BOOLEAN]
    /\ loaded \in [Threads -> Nat]

Init ==
    /\ state \in States
    /\ interest = 0
    /\ event = FALSE
    /\ lock = NoThread
    /\ pc = [t \in Threads |-> "idle"]
    /\ goal = [t \in Threads |-> {}]
    /\ timeout = [t \in Threads |-> FALSE]
    /\ loaded = [t \in Threads |-> 0]

GoTo(t, location) == pc' = [pc EXCEPT ![t] = location]

\* A thread calls WaitState or WaitStateClear, accepting the states in S.
Wait(t, S) ==
    /\ pc[t] = "idle"
    /\ goal' = [goal EXCEPT ![t] = S]
    /\ GoTo(t, "test")
    /\ UNCHANGED <<state, interest, event, lock, timeout, loaded>>

\* The loop condition, under the lock: leave the loop and return.
WaitReturn(t) ==
    /\ pc[t] = "test"
    /\ lock = NoThread
    /\ state \in goal[t] \/ timeout[t]
    /\ goal' = [goal EXCEPT ![t] = {}]
    /\ timeout' = [timeout EXCEPT ![t] = FALSE]
    /\ GoTo(t, "idle")
    /\ UNCHANGED <<state, interest, event, lock, loaded>>

\* Mutant: the lock is released before ++.
InterestLoadUnlocked(t) ==
    /\ pc[t] = "test"
    /\ lock = NoThread
    /\ state \notin goal[t] /\ ~timeout[t]
    /\ interest < MaxInterest
    /\ loaded' = [loaded EXCEPT ![t] = interest]
    /\ GoTo(t, "store")
    /\ UNCHANGED <<state, interest, event, lock, goal, timeout>>

\* The loop condition, under the lock: go and sleep.  First half of ++.
InterestLoad(t) ==
    /\ pc[t] = "test"
    /\ lock = NoThread
    /\ state \notin goal[t] /\ ~timeout[t]
    /\ interest < MaxInterest
    /\ lock' = t
    /\ loaded' = [loaded EXCEPT ![t] = interest]
    /\ GoTo(t, "store")
    /\ UNCHANGED <<state, interest, event, goal, timeout>>

\* Second half of ++, and the release of the lock.
InterestStore(t) ==
    /\ pc[t] = "store"
    /\ interest' = loaded[t] + 1
    /\ loaded' = [loaded EXCEPT ![t] = 0]
    /\ lock' = NoThread
    /\ GoTo(t, "sleep")
    /\ UNCHANGED <<state, event, goal, timeout>>

\* Mutant: the event resets itself when it wakes a waiter.
WakeOne(t) ==
    /\ pc[t] = "sleep"
    /\ event
    /\ event' = FALSE
    /\ GoTo(t, "leave")
    /\ UNCHANGED <<state, interest, lock, goal, timeout, loaded>>

\* m_StateChange.Lock(a_Time) returns because the event is set.
Wake(t) ==
    /\ pc[t] = "sleep"
    /\ event
    /\ GoTo(t, "leave")
    /\ UNCHANGED <<state, interest, event, lock, goal, timeout, loaded>>

\* m_StateChange.Lock(a_Time) returns because a_Time has passed; the event may
\* have been set after the deadline and before the thread ran again.
Expire(t) ==
    /\ pc[t] = "sleep"
    /\ t \in Timed
    /\ timeout' = [timeout EXCEPT ![t] = TRUE]
    /\ GoTo(t, "leave")
    /\ UNCHANGED <<state, interest, event, lock, goal, loaded>>

\* InterlockedDecrement, outside the lock.
InterestDecrement(t) ==
    /\ pc[t] = "leave"
    /\ interest' = interest - 1
    /\ GoTo(t, "test")
    /\ UNCHANGED <<state, event, lock, goal, timeout, loaded>>

\* Mutant: a single waiter is overlooked.
SetStateForMany(t, s) ==
    /\ pc[t] = "idle"
    /\ lock = NoThread
    /\ s # state
    /\ state' = s
    /\ IF interest > 1
         THEN event' = TRUE /\ lock' = t /\ GoTo(t, "spin")
         ELSE UNCHANGED <<event, lock, pc>>
    /\ UNCHANGED <<interest, goal, timeout, loaded>>

\* SetState(s) up to its spin loop, under the lock.
SetState(t, s) ==
    /\ pc[t] = "idle"
    /\ lock = NoThread
    /\ s # state
    /\ state' = s
    /\ IF interest > 0
         THEN event' = TRUE /\ lock' = t /\ GoTo(t, "spin")
         ELSE UNCHANGED <<event, lock, pc>>
    /\ UNCHANGED <<interest, goal, timeout, loaded>>

\* The spin loop ends: reset the event and release the lock.
SetStateDone(t) ==
    /\ pc[t] = "spin"
    /\ interest = 0
    /\ event' = FALSE
    /\ lock' = NoThread
    /\ GoTo(t, "idle")
    /\ UNCHANGED <<state, interest, goal, timeout, loaded>>

\* The steps a thread takes on its own once it has made a call.
Step(t) ==
    \/ WaitReturn(t) \/ InterestLoad(t) \/ InterestStore(t)
    \/ Wake(t) \/ Expire(t) \/ InterestDecrement(t)
    \/ SetStateDone(t)

Next ==
    \E t \in Threads :
        \/ \E S \in Goals : Wait(t, S)
        \/ \E s \in States : SetState(t, s)
        \/ Step(t)

Spec == Init /\ [][Next]_vars

\* A thread that can run does run; nothing forces it to make a call, and nothing
\* orders the threads that compete for the lock.
FairSpec == Spec /\ \A t \in Threads : WF_vars(Step(t))

-----------------------------------------------------------------------------
\* The waiters whose registration stands: stored and not yet withdrawn.
Registered == {t \in Threads : pc[t] \in {"sleep", "leave"}}

\* A SetState never overlooks a registered waiter: whatever the race between
\* m_InterestCount++ and the decrement, the count is at least the number of
\* registered waiters (StateTrigger.h:95-101, :150).
InterestCovers == interest >= Cardinality(Registered)

\* No lost wake-up: a waiter is never asleep on a state it accepts while the
\* event is reset (StateTrigger.h:146-160).
NoLostWakeup == \A t \in Threads : pc[t] = "sleep" /\ state \in goal[t] => event

\* A spinning SetState keeps its state until it has released everyone: the
\* waiters it wakes are not held up by a second transition (StateTrigger.h:144-163).
StateStableWhileSpinning == [][event => state' = state]_vars

\* SetState returns: the comment "Wait till the interest count reaches 0 again.."
\* (StateTrigger.h:153) says the spin loop ends.  TLC finds this violated when waits
\* run out of time (README, "Divergences").
SetStateReturns == \A t \in Threads : pc[t] = "spin" ~> pc[t] = "idle"

\* As long as no wait runs out of time, it does: only a timeout de-registers
\* while another waiter is between the two halves of ++ (StateTrigger.h:95, :101).
UntimedSetStateReturns ==
    [](\A t \in Threads : ~timeout[t]) =>
        \A t \in Threads : pc[t] = "spin" ~> pc[t] = "idle"
=============================================================================
