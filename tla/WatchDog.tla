------------------------------ MODULE WatchDog ------------------------------
(***************************************************************************)
(* Core::WatchDogType (Source/core/Timer.h): a thread that sleeps for the  *)
(* time it was armed with and then calls Expired() of its handler.  Arm    *)
(* and Reset store the time in _delay and run the thread, whose Worker()   *)
(* either takes the time over, or finds it taken over and expires.         *)
(*                                                                         *)
(* The thread is the one of Thread.tla, from Worker() to Worker(), for a   *)
(* thread that is not stopped.  Lock() is its m_syncAdmin, which is        *)
(* recursive: a section under it is one step.  Time is what is left of     *)
(* a sleep: whole units, up to MaxDelay.                                   *)
(***************************************************************************)
EXTENDS Integers

CONSTANTS MaxDelay,   \* bound of the model on the time a watch dog is armed with
          MaxArms     \* bound of the model on the calls

ASSUME DogAssumption == MaxDelay \in Nat \ {0} /\ MaxArms \in Nat

Infinite == MaxDelay + 1
Delays == 0..MaxDelay

VARIABLES dogState,  \* m_enumState
          armed,     \* _delay
          dogPc,     \* "wait": in WaitState; "woke": past it; "work": Worker() is
                     \* called; "worked": Worker() has returned
          sleep,     \* what is left of the delay Worker() returned
          dogCalls,  \* how many calls have been made
          due        \* history: what is left of the last Arm, Infinite after a Reset

dogVars == <<dogState, armed, dogPc, sleep, dogCalls, due>>

DogTypeOK ==
    /\ dogState \in {"RUNNING", "DEACTIVATE", "BLOCKED"}
    /\ armed \in 0..Infinite
    /\ dogPc \in {"wait", "woke", "work", "worked"}
    /\ sleep \in 0..Infinite
    /\ dogCalls \in 0..MaxArms
    /\ due \in 0..Infinite

DogInit ==
    /\ dogState = "BLOCKED"
    /\ armed = Infinite
    /\ dogPc = "wait"
    /\ sleep = Infinite
    /\ dogCalls = 0
    /\ due = Infinite

\* Thread::Block(): only a running thread is deactivated.  Thread::Run() always runs it.
DogAfterBlock == IF dogState = "RUNNING" THEN "DEACTIVATE" ELSE dogState

\* Mutant: the thread is not run.
ArmForQuiet(time) ==
    /\ dogCalls < MaxArms
    /\ dogCalls' = dogCalls + 1
    /\ armed' = time
    /\ due' = time
    /\ UNCHANGED <<dogState, dogPc, sleep>>

ArmFor(time) ==
    /\ dogCalls < MaxArms
    /\ dogCalls' = dogCalls + 1
    /\ armed' = time
    /\ dogState' = "RUNNING"
    /\ due' = time
    /\ UNCHANGED <<dogPc, sleep>>

Arm(time) == ArmFor(time)
Reset == ArmFor(Infinite)

\* WaitState(RUNNING | ...) returns: the state is seen, or the delay is over.
WaitReturn ==
    /\ dogPc = "wait"
    /\ dogState = "RUNNING" \/ sleep = 0
    /\ dogPc' = "woke"
    /\ UNCHANGED <<dogState, armed, sleep, dogCalls, due>>

\* The loop of the thread: a blocked thread is made running, a running one works.
DogWoke ==
    /\ dogPc = "woke"
    /\ dogState' = IF dogState = "BLOCKED" THEN "RUNNING" ELSE dogState
    /\ IF dogState' = "RUNNING"
         THEN dogPc' = "work" /\ UNCHANGED sleep
         ELSE dogPc' = "wait" /\ sleep' = Infinite
    /\ UNCHANGED <<armed, dogCalls, due>>

\* Mutant: the thread does not block itself first.
TakeOverRunning ==
    /\ dogPc = "work"
    /\ armed # 0
    /\ sleep' = armed
    /\ armed' = 0
    /\ dogPc' = "worked"
    /\ UNCHANGED <<dogState, dogCalls, due>>

\* Worker() takes over the time the watch dog was armed with.
TakeOver ==
    /\ dogPc = "work"
    /\ armed # 0
    /\ dogState' = DogAfterBlock
    /\ sleep' = armed
    /\ armed' = 0
    /\ dogPc' = "worked"
    /\ UNCHANGED <<dogCalls, due>>

\* Worker() calls Expired(), which returns when to be called again ...
Expires(next) ==
    /\ dogPc = "work"
    /\ armed = 0
    /\ sleep' = next
    /\ dogPc' = "worked"

Expired(next) ==
    /\ Expires(next)
    /\ dogState' = DogAfterBlock
    /\ due' = next
    /\ UNCHANGED <<armed, dogCalls>>

\* ... and may arm or reset the watch dog itself, for the lock is recursive.
ExpiredArms(time, next) ==
    /\ Expires(next)
    /\ dogCalls < MaxArms
    /\ dogCalls' = dogCalls + 1
    /\ dogState' = "RUNNING"
    /\ armed' = time
    /\ due' = time

\* Back in the loop: a deactivated thread blocks and waits.
Worked ==
    /\ dogPc = "worked"
    /\ dogState' = IF dogState = "DEACTIVATE" THEN "BLOCKED" ELSE dogState
    /\ dogPc' = "wait"
    /\ UNCHANGED <<armed, sleep, dogCalls, due>>

\* The steps of the thread take no time; a sleep begins when it waits.
DogTick ==
    LET Less(left) == IF left \in 1..MaxDelay THEN left - 1 ELSE left
    IN  /\ sleep \in 1..MaxDelay \/ due \in 1..MaxDelay
        /\ sleep' = IF dogPc = "wait" THEN Less(sleep) ELSE sleep
        /\ due' = Less(due)
        /\ UNCHANGED <<dogState, armed, dogPc, dogCalls>>

DogTimes == Delays \cup {Infinite}
Worker == TakeOver \/ \E next \in DogTimes : Expired(next) \/ \E time \in DogTimes : ExpiredArms(time, next)
Dog == WaitReturn \/ DogWoke \/ Worker \/ Worked

DogNext == (\E time \in Delays : Arm(time)) \/ Reset \/ Dog \/ DogTick

DogSpec == DogInit /\ [][DogNext]_dogVars

\* The thread runs and time passes.
FairDogSpec == DogSpec /\ WF_dogVars(Dog) /\ WF_dogVars(DogTick)

-----------------------------------------------------------------------------
\* Expired() is called only when the time of the last Arm, or the one the last call
\* of Expired() asked for, has passed, and never after a Reset, whatever the race
\* between the call and a sleep that ends (Timer.h:350-371, :374-393).
NeverEarly == [][dogPc = "work" /\ armed = 0 /\ dogPc' = "worked" => due = 0]_dogVars

\* A watch dog that was armed barks, unless it is told something else (Timer.h:382-388).
Barks == due = 0 ~> due # 0 \/ (dogPc = "work" /\ armed = 0)
=============================================================================
