------------------------------- MODULE Thread -------------------------------
(***************************************************************************)
(* Core::Thread (Source/core/Thread.cpp): a thread whose loop calls        *)
(* Worker() while its state is RUNNING, and controllers that change the    *)
(* state with Init, Run, Block, Stop and Terminate, and Wait for it.       *)
(*                                                                         *)
(* Controllers test and set the state under m_syncAdmin; the thread does   *)
(* so too in its loop, but not when it ends (Thread.cpp:171).  Of the      *)
(* StateTrigger the model keeps what a caller sees: WaitState returns when *)
(* it finds a state it accepts, and may miss one that has passed; SetState *)
(* ends at once, as every waiter it wakes leaves, until the decrement of a *)
(* wait that ran out of time is lost (StateTrigger.h:95, :101): the next   *)
(* one that changes the state never ends, and what its caller and the      *)
(* trigger have locked stays locked.                                       *)
(***************************************************************************)
EXTENDS Sequences

CONSTANTS Controllers,  \* the threads that control this one
          Scripts,      \* the calls a controller may make, in order
          WorkerCalls,  \* the calls Worker() may make on its own thread
          Delays,       \* the delays Worker() may return: "finite", "infinite"
          MayFail,      \* Initialize() may return false
          NoOne,        \* "m_syncAdmin is free"
          Self          \* "m_syncAdmin is held by the thread"

Requests == {"Init", "Run", "Block", "Stop", "Terminate", "Wait"}
ThreadStates == {"INITIALIZED", "SUSPENDED", "RUNNING", "DEACTIVATE", "BLOCKED", "STOPPING", "STOPPED"}

ASSUME ScriptsAssumption == Scripts \subseteq Seq(Requests)
ASSUME WorkerAssumption ==
    /\ WorkerCalls \subseteq {"Init", "Run", "Block", "Stop"}
    /\ Delays \subseteq {"finite", "infinite"}
    /\ Delays # {}
    /\ MayFail \in BOOLEAN
ASSUME NoOneAssumption == NoOne \notin Controllers /\ Self \notin Controllers /\ Self # NoOne

VARIABLES enumState,  \* m_enumState
          trigger,  \* "exact"; "miscounted": m_InterestCount is too high, for good;
                    \* "held": someone is in a SetState that never ends
          admin,    \* who is inside m_syncAdmin between steps
          place,    \* where the thread is
          delay,    \* delayed
          sigExit,  \* m_sigExit is set
          todo,     \* the calls each controller still makes
          at        \* where each controller is

threadVars == <<enumState, trigger, admin, place, delay, sigExit, todo, at>>

ThreadTypeOK ==
    /\ enumState \in ThreadStates
    /\ trigger \in {"exact", "miscounted", "held"}
    /\ admin \in Controllers \cup {NoOne, Self}
    /\ place \in {"start", "init", "enter", "work", "worked", "wait", "woke",
               "exit", "stop", "stopped", "gone"}
    /\ delay \in {"finite", "infinite"}
    /\ sigExit \in BOOLEAN
    /\ todo \in [Controllers -> Seq(Requests)]
    /\ at \in [Controllers -> {"idle", "set", "wait", "join"}]
    /\ \A c \in Controllers : at[c] = "set" <=> admin = c

ThreadInit ==
    /\ enumState = "BLOCKED"
    /\ trigger = "exact"
    /\ admin = NoOne
    /\ place = "start"
    /\ delay = "infinite"
    /\ sigExit = FALSE
    /\ todo \in [Controllers -> Scripts]
    /\ at = [c \in Controllers |-> "idle"]

\* Mutant: a stopping thread may be run again.
AllowedRestart ==
    [INITIALIZED |-> {"RUNNING", "BLOCKED", "STOPPING", "STOPPED"},
     SUSPENDED   |-> {"RUNNING", "STOPPING", "STOPPED"},
     RUNNING     |-> {"SUSPENDED", "INITIALIZED", "BLOCKED", "DEACTIVATE", "STOPPING", "STOPPED"},
     DEACTIVATE  |-> {"SUSPENDED", "BLOCKED", "RUNNING", "STOPPING", "STOPPED"},
     BLOCKED     |-> {"SUSPENDED", "INITIALIZED", "RUNNING", "STOPPING", "STOPPED"},
     STOPPING    |-> {"RUNNING", "STOPPING", "STOPPED"},
     STOPPED     |-> {"STOPPED"}]

\* The switch of State(enumNewState): the states a state may change to.
Allowed ==
    [INITIALIZED |-> {"RUNNING", "BLOCKED", "STOPPING", "STOPPED"},
     SUSPENDED   |-> {"RUNNING", "STOPPING", "STOPPED"},
     RUNNING     |-> {"SUSPENDED", "INITIALIZED", "BLOCKED", "DEACTIVATE", "STOPPING", "STOPPED"},
     DEACTIVATE  |-> {"SUSPENDED", "BLOCKED", "RUNNING", "STOPPING", "STOPPED"},
     BLOCKED     |-> {"SUSPENDED", "INITIALIZED", "RUNNING", "STOPPING", "STOPPED"},
     STOPPING    |-> {"STOPPING", "STOPPED"},
     STOPPED     |-> {"STOPPED"}]

\* Mutant: Block() does not wait for the end of Worker().
TargetBlocked ==
    [Init |-> "INITIALIZED", Run |-> "RUNNING", Block |-> "BLOCKED",
     Stop |-> "STOPPING", Terminate |-> "STOPPING"]

\* The state a call asks for.
Target ==
    [Init |-> "INITIALIZED", Run |-> "RUNNING", Block |-> "DEACTIVATE",
     Stop |-> "STOPPING", Terminate |-> "STOPPING"]

-----------------------------------------------------------------------------
\* SetState(s): it ends unless trigger' is "held".
Change(s) ==
    /\ trigger # "held"
    /\ enumState' = s
    /\ trigger' = IF s # enumState /\ trigger = "miscounted" THEN "held" ELSE trigger

ChangeEnds == trigger' # "held"

\* WaitState(states) finds a state it accepts; it looks under the trigger's lock.
Reached(states) == trigger # "held" /\ enumState \in states

-----------------------------------------------------------------------------
\* Controllers

Asks(c, requests) == at[c] = "idle" /\ todo[c] # <<>> /\ Head(todo[c]) \in requests
Done(c) == todo' = [todo EXCEPT ![c] = Tail(@)]
MoveTo(c, location) == at' = [at EXCEPT ![c] = location]

\* After the change Terminate waits for the thread, the others return.
GoOn(c) == IF Head(todo[c]) = "Terminate" THEN MoveTo(c, "join") /\ UNCHANGED todo
                                          ELSE MoveTo(c, "idle") /\ Done(c)

\* The lock is taken and State() finds the change allowed, or refuses it.
Check(c) ==
    /\ Asks(c, DOMAIN Target)
    /\ admin = NoOne
    /\ IF Target[Head(todo[c])] \in Allowed[enumState]
         THEN admin' = c /\ MoveTo(c, "set") /\ UNCHANGED todo
         ELSE GoOn(c) /\ UNCHANGED admin
    /\ UNCHANGED <<enumState, trigger, place, delay, sigExit>>

\* SetState and the release of the lock.
Set(c) ==
    /\ at[c] = "set"
    /\ Change(Target[Head(todo[c])])
    /\ IF ChangeEnds THEN admin' = NoOne /\ GoOn(c) ELSE UNCHANGED <<admin, todo, at>>
    /\ UNCHANGED <<place, delay, sigExit>>

\* Wait(BLOCKED | STOPPED, infinite).
WaitFor(c) ==
    /\ Asks(c, {"Wait"})
    /\ MoveTo(c, "wait")
    /\ UNCHANGED <<enumState, trigger, admin, place, delay, sigExit, todo>>

WaitedFor(c) ==
    /\ at[c] = "wait"
    /\ Reached({"BLOCKED", "STOPPED"})
    /\ MoveTo(c, "idle")
    /\ Done(c)
    /\ UNCHANGED <<enumState, trigger, admin, place, delay, sigExit>>

\* Terminate: m_sigExit.Lock(infinite), and pthread_join, which waits for the rest.
Join(c) ==
    /\ at[c] = "join"
    /\ sigExit /\ place = "gone"
    /\ MoveTo(c, "idle")
    /\ Done(c)
    /\ UNCHANGED <<enumState, trigger, admin, place, delay, sigExit>>

Controller(c) == Check(c) \/ Set(c) \/ WaitFor(c) \/ WaitedFor(c) \/ Join(c)

-----------------------------------------------------------------------------
\* The thread

\* The head of the loop, with m_syncAdmin held and the state just made s.
Loop(s) ==
    \/ s \in {"STOPPING", "STOPPED"} /\ place' = "exit" /\ UNCHANGED delay
    \/ s = "RUNNING" /\ place' = "work" /\ UNCHANGED delay
    \/ s \notin {"STOPPING", "STOPPED", "RUNNING"} /\ place' = "wait" /\ delay' = "infinite"

\* The thread sets the state to s under m_syncAdmin; when that does not end it stays
\* where it is, with the lock.
ChangeThen(s, goOn) ==
    /\ admin = NoOne
    /\ Change(s)
    /\ IF ChangeEnds THEN goOn /\ UNCHANGED admin
                       ELSE admin' = Self /\ UNCHANGED <<place, delay>>
    /\ UNCHANGED <<sigExit, todo, at>>

\* Mutant: a thread that was never run does not see that it is to stop.
StartRunning ==
    /\ place = "start"
    /\ Reached({"INITIALIZED", "RUNNING"})
    /\ place' = "init"
    /\ UNCHANGED <<enumState, trigger, admin, delay, sigExit, todo, at>>

\* WaitState(INITIALIZED | RUNNING | STOPPED | STOPPING, infinite).
Start ==
    /\ place = "start"
    /\ Reached({"INITIALIZED", "RUNNING", "STOPPED", "STOPPING"})
    /\ place' = "init"
    /\ UNCHANGED <<enumState, trigger, admin, delay, sigExit, todo, at>>

Initialize ==
    /\ place = "init"
    /\ \/ enumState \notin {"STOPPED", "STOPPING"} /\ place' = "enter"
       \/ (enumState \in {"STOPPED", "STOPPING"} \/ MayFail) /\ place' = "exit"
    /\ UNCHANGED <<enumState, trigger, admin, delay, sigExit, todo, at>>

Enter ==
    /\ place = "enter"
    /\ ChangeThen(IF enumState = "INITIALIZED" THEN "BLOCKED" ELSE enumState, Loop(enumState'))

\* Worker() calls one of the thread's own operations.
WorkerCall ==
    /\ place = "work"
    /\ \E r \in WorkerCalls :
          /\ Target[r] \in Allowed[enumState]
          /\ ChangeThen(Target[r], UNCHANGED <<place, delay>>)

WorkerReturn ==
    /\ place = "work" /\ admin # Self
    /\ delay' \in Delays
    /\ place' = "worked"
    /\ UNCHANGED <<enumState, trigger, admin, sigExit, todo, at>>

\* Mutant: the state is not looked at after Worker().
WorkedOnly ==
    /\ place = "worked"
    /\ place' = "wait"
    /\ UNCHANGED <<enumState, trigger, admin, delay, sigExit, todo, at>>

Worked ==
    /\ place = "worked"
    /\ ChangeThen(IF enumState = "DEACTIVATE" THEN "BLOCKED" ELSE enumState,
                    place' = "wait" /\ UNCHANGED delay)

\* What the thread waits for between two calls of Worker().
Runnable == {"RUNNING", "STOPPED", "STOPPING"}

\* WaitState(RUNNING | STOPPED | STOPPING, delayed) returns, or is out of time.
SleepEnds ==
    /\ place = "wait"
    /\ Reached(IF delay = "finite" THEN ThreadStates ELSE Runnable)
    /\ place' = "woke"
    /\ UNCHANGED <<enumState, trigger, admin, delay, sigExit, todo, at>>

\* The thread's wait runs out of time, and its decrement falls between the load and
\* the store of a controller that goes to sleep in Wait.
LoseDecrement(c) ==
    /\ at[c] = "wait" /\ enumState \notin {"BLOCKED", "STOPPED"}
    /\ place = "wait" /\ enumState \notin Runnable /\ delay = "finite"
    /\ trigger # "held"
    /\ trigger' = "miscounted"
    /\ place' = "woke"
    /\ UNCHANGED <<enumState, admin, delay, sigExit, todo, at>>

Woke ==
    /\ place = "woke"
    /\ ChangeThen(IF enumState = "BLOCKED" THEN "RUNNING" ELSE enumState, Loop(enumState'))

\* State(STOPPED) without the lock: the test ...
ExitCheck ==
    /\ place = "exit"
    /\ "STOPPED" \in Allowed[enumState]
    /\ place' = "stop"
    /\ UNCHANGED <<enumState, trigger, admin, delay, sigExit, todo, at>>

\* ... and the change.
ExitSet ==
    /\ place = "stop"
    /\ Change("STOPPED")
    /\ place' = IF ChangeEnds THEN "stopped" ELSE place
    /\ UNCHANGED <<admin, delay, sigExit, todo, at>>

SignalExit ==
    /\ place = "stopped"
    /\ sigExit' = TRUE
    /\ place' = "gone"
    /\ UNCHANGED <<enumState, trigger, admin, delay, todo, at>>

ThreadStep ==
    \/ Start \/ Initialize \/ Enter \/ WorkerCall \/ WorkerReturn \/ Worked
    \/ SleepEnds \/ Woke \/ ExitCheck \/ ExitSet \/ SignalExit

ThreadNext == ThreadStep \/ \E c \in Controllers : Controller(c) \/ LoseDecrement(c)

ThreadSpec == ThreadInit /\ [][ThreadNext]_threadVars

\* Every thread that can run does, and Worker() returns.  Scripts are finite, so
\* nobody is kept out of m_syncAdmin for ever.
FairThreadSpec ==
    /\ ThreadSpec
    /\ WF_threadVars(ThreadStep)
    /\ WF_threadVars(WorkerReturn)
    /\ \A c \in Controllers : WF_threadVars(Controller(c))

-----------------------------------------------------------------------------
\* BLOCKED is never seen while the thread is in Worker(), whatever was asked meanwhile:
\* it stands for a thread that is between two calls.  It may start the next one by itself
\* (Thread.cpp:162), so this says nothing of how long it stays out.
BlockedMeansIdle == enumState = "BLOCKED" => place # "work"

\* Worker() is never called again once the thread was told to stop while it was
\* not in Worker(), whatever its controllers call later (Thread.cpp:135-163).
NoWorkAfterStop ==
    [](enumState \in {"STOPPING", "STOPPED"} /\ place # "work" => [](place # "work"))

\* As long as no decrement of the trigger is lost Terminate returns, wherever it lands,
\* and so does every other call that has the lock: the destructor does not hang
\* (Thread.cpp:191-218).
TerminateReturns ==
    [](trigger = "exact") =>
        \A c \in Controllers : at[c] \in {"set", "join"} ~> at[c] \notin {"set", "join"}

\* As long as no decrement of the trigger is lost, a Block that lands while Worker() is
\* running takes effect when it returns (Thread.cpp:147-149).
BlockDuringWork ==
    [](trigger = "exact") =>
        (enumState = "DEACTIVATE" /\ place = "work" ~> enumState # "DEACTIVATE")

\* A request returns: SetState is all it does under m_syncAdmin (Thread.cpp:229-263), and
\* that waits only "till the interest count reaches 0 again.." (StateTrigger.h:153).  TLC
\* finds this violated when a wait runs out of time (README, "Divergences").
RequestReturns == \A c \in Controllers : at[c] = "set" ~> at[c] # "set"

\* The thread leaves DEACTIVATE: who blocks it and waits for BLOCKED or STOPPED
\* returns.  "Wait till all threads have reached completion" (Thread.h:517).  TLC
\* finds it violated (README, "Divergences").
BlockCompletes == \A c \in Controllers : at[c] = "wait" /\ enumState = "DEACTIVATE" ~> at[c] # "wait"

\* "The STOPPED state is the end, No changes possible anymore." (Thread.cpp:332-333)
\* TLC finds this violated (README, "Divergences").
StoppedIsTheEnd == [][enumState = "STOPPED" => enumState' = "STOPPED"]_threadVars
=============================================================================
