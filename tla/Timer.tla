-------------------------------- MODULE Timer --------------------------------
(***************************************************************************)
(* Core::TimerType (Source/core/Timer.h): a list of entries sorted by time *)
(* and a thread that serves the due ones with m_Admin released, asks each  *)
(* for its next time, and then blocks itself for the time up to the head.  *)
(* Clients schedule, trigger and revoke; the owner destroys the timer.     *)
(*                                                                         *)
(* The thread is the one of Thread.tla, from Worker() to Worker(): Run and *)
(* Block change its state, and a finite delay makes BLOCKED RUNNING.  A    *)
(* section under m_Admin is one step.  Time is a counter up to MaxTime.    *)
(***************************************************************************)
EXTENDS Integers, Sequences

CONSTANTS Contents,   \* CONTENT: what is timed
          OneShot,    \* contents whose Timed() returns 0
          MaxTime,    \* bound of the model on the clock and on schedule times
          MaxCalls,   \* bound of the model on the calls of the clients
          MayDestroy, \* the owner destroys the timer
          Nothing     \* "no content"

ASSUME BoundsAssumption == MaxTime \in Nat /\ MaxCalls \in Nat
ASSUME ContentsAssumption ==
    OneShot \subseteq Contents /\ Nothing \notin Contents /\ MayDestroy \in BOOLEAN

Never == MaxTime + 1
Times == 0..MaxTime
Slots == [time : Times, info : Contents]
None == [time |-> Never, info |-> Nothing]

Lists == INSTANCE SequencesExt

VARIABLES now,          \* the clock
          pending,      \* m_PendingQueue
          state,        \* m_enumState of m_TimerThread
          pc,           \* where the timer thread is
          started,      \* the time Process() has read
          current,      \* the entry whose Timed() runs
          delay,        \* the delay Worker() returned, counted down
          nextTrigger,  \* m_NextTrigger
          owner,        \* "alive", "waiting" in the destructor, "gone"
          calls,        \* how many calls the clients have made
          revoked       \* history: contents revoked and not scheduled since

threadVars == <<pc, started, current, delay, nextTrigger>>
vars == <<now, pending, state, threadVars, owner, calls, revoked>>

TypeOK ==
    /\ now \in Times
    /\ pending \in Seq(Slots)
    /\ state \in {"RUNNING", "DEACTIVATE", "BLOCKED"}
    /\ pc \in {"wait", "process", "timed", "settle"}
    /\ started \in Times
    /\ current \in Slots \cup {None}
    /\ delay \in 0..Never
    /\ nextTrigger \in 0..Never
    /\ owner \in {"alive", "waiting", "gone"}
    /\ calls \in 0..MaxCalls
    /\ revoked \subseteq Contents

Init ==
    /\ now = 0
    /\ pending = <<>>
    /\ state = "BLOCKED"
    /\ pc = "wait"
    /\ started = 0
    /\ current = None
    /\ delay = Never
    /\ nextTrigger = Never
    /\ owner = "alive"
    /\ calls = 0
    /\ revoked = {}

Slot(t, i) == [time |-> t, info |-> i]
IsPending(i) == \E k \in DOMAIN pending : pending[k].info = i

\* ScheduleEntry: the place of e is before the first entry that is later.
Position(p, e) ==
    CHOOSE k \in 1..(Len(p) + 1) :
        /\ \A j \in 1..(k - 1) : e.time >= p[j].time
        /\ k <= Len(p) => e.time < p[k].time
\* Mutant: the entry is put at the end.
ScheduleLast(p, e) == Append(p, e)
ScheduleEntry(p, e) == Lists!InsertAt(p, Position(p, e), e)

\* Thread::Run() and Thread::Block() on a thread that is never stopped.
AfterRun == "RUNNING"
AfterBlock == IF state = "RUNNING" THEN "DEACTIVATE" ELSE state

-----------------------------------------------------------------------------
\* The clients and the owner

Call == owner = "alive" /\ calls < MaxCalls /\ calls' = calls + 1

\* The thread is run only when the new entry has become the first.
Put(p, e) ==
    /\ pending' = ScheduleEntry(p, e)
    /\ state' = IF Position(p, e) = 1 THEN AfterRun ELSE state
    /\ revoked' = revoked \ {e.info}
    /\ UNCHANGED <<now, threadVars, owner>>

Schedule(t, i) == Call /\ Put(pending, Slot(t, i))

\* The first entry of i, if any, is replaced.
Trigger(t, i) ==
    /\ Call
    /\ \/ \E k \in DOMAIN pending :
             /\ pending[k].info = i /\ \A j \in 1..(k - 1) : pending[j].info # i
             /\ Put(Lists!RemoveAt(pending, k), Slot(t, i))
       \/ ~IsPending(i) /\ Put(pending, Slot(t, i))

\* Mutant: only the first entry of i is removed.
RevokeFirst(i) ==
    /\ Call
    /\ \/ \E k \in DOMAIN pending :
             /\ pending[k].info = i /\ \A j \in 1..(k - 1) : pending[j].info # i
             /\ pending' = Lists!RemoveAt(pending, k)
             /\ state' = IF k = 1 THEN AfterRun ELSE state
       \/ ~IsPending(i) /\ UNCHANGED <<pending, state>>
    /\ revoked' = revoked \cup {i}
    /\ UNCHANGED <<now, threadVars, owner>>

\* RemoveEntry goes through the list and leaves what is not of i.
Without(p, i) ==
    LET kept[n \in 0..Len(p)] ==
            IF n = 0 THEN <<>>
            ELSE IF p[n].info = i THEN kept[n - 1] ELSE Append(kept[n - 1], p[n])
    IN  kept[Len(p)]

\* Its result, which decides whether the thread is run, is that of the last entry it
\* removed: was it then the first.
Revoke(i) ==
    /\ Call
    /\ pending' = Without(pending, i)
    /\ state' = IF /\ IsPending(i)
                   /\ \E n \in 1..Len(pending) :
                        \A k \in DOMAIN pending : pending[k].info = i <=> k <= n
                  THEN AfterRun ELSE state
    /\ revoked' = revoked \cup {i}
    /\ UNCHANGED <<now, threadVars, owner>>

\* The destructor up to its Wait(BLOCKED, infinite).
Destroy ==
    /\ MayDestroy
    /\ owner = "alive"
    /\ state' = AfterBlock
    /\ pending' = <<>>
    /\ owner' = "waiting"
    /\ UNCHANGED <<now, threadVars, calls, revoked>>

\* The wait is over; the members of the timer are destroyed.
Destroyed ==
    /\ owner = "waiting"
    /\ state = "BLOCKED"
    /\ owner' = "gone"
    /\ UNCHANGED <<now, pending, state, threadVars, calls, revoked>>

-----------------------------------------------------------------------------
\* The timer thread

\* The thread finds itself RUNNING, or its delay is over; Process() reads the clock.
Woke ==
    /\ pc = "wait"
    /\ state = "RUNNING" \/ delay = 0
    /\ IF state = "DEACTIVATE"
         THEN delay' = Never /\ UNCHANGED <<state, pc, started>>
         ELSE state' = "RUNNING" /\ pc' = "process" /\ started' = now /\ UNCHANGED delay
    /\ UNCHANGED <<now, pending, current, nextTrigger, owner, calls, revoked>>

\* The condition of the loop of Process().
IsDue(p) == IF p = <<>> THEN FALSE ELSE Head(p).time <= started

\* The head is due: take it out and call Timed() without the lock.
Serve(p) ==
    /\ IsDue(p)
    /\ current' = Head(p)
    /\ pending' = Tail(p)
    /\ pc' = "timed"
    /\ UNCHANGED <<delay, nextTrigger>>

\* Mutant: the delay is not computed.
SettleForEver(p) ==
    /\ ~IsDue(p)
    /\ current' = None
    /\ pending' = p
    /\ pc' = "settle"
    /\ nextTrigger' = IF p = <<>> THEN Never ELSE Head(p).time
    /\ delay' = Never

\* Nothing is due: compute the next trigger and the delay up to it.
Settle(p) ==
    /\ ~IsDue(p)
    /\ current' = None
    /\ pending' = p
    /\ pc' = "settle"
    /\ nextTrigger' = IF p = <<>> THEN Never
                      ELSE IF now >= Head(p).time THEN now ELSE Head(p).time
    /\ delay' = IF p = <<>> THEN Never ELSE nextTrigger' - now

\* Process() from its start to the first Timed() or to its end.
Process ==
    /\ pc = "process"
    /\ state' = AfterBlock
    /\ Serve(pending) \/ Settle(pending)
    /\ UNCHANGED <<now, started, owner, calls, revoked>>

\* Timed() returns 0 or a time after the one Process() has read (the ASSERT of
\* Timer.h:240); the entry is scheduled again and the loop goes on.
TimedReturns ==
    /\ pc = "timed"
    /\ \/ Serve(pending) \/ Settle(pending)
       \/ /\ current.info \notin OneShot
          /\ \E t \in (started + 1)..MaxTime :
                LET p == ScheduleEntry(pending, Slot(t, current.info))
                IN  Serve(p) \/ Settle(p)
    /\ UNCHANGED <<now, state, started, owner, calls, revoked>>

\* Mutant: the thread blocks although it was run since.
SettledBlocked ==
    /\ pc = "settle"
    /\ state' = "BLOCKED"
    /\ pc' = "wait"
    /\ UNCHANGED <<now, pending, delay, started, current, nextTrigger, owner, calls, revoked>>

\* Worker() has returned: a deactivated thread blocks, and the delay starts.
Settled ==
    /\ pc = "settle"
    /\ state' = IF state = "DEACTIVATE" THEN "BLOCKED" ELSE state
    /\ pc' = "wait"
    /\ UNCHANGED <<now, pending, delay, started, current, nextTrigger, owner, calls, revoked>>

\* The clock stops at MaxTime, which stands for every later time; a sleep that
\* began late still ends.
Tick ==
    LET sleeps == pc = "wait" /\ delay \in 1..MaxTime
    IN  /\ now < MaxTime \/ sleeps
        /\ now' = IF now < MaxTime THEN now + 1 ELSE now
        /\ delay' = IF sleeps THEN delay - 1 ELSE delay
        /\ UNCHANGED <<pending, state, pc, started, current, nextTrigger, owner, calls, revoked>>

TimerThread == Woke \/ Process \/ TimedReturns \/ Settled

Next ==
    \/ \E i \in Contents : Revoke(i) \/ \E t \in Times : Schedule(t, i) \/ Trigger(t, i)
    \/ Destroy \/ Destroyed
    \/ TimerThread
    \/ Tick

Spec == Init /\ [][Next]_vars

\* Time passes, the timer thread runs, Timed() returns.
FairSpec == Spec /\ WF_vars(Tick) /\ WF_vars(TimerThread) /\ WF_vars(Destroyed)

-----------------------------------------------------------------------------
\* The list stays sorted, which Process() and ScheduleEntry() rely on.
Sorted == \A k \in 1..(Len(pending) - 1) : pending[k].time <= pending[k + 1].time

\* A blocked timer thread has been told to wake no later than for the first
\* entry: no order of Schedule, Trigger, Revoke and of the end of Process() makes
\* it oversleep (Timer.h:151, :173, :197, :246-267).
WakesForHead ==
    state # "RUNNING" /\ pc \in {"settle", "wait"} /\ pending # <<>> /\ owner = "alive"
        => nextTrigger <= Head(pending).time \/ nextTrigger <= now

\* Every entry is served or revoked (Timer.h:145-156, :226-231).
EntryLeaves == \A t \in Times, i \in Contents :
    (\E k \in DOMAIN pending : pending[k] = Slot(t, i))
        ~> ~(\E k \in DOMAIN pending : pending[k] = Slot(t, i))

\* A revoked content is pending only if its own Timed(), which Revoke found
\* running, has put it back (Timer.h:187-200, :233-243).
RevivedByTimedOnly ==
    [][\A i \in revoked' :
         IsPending(i)' => \/ i \in revoked /\ IsPending(i)
                          \/ pc = "timed" /\ current.info = i]_vars

\* "Since we have the admin lock, we are pretty sure that there is not any context
\* running, so we can be pretty sure that if it was scheduled, it is gone !!!"
\* (Timer.h:189-191).  TLC finds it violated (README, "Divergences").
RevokedIsGone == \A i \in revoked : ~IsPending(i)

\* The destructor is "Force kill on all pending stuff" (Timer.h:133): when it has
\* waited for the thread, nothing is pending and the thread is not in Process().
\* TLC finds this violated with MayDestroy (README, "Divergences").
ForceKill == owner = "gone" => pending = <<>> /\ pc = "wait"
=============================================================================
